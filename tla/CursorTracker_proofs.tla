------------------------ MODULE CursorTracker_proofs ------------------------
(***************************************************************************)
(* Facts about the tracker's operators, for every tracker over a bounded   *)
(* set of message IDs: what terminal and observe do to it, for one ID and  *)
(* for a group.                                                            *)
(***************************************************************************)
EXTENDS CursorTracker, WellFoundedInduction, TLAPS

Bounded(Ids) == \E N \in Nat : Ids \subseteq 1 .. N

\* A nonempty set of message IDs has a highest member, and Max denotes it.
LEMMA MaxOfIds ==
  ASSUME NEW Ids, Bounded(Ids),
         NEW S, S \subseteq Ids, S # {}
  PROVE  /\ Max(S) \in S
         /\ \A x \in S : x <= Max(S)
<1> PICK N \in Nat : Ids \subseteq 1 .. N
  BY DEF Bounded
<1> DEFINE T == {N - x : x \in S}
           R == OpToRel(<, Nat)
<1>0. \A x \in S : x \in Nat /\ x <= N
  OBVIOUS
<1>1. T \subseteq Nat /\ T # {}
  <2>1. \A x \in S : N - x \in Nat
    BY <1>0
  <2> QED
    BY <2>1
<1>2. PICK m \in T : \A y \in T : ~ (<<y, m>> \in R)
  <2>1. IsWellFoundedOn(R, Nat)
    BY NatLessThanWellFounded
  <2> HIDE DEF T, R
  <2> QED
    BY <1>1, <2>1, WFMin
<1>3. \A y \in T : ~ (y < m)
  <2> TAKE y \in T
  <2>1. y \in Nat /\ m \in Nat
    BY <1>1
  <2>2. <<y, m>> \notin R
    BY <1>2
  <2> QED
    BY <2>1, <2>2 DEF OpToRel
<1>4. PICK x \in S : m = N - x
  OBVIOUS
<1>5. \A z \in S : x >= z
  <2> TAKE z \in S
  <2>1. ~ (N - z < N - x)
    BY <1>3, <1>4
  <2> HIDE DEF T, R
  <2> QED
    BY <1>0, <2>1
<1> HIDE DEF T, R
<1>6. \E y \in S : \A z \in S : y >= z
  BY <1>5
<1>7. Max(S) \in S /\ \A z \in S : Max(S) >= z
  BY <1>6, Zenon DEF Max
<1> QED
  BY <1>0, <1>7

\* What terminal does to a sound tracker, for any group of IDs: it stays sound,
\* the cursor does not go back, and it is the highest of the terminals (old and
\* new) that lie below the unresolved IDs left.
LEMMA TerminalAllFacts ==
  ASSUME NEW Ids, Bounded(Ids),
         NEW t \in Trackers(Ids), Sound(t), NEW S \in SUBSET Ids
  PROVE  LET t2  == TerminalAll(t, S)
             all == t.terminals \cup Above(t, S)
         IN  /\ t2 \in Trackers(Ids)
             /\ Sound(t2)
             /\ t2.cursor >= t.cursor
             /\ t2.cursor \in {t.cursor} \cup all
             /\ t2.unresolved = t.unresolved \ Above(t, S)
             /\ t2.terminals = {e \in all : e > t2.cursor}
             /\ \A e \in all : (\A u \in t2.unresolved : e < u) => e <= t2.cursor
<1> DEFINE A   == Above(t, S)
           all == t.terminals \cup A
           m   == [t EXCEPT !.unresolved = @ \ A, !.terminals = @ \cup A]
           popped == Poppable(m)
<1>1. /\ t.cursor \in Nat /\ t.unresolved \subseteq Ids /\ t.terminals \subseteq Ids
      /\ t = [cursor |-> t.cursor, unresolved |-> t.unresolved,
              terminals |-> t.terminals]
  BY DEF Trackers
<1>2. A \subseteq Ids /\ \A e \in A : e > t.cursor
  BY DEF Above
<1>3. \A i \in Ids : i \in Nat
  BY DEF Bounded
<1>4. all \subseteq Ids /\ \A e \in all : e > t.cursor
  BY <1>1, <1>2 DEF Sound
<1>5. CASE A = {}
  <2>1. TerminalAll(t, S) = t /\ all = t.terminals
    BY <1>5 DEF TerminalAll
  <2>2. \A e \in all : (\A u \in t.unresolved : e < u) => e <= t.cursor
    <3> SUFFICES ASSUME NEW e \in all, \A u \in t.unresolved : e < u
                 PROVE  FALSE
      OBVIOUS
    <3>1. PICK u \in t.unresolved : u <= e
      BY <2>1 DEF Sound
    <3> QED
      BY <1>1, <1>3, <1>4, <3>1
  <2> QED
    BY <1>4, <1>5, <2>1, <2>2, <1>1
<1>6. CASE A # {}
  <2>1. TerminalAll(t, S) = Pop(m)
    BY <1>6 DEF TerminalAll
  <2>2. /\ m.cursor = t.cursor
        /\ m.unresolved = t.unresolved \ A
        /\ m.terminals = all
        /\ m \in Trackers(Ids)
    BY <1>1, <1>2, <1>4 DEF Trackers
  <2>3. popped = {x \in all : \A u \in t.unresolved \ A : x < u}
    BY <2>2 DEF Poppable
  <2>4. \A e \in all \ popped : \E u \in t.unresolved \ A : u <= e
    BY <1>1, <1>3, <1>4, <2>3
  <2> HIDE DEF m, popped, all
  <2>5. CASE popped = {}
    <3>1. Pop(m) = m
      BY <2>5 DEF Pop, popped
    <3>2. Sound(m)
      BY <2>2, <2>4, <2>5, <1>4 DEF Sound
    <3>3. all = {e \in all : e > t.cursor}
      BY <1>4
    <3>4. \A e \in all : ~ (\A u \in t.unresolved \ A : e < u)
      BY <2>4, <2>5, <1>1, <1>3, <1>4
    <3> QED
      BY <1>1, <2>1, <2>2, <3>1, <3>2, <3>3, <3>4 DEF all
  <2>6. CASE popped # {}
    <3> DEFINE p == Pop(m)
    <3>1. popped \subseteq Ids
      BY <1>4, <2>3
    <3>2. Max(popped) \in popped /\ \A x \in popped : x <= Max(popped)
      BY <2>6, <3>1, MaxOfIds
    <3>3. p = [m EXCEPT !.cursor = Max(popped), !.terminals = @ \ popped]
      BY <2>6 DEF Pop, popped
    <3>4. /\ p.cursor = Max(popped)
          /\ p.unresolved = t.unresolved \ A
          /\ p.terminals = all \ popped
          /\ p \in Trackers(Ids)
      BY <1>3, <2>2, <3>1, <3>2, <3>3 DEF Trackers
    <3> HIDE DEF p
    <3>5. /\ p.cursor \in all
          /\ p.cursor > t.cursor
          /\ \A u \in t.unresolved \ A : p.cursor < u
      BY <1>4, <2>3, <3>2, <3>4
    <3>6. \A e \in all \ popped : e > p.cursor
      <4> TAKE e \in all \ popped
      <4>1. PICK u \in t.unresolved \ A : u <= e
        BY <2>4
      <4>2. p.cursor < u
        BY <3>5
      <4> QED
        BY <1>1, <1>3, <1>4, <3>5, <4>1, <4>2
    <3>7. Sound(p)
      BY <1>1, <1>3, <1>4, <2>4, <3>4, <3>5, <3>6 DEF Sound
    <3>8. \A e \in popped : e <= p.cursor
      BY <3>2, <3>4
    <3>9. p.terminals = {e \in all : e > p.cursor}
      BY <1>1, <1>3, <1>4, <3>1, <3>4, <3>5, <3>6, <3>8
    <3>10. \A e \in all : (\A u \in p.unresolved : e < u) => e <= p.cursor
      BY <2>3, <3>4, <3>8
    <3>11. p.cursor >= t.cursor
      BY <1>1, <1>3, <1>4, <3>5
    <3> QED
      BY <2>1, <3>4, <3>5, <3>7, <3>9, <3>10, <3>11 DEF p, all
  <2> QED
    BY <2>5, <2>6
<1> QED
  BY <1>5, <1>6

\* One call of terminal is a group of one.
LEMMA TerminalOfOne ==
  ASSUME NEW Ids, Bounded(Ids),
         NEW t \in Trackers(Ids), NEW id \in Ids
  PROVE  terminal(t, id) = TerminalAll(t, {id})
<1>1. t.cursor \in Nat /\ id \in Nat
  BY DEF Trackers, Bounded
<1>2. CASE id <= t.cursor
  <2>1. Above(t, {id}) = {}
    BY <1>1, <1>2 DEF Above
  <2> QED
    BY <1>2, <2>1 DEF terminal, TerminalAll
<1>3. CASE ~(id <= t.cursor)
  <2>1. Above(t, {id}) = {id}
    BY <1>1, <1>3 DEF Above
  <2> QED
    BY <1>3, <2>1 DEF terminal, TerminalAll
<1> QED
  BY <1>2, <1>3

\* The loops of finishTerminals and observeAll (engine.go:805, 794) call
\* terminal and observe member by member: one more call takes a sound tracker
\* from what the group so far has done to what the group with the new member
\* does, whatever the order, so TerminalAll and ObserveAll are those loops.
THEOREM GroupIsLoop ==
  ASSUME NEW Ids, Bounded(Ids),
         NEW t \in Trackers(Ids), Sound(t), NEW S \in SUBSET Ids, NEW id \in Ids
  PROVE  /\ terminal(TerminalAll(t, S), id) = TerminalAll(t, S \cup {id})
         /\ observe(ObserveAll(t, S), id) = ObserveAll(t, S \cup {id})
         /\ TerminalAll(t, {}) = t /\ ObserveAll(t, {}) = t
<1> DEFINE a == TerminalAll(t, S)
           b == terminal(a, id)
           c == TerminalAll(t, S \cup {id})
           all == t.terminals \cup Above(t, S \cup {id})
<1>0. /\ t.cursor \in Nat /\ t.unresolved \subseteq Ids /\ t.terminals \subseteq Ids
      /\ \A i \in Ids : i \in Nat
  BY DEF Trackers, Bounded
<1>1. /\ a \in Trackers(Ids) /\ Sound(a) /\ a.cursor >= t.cursor
      /\ a.cursor \in {t.cursor} \cup t.terminals \cup Above(t, S)
      /\ a.unresolved = t.unresolved \ Above(t, S)
      /\ a.terminals = {e \in t.terminals \cup Above(t, S) : e > a.cursor}
  BY TerminalAllFacts
<1>2. b = TerminalAll(a, {id})
  BY <1>1, TerminalOfOne
<1>3. /\ b \in Trackers(Ids) /\ Sound(b) /\ b.cursor >= a.cursor
      /\ b.cursor \in {a.cursor} \cup a.terminals \cup Above(a, {id})
      /\ b.unresolved = a.unresolved \ Above(a, {id})
      /\ b.terminals = {e \in a.terminals \cup Above(a, {id}) : e > b.cursor}
      /\ \A e \in a.terminals \cup Above(a, {id}) : (\A u \in b.unresolved : e < u) => e <= b.cursor
  <2> HIDE DEF a, b, c, all
  <2>1. PICK T \in SUBSET Ids : T = {id}
    OBVIOUS
  <2> DEFINE d == TerminalAll(a, T)
  <2>2. a \in Trackers(Ids) /\ Sound(a)
    BY <1>1
  <2>3. /\ d \in Trackers(Ids) /\ Sound(d) /\ d.cursor >= a.cursor
        /\ d.cursor \in {a.cursor} \cup a.terminals \cup Above(a, T)
        /\ d.unresolved = a.unresolved \ Above(a, T)
        /\ d.terminals = {e \in a.terminals \cup Above(a, T) : e > d.cursor}
        /\ \A e \in a.terminals \cup Above(a, T) : (\A u \in d.unresolved : e < u) => e <= d.cursor
    BY <2>2, TerminalAllFacts
  <2> QED
    BY <1>2, <2>1, <2>3
<1>4. /\ c \in Trackers(Ids) /\ Sound(c) /\ c.cursor >= t.cursor
      /\ c.cursor \in {t.cursor} \cup all
      /\ c.unresolved = t.unresolved \ Above(t, S \cup {id})
      /\ c.terminals = {e \in all : e > c.cursor}
      /\ \A e \in all : (\A u \in c.unresolved : e < u) => e <= c.cursor
  <2>1. S \cup {id} \in SUBSET Ids
    OBVIOUS
  <2> QED
    BY <2>1, TerminalAllFacts
<1> HIDE DEF a, b, c
<1>5. a.cursor \in Nat /\ b.cursor \in Nat /\ c.cursor \in Nat
  BY <1>1, <1>3, <1>4 DEF Trackers
<1>6. all \subseteq Ids /\ \A e \in all : e > t.cursor
  BY <1>0 DEF Sound, Above
\* The same members leave unresolved.
<1>7. b.unresolved = c.unresolved
  <2>1. \A u \in a.unresolved : u > a.cursor
    BY <1>1 DEF Sound
  <2>2. \A u \in a.unresolved : u \in Above(a, {id}) <=> u = id
    BY <2>1 DEF Above
  <2>3. \A u \in t.unresolved : u \in Above(t, S \cup {id}) <=> u \in Above(t, S) \/ u = id
    BY DEF Above, Sound
  <2> QED
    BY <1>1, <1>3, <1>4, <2>2, <2>3
\* What the second call can still end is what the first one left, and id.
<1>8. a.terminals \cup Above(a, {id}) = {e \in all : e > a.cursor}
  BY <1>0, <1>1, <1>5 DEF Above
<1>9. b.cursor \in {t.cursor} \cup all
  BY <1>1, <1>3, <1>8 DEF Above
<1>10. \A e \in all : (\A u \in b.unresolved : e < u) => e <= b.cursor
  <2> SUFFICES ASSUME NEW e \in all, \A u \in b.unresolved : e < u
               PROVE  e <= b.cursor
    OBVIOUS
  <2>0. e \in Nat
    BY <1>0, <1>6
  <2> HIDE DEF all
  <2>1. CASE e <= a.cursor
    BY <1>3, <1>5, <2>0, <2>1
  <2>2. CASE e > a.cursor
    BY <1>3, <1>8, <2>2
  <2> QED
    BY <1>5, <2>0, <2>1, <2>2
\* Both cursors are the highest ID of all that no unresolved one blocks.
<1>11. b.cursor = c.cursor
  <2>1. \A u \in b.unresolved : u > b.cursor /\ u > c.cursor
    BY <1>3, <1>4, <1>7 DEF Sound
  <2>2. b.cursor <= c.cursor
    BY <1>0, <1>4, <1>5, <1>6, <1>7, <1>9, <2>1
  <2>3. c.cursor <= b.cursor
    <3>1. CASE c.cursor = t.cursor
      BY <1>0, <1>1, <1>3, <1>5, <3>1
    <3>2. CASE c.cursor \in all
      BY <1>10, <2>1, <3>2, <1>5
    <3> QED
      BY <1>4, <3>1, <3>2
  <2> QED
    BY <1>5, <2>2, <2>3
<1>12. b.terminals = c.terminals
  <2> HIDE DEF all
  <2>1. \A e \in all : e \in Nat
    BY <1>0, <1>6
  <2>2. \A e \in all : e > b.cursor => e > a.cursor
    BY <1>3, <1>5, <2>1
  <2> QED
    BY <1>3, <1>4, <1>8, <1>11, <2>2
<1>13. b = c
  <2>1. /\ b = [cursor |-> b.cursor, unresolved |-> b.unresolved, terminals |-> b.terminals]
        /\ c = [cursor |-> c.cursor, unresolved |-> c.unresolved, terminals |-> c.terminals]
    BY <1>3, <1>4 DEF Trackers
  <2> QED
    BY <1>7, <1>11, <1>12, <2>1
<1>14. observe(ObserveAll(t, S), id) = ObserveAll(t, S \cup {id})
  <2>1. Above(t, S \cup {id}) = IF id <= t.cursor THEN Above(t, S) ELSE Above(t, S) \cup {id}
    BY <1>0 DEF Above
  <2> QED
    BY <2>1 DEF observe, ObserveAll, Trackers
<1>15. TerminalAll(t, {}) = t /\ ObserveAll(t, {}) = t
  BY DEF TerminalAll, ObserveAll, Above, Trackers
<1> QED
  BY <1>13, <1>14, <1>15 DEF a, b, c

LEMMA MaxOfPair ==
  ASSUME NEW a \in Nat, NEW b \in Nat
  PROVE  Max({a, b}) = IF a >= b THEN a ELSE b
<1>1. \E x \in {a, b} : \A y \in {a, b} : x >= y
  OBVIOUS
<1>2. Max({a, b}) \in {a, b} /\ \A y \in {a, b} : Max({a, b}) >= y
  BY <1>1, Zenon DEF Max
<1> QED
  BY <1>2
=============================================================================
