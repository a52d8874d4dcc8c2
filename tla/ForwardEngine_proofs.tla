------------------------ MODULE ForwardEngine_proofs ------------------------
(***************************************************************************)
(* Proofs about ForwardEngine for every channel, every rules and every     *)
(* bound: the engine keeps each rule's watermark (it implements            *)
(* RuleWatermark rule by rule), a message ends only for a cause, and it is *)
(* lost only for a cause; with one rule and no albums none is passed by,   *)
(* and as long as nothing fails none is posted twice.                      *)
(***************************************************************************)
EXTENDS ForwardEngine, CursorTracker_proofs, FiniteSetTheorems, SequenceTheorems

(***************************************************************************)
(* The types.  A group is one message or members of one album.             *)
(***************************************************************************)
Groups == {grp \in Seq(Ids) : grp # <<>> /\ \A i, j \in DOMAIN grp : grp[j] \in Mates(grp[i])}
Tasks == [rule : Rules, msgs : Groups]
Waits == {"idle", "fetch", "drain", "settle"}
InRule == {"check", "finish", "persist", "push", "count"}

\* Where a handler can stand, with what it then has in hand.
HandlerStates ==
  {s \in [pc : Waits \cup InRule \cup {"next"}, feed : Seq(Ids), groups : Seq(Groups),
          todo : Seq(Rules), adv : Nat, then : {"idle", "drain", "settle"}, batch : Nat] :
     /\ s.todo # <<>>
     /\ s.pc \in InRule => s.groups # <<>>
     /\ s.pc = "next" => s.groups # <<>> \/ s.feed # <<>>
     /\ s.pc = "persist" => s.adv \in Ids
     /\ s.pc \in Waits => s.feed = <<>> /\ s.groups = <<>>}

ConsumerStates ==
  {IdleConsumer} \cup
  {s \in [pc : {"send", "record", "finish", "persist"}, task : Tasks, tries : Nat,
          left : Seq(Ids), adv : Nat] :
     /\ ToSet(s.left) \subseteq ToSet(s.task.msgs)
     /\ s.pc = "persist" => s.adv \in Ids}

TypeOK ==
  /\ published \in 0 .. MaxId /\ delivered \in 0 .. published
  /\ sent \in [Targets -> [Ids -> Nat]]
  /\ \A x \in records : x.msg \in Ids /\ x.target \in Targets
  /\ dbCursor \in [Rules -> Nat] /\ \A r \in Rules : dbCursor[r] <= MaxId
  /\ trackers \in [Rules -> Trackers(Ids)]
  /\ album \in [Albums -> Seq(Ids)]
  /\ \A g \in Albums : \A i \in DOMAIN album[g] : GroupedID[album[g][i]] = g
  /\ queue \in Seq(Tasks)
  /\ handlers \in [Handlers -> HandlerStates]
  /\ consumer \in ConsumerStates
  /\ start \in [Rules -> Nat]
  /\ {ended, settled, rejected, overtaken} \subseteq [Rules -> SUBSET Ids]
  /\ {unwritten, aside} \subseteq SUBSET Ids

\* What is persisted, or is about to be, is not ahead of the tracker, and the
\* trackers keep their representation invariant.
Behind(r, c) == c <= trackers[r].cursor
TrackersSound ==
  \A r \in Rules : /\ Sound(trackers[r]) /\ Behind(r, dbCursor[r])
                   /\ \A c \in PendingWrites(r) : Behind(r, c)

\* A record tells of a message that was posted.
RecordsTrue == \A x \in records : sent[x.target][x.msg] > 0

\* A handler skips a group for a reason that stays one.
SkipHasCause ==
  \A h \in Handlers : At(h, "finish") =>
    \/ Exists(Rule(h), Grp(h)) \/ ExistsByContent(Rule(h), Grp(h))
    \/ ~ ShouldForward(Rule(h), Grp(h))

\* The consumer has posted what it records, and given up what it finishes.
ConsumerTrue ==
  /\ ConsumerAt("record") => \A m \in ToSet(Task.msgs) : sent[Target[Task.rule]][m] > 0
  /\ ConsumerAt("finish") => ToSet(Task.msgs) \subseteq rejected[Task.rule]

CauseInv == RecordsTrue /\ SkipHasCause /\ ConsumerTrue /\ TerminalHasCause

\* The rule has the message: the cursor will not pass it before it ends, or it
\* already has a cause.
Covered(r, m) ==
  m \in settled[r] \cup unwritten \cup aside \cup overtaken[r] \cup trackers[r].unresolved

\* Every published message is covered or still in hand; and the rules a handler
\* is through with have the messages of the group it works on.
Accounted == \A r \in Rules : \A m \in 1 .. published : Covered(r, m) \/ InHand(m)

SeenBy(h, r) ==
  r \notin ToSet(handlers[h].todo) \/ (handlers[h].pc \in InRule /\ r = Rule(h))

GroupsCovered ==
  \A h \in Handlers : handlers[h].groups # <<>> =>
    \A r \in Rules : SeenBy(h, r) => \A m \in ToSet(Grp(h)) : Covered(r, m)

LossInv == TrackersSound /\ Accounted /\ GroupsCovered
-----------------------------------------------------------------------------
(* The constants, and the sequences the steps are made of. *)

LEMMA IdsBounded == Bounded(Ids)
BY EngineAssumption DEF Ids, Bounded

LEMMA ConstantTypes ==
  /\ MaxId \in Nat /\ \A i \in Ids : i \in Nat /\ i >= 1 /\ i <= MaxId
  /\ RuleOrder \in Seq(Rules) /\ RuleOrder # <<>>
  /\ \A r \in Rules : Target[r] \in Targets
  /\ \A m \in Ids : GroupedID[m] \in Nat /\ (GroupedID[m] # 0 => GroupedID[m] \in Albums)
  /\ \A r \in Rules : r \in ToSet(RuleOrder)
  /\ RecoveryLimit \in Nat /\ BackfillLimit \in Nat
BY EngineAssumption DEF Ids, Targets, Albums, Rules

LEMMA HeadTail ==
  ASSUME NEW T, NEW q \in Seq(T), q # <<>>
  PROVE  /\ Head(q) \in T /\ Head(q) = q[1] /\ Tail(q) \in Seq(T)
         /\ ToSet(q) = {Head(q)} \cup ToSet(Tail(q))
         /\ DOMAIN q = 1 .. Len(q) /\ Len(q) \in Nat \ {0} /\ Len(Tail(q)) = Len(q) - 1
         /\ \A i \in DOMAIN Tail(q) : i + 1 \in DOMAIN q /\ Tail(q)[i] = q[i + 1]
<1>1. /\ Len(q) \in Nat /\ Len(q) # 0 /\ DOMAIN q = 1 .. Len(q)
      /\ \A i \in 1 .. Len(q) : q[i] \in T
  OBVIOUS
<1>2. /\ Head(q) = q[1] /\ Tail(q) \in Seq(T) /\ Len(Tail(q)) = Len(q) - 1
      /\ \A i \in 1 .. Len(q) - 1 : Tail(q)[i] = q[i + 1]
      /\ DOMAIN Tail(q) = 1 .. Len(q) - 1
  BY <1>1
<1>3. ToSet(q) = {Head(q)} \cup ToSet(Tail(q))
  <2>1. \A i \in 1 .. Len(q) : i = 1 \/ (i - 1 \in 1 .. Len(q) - 1 /\ q[i] = Tail(q)[i - 1])
    BY <1>1, <1>2
  <2>2. ASSUME NEW i \in DOMAIN q PROVE q[i] \in {Head(q)} \cup ToSet(Tail(q))
    BY <1>1, <1>2, <2>1 DEF ToSet
  <2>3. {Head(q)} \cup ToSet(Tail(q)) \subseteq ToSet(q)
    BY <1>1, <1>2 DEF ToSet
  <2> QED
    BY <2>2, <2>3 DEF ToSet
<1> QED
  BY <1>1, <1>2, <1>3

LEMMA OneElement ==
  ASSUME NEW T, NEW e \in T
  PROVE  <<e>> \in Seq(T) /\ ToSet(<<e>>) = {e} /\ <<e>> # <<>> /\ Head(<<e>>) = e
         /\ DOMAIN <<e>> = {1} /\ <<e>>[1] = e
<1>1. <<e>> \in Seq(T) /\ <<e>> # <<>> /\ Head(<<e>>) = e /\ DOMAIN <<e>> = {1} /\ <<e>>[1] = e
  OBVIOUS
<1> QED
  BY <1>1 DEF ToSet

LEMMA NoElement ==
  ASSUME NEW T
  PROVE  <<>> \in Seq(T) /\ ToSet(<<>>) = {} /\ DOMAIN <<>> = {}
BY DEF ToSet

LEMMA AppendOne ==
  ASSUME NEW T, NEW q \in Seq(T), NEW e \in T
  PROVE  /\ Append(q, e) \in Seq(T) /\ ToSet(Append(q, e)) = ToSet(q) \cup {e}
         /\ \A i \in DOMAIN Append(q, e) : \/ i \in DOMAIN q /\ Append(q, e)[i] = q[i]
                                           \/ Append(q, e)[i] = e
<1>1. /\ Append(q, e) \in Seq(T) /\ Len(Append(q, e)) = Len(q) + 1 /\ Len(q) \in Nat
      /\ DOMAIN q = 1 .. Len(q) /\ DOMAIN Append(q, e) = 1 .. Len(q) + 1
      /\ \A i \in 1 .. Len(q) : Append(q, e)[i] = q[i]
      /\ Append(q, e)[Len(q) + 1] = e
  OBVIOUS
<1>2. ToSet(Append(q, e)) = ToSet(q) \cup {e}
  BY <1>1 DEF ToSet
<1> QED
  BY <1>1, <1>2

\* The order in which FlushAll and FlushDue hand out albums leaves none out.
LEMMA OrderCovers ==
  ASSUME NEW S, IsFiniteSet(S), NEW f \in SetToSeqs(S)
  PROVE  f \in Seq(S) /\ \A x \in S : \E i \in DOMAIN f : f[i] = x
<1> DEFINE D == 1 .. Cardinality(S)
           R == {f[i] : i \in D}
<1>1. Cardinality(S) \in Nat
  BY FS_CardinalityType
<1>2. f \in [D -> S] /\ \A i, j \in D : i # j => f[i] # f[j]
  BY DEF SetToSeqs
<1>3. IsFiniteSet(D) /\ Cardinality(D) = Cardinality(S)
  BY <1>1, FS_Interval
<1>4. f \in Bijection(D, R)
  BY <1>2 DEF Bijection, Injection, Surjection, IsInjective
<1>5. IsFiniteSet(R) /\ Cardinality(R) = Cardinality(S)
  <2> HIDE DEF D, R
  <2>1. ExistsBijection(D, R)
    BY <1>4 DEF ExistsBijection
  <2> QED
    BY <1>3, <2>1, FS_Bijection
<1>6. R = S
  <2>1. R \subseteq S
    BY <1>2
  <2> QED
    BY <1>5, <2>1, FS_Subset
<1> QED
  BY <1>1, <1>2, <1>6
-----------------------------------------------------------------------------
(* Where the helpers take a handler. *)

\* Handler h is the only one to move, to state s; persisting starts and ends
\* elsewhere.
Moves(h, s) ==
  /\ s \in HandlerStates
  /\ handlers' = [handlers EXCEPT ![h] = s]

LEMMA HandlerType ==
  ASSUME NEW s \in HandlerStates
  PROVE  /\ s.pc \in Waits \cup InRule \cup {"next"} /\ s.feed \in Seq(Ids)
         /\ s.groups \in Seq(Groups) /\ s.todo \in Seq(Rules) /\ s.todo # <<>>
         /\ s.adv \in Nat /\ s.then \in {"idle", "drain", "settle"} /\ s.batch \in Nat
         /\ s.pc \in InRule => s.groups # <<>>
         /\ s.pc = "next" => s.groups # <<>> \/ s.feed # <<>>
         /\ s.pc = "persist" => s.adv \in Ids
         /\ s.pc \in Waits => s.feed = <<>> /\ s.groups = <<>>
         /\ Head(s.todo) \in Rules
         /\ s = [pc |-> s.pc, feed |-> s.feed, groups |-> s.groups, todo |-> s.todo,
                 adv |-> s.adv, then |-> s.then, batch |-> s.batch]
<1>1. s.todo \in Seq(Rules) /\ s.todo # <<>>
  BY DEF HandlerStates
<1>2. Head(s.todo) \in Rules
  BY <1>1, HeadTail
<1> QED
  BY <1>2 DEF HandlerStates

LEMMA GroupType ==
  ASSUME NEW grp \in Groups
  PROVE  /\ grp \in Seq(Ids) /\ grp # <<>> /\ ToSet(grp) \in SUBSET Ids
         /\ \A x, y \in ToSet(grp) : y \in Mates(x)
         /\ ToSet(grp) # {}
<1>1. grp \in Seq(Ids) /\ grp # <<>> /\ \A i, j \in DOMAIN grp : grp[j] \in Mates(grp[i])
  BY DEF Groups
<1>2. DOMAIN grp # {} /\ \A i \in DOMAIN grp : grp[i] \in Ids
  BY <1>1
<1> QED
  BY <1>1, <1>2 DEF ToSet

\* The group and the rule a handler in processRule works on.
LEMMA InHandType ==
  ASSUME TypeOK, NEW h \in Handlers, handlers[h].groups # <<>>
  PROVE  /\ Grp(h) \in Groups /\ Rule(h) \in Rules
         /\ ToSet(Grp(h)) \in SUBSET Ids
<1>1. handlers[h] \in HandlerStates
  BY DEF TypeOK
<1>2. handlers[h].groups \in Seq(Groups) /\ Rule(h) \in Rules
  BY <1>1, HandlerType DEF Rule
<1>3. Grp(h) \in Groups
  BY <1>2, HeadTail DEF Grp
<1> QED
  BY <1>2, <1>3, GroupType

LEMMA ContinueState ==
  ASSUME NEW s \in HandlerStates, NEW gs \in Seq(Groups), NEW fd \in Seq(Ids)
  PROVE  LET c == Continue(s, gs, fd)
         IN  /\ c \in HandlerStates /\ c.pc \notin InRule \cup {"fetch"}
             /\ c.groups = gs /\ c.feed = fd /\ c.todo = RuleOrder
<1>1. RuleOrder \in Seq(Rules) /\ RuleOrder # <<>>
  BY ConstantTypes
<1>2. /\ Continue(s, gs, fd) \in HandlerStates
      /\ Continue(s, gs, fd).pc \in {s.then, "next"}
  BY ZenonT(60), <1>1 DEF Continue, HandlerStates, Waits, InRule
<1>3. /\ Continue(s, gs, fd).groups = gs /\ Continue(s, gs, fd).feed = fd
      /\ Continue(s, gs, fd).todo = RuleOrder
  BY DEF Continue, HandlerStates
<1>4. s.then \in {"idle", "drain", "settle"}
  BY HandlerType
<1> QED
  BY <1>2, <1>3, <1>4 DEF InRule

\* Feed and FlushTo set what comes after the last group first.
LEMMA ThenState ==
  ASSUME NEW s \in HandlerStates, NEW th \in {"idle", "drain", "settle"}
  PROVE  /\ [s EXCEPT !.then = th] \in HandlerStates
         /\ \A n \in Nat : [s EXCEPT !.then = th, !.batch = n] \in HandlerStates
BY DEF HandlerStates, Waits, InRule

LEMMA FeedMoves ==
  ASSUME TypeOK, NEW h \in Handlers, NEW gs \in Seq(Groups), NEW fd \in Seq(Ids),
         NEW th \in {"idle", "drain", "settle"},
         handlers' = [handlers EXCEPT ![h] = Continue([@ EXCEPT !.then = th], gs, fd)]
  PROVE  \E s : /\ Moves(h, s) /\ s.pc \notin InRule \cup {"fetch"} /\ s.todo = RuleOrder
                /\ s.groups = gs /\ s.feed = fd
<1> DEFINE s == [handlers[h] EXCEPT !.then = th]
           c == Continue(s, gs, fd)
<1>1. handlers[h] \in HandlerStates /\ handlers' = [handlers EXCEPT ![h] = c]
  BY DEF TypeOK
<1>2. s \in HandlerStates
  BY <1>1, ThenState
<1> HIDE DEF s
<1>3. c \in HandlerStates /\ c.pc \notin InRule \cup {"fetch"} /\ c.groups = gs /\ c.feed = fd /\ c.todo = RuleOrder
  BY <1>2, ContinueState
<1> QED
  BY <1>1, <1>3 DEF Moves

LEMMA FeedSteps ==
  ASSUME TypeOK, NEW h \in Handlers, NEW fd \in Seq(Ids),
         NEW th \in {"idle", "drain", "settle"}, NEW n \in Nat, Feed(h, fd, th, n)
  PROVE  \E s : /\ Moves(h, s) /\ s.pc \notin InRule \cup {"fetch"} /\ s.todo = RuleOrder
                /\ s.groups = <<>> /\ s.feed = fd
<1> DEFINE s == [handlers[h] EXCEPT !.then = th, !.batch = n]
<1>1. handlers[h] \in HandlerStates /\ handlers' = [handlers EXCEPT ![h] = Continue(s, <<>>, fd)]
  BY DEF TypeOK, Feed
<1>2. s \in HandlerStates
  BY <1>1, ThenState
<1> HIDE DEF s
<1>3. PICK gs \in Seq(Groups) : gs = <<>>
  BY NoElement
<1> DEFINE c == Continue(s, gs, fd)
<1>4. c \in HandlerStates /\ c.pc \notin InRule \cup {"fetch"} /\ c.groups = gs /\ c.feed = fd /\ c.todo = RuleOrder
  BY <1>2, ContinueState
<1>5. handlers' = [handlers EXCEPT ![h] = c]
  BY <1>1, <1>3
<1> HIDE DEF c
<1> QED
  BY <1>3, <1>4, <1>5 DEF Moves

\* A handler drops what it was fed.
LEMMA EmptiedMoves ==
  ASSUME TypeOK, NEW h \in Handlers,
         handlers' = [handlers EXCEPT ![h] = Continue(@, <<>>, <<>>)]
  PROVE  \E s : /\ Moves(h, s) /\ s.pc \notin InRule \cup {"fetch"} /\ s.todo = RuleOrder
                /\ s.groups = <<>> /\ s.feed = <<>>
<1>1. handlers[h] \in HandlerStates
  BY DEF TypeOK
<1>2. PICK gs \in Seq(Groups), fd \in Seq(Ids) : gs = <<>> /\ fd = <<>>
  BY NoElement
<1> DEFINE c == Continue(handlers[h], gs, fd)
<1>3. handlers' = [handlers EXCEPT ![h] = c]
  BY <1>2
<1>4. /\ c \in HandlerStates /\ c.pc \notin InRule \cup {"fetch"} /\ c.groups = gs
      /\ c.todo = RuleOrder /\ c.feed = fd
  BY <1>1, ContinueState
<1> HIDE DEF c
<1> QED
  BY <1>2, <1>3, <1>4 DEF Moves

LEMMA HandOverMoves ==
  ASSUME TypeOK, NEW h \in Handlers, NextMessage(h), NEW gs \in Seq(Groups), HandOver(h, gs)
  PROVE  /\ handlers[h].feed # <<>> /\ Head(handlers[h].feed) \in Ids
         /\ ToSet(handlers[h].feed) = {Head(handlers[h].feed)} \cup ToSet(Tail(handlers[h].feed))
         /\ \E s : /\ Moves(h, s) /\ s.pc \notin InRule \cup {"fetch"} /\ s.todo = RuleOrder
                   /\ s.groups = gs /\ s.feed = Tail(handlers[h].feed)
<1>1. handlers[h] \in HandlerStates
  BY DEF TypeOK
<1>2. handlers[h].feed \in Seq(Ids) /\ handlers[h].feed # <<>>
  BY <1>1, HandlerType DEF NextMessage, At
<1>3. /\ Tail(handlers[h].feed) \in Seq(Ids) /\ Head(handlers[h].feed) \in Ids
      /\ ToSet(handlers[h].feed) = {Head(handlers[h].feed)} \cup ToSet(Tail(handlers[h].feed))
  BY <1>2, HeadTail
<1>4. PICK fd \in Seq(Ids) : fd = Tail(handlers[h].feed)
  BY <1>3
<1> DEFINE c == Continue(handlers[h], gs, fd)
<1>5. handlers' = [handlers EXCEPT ![h] = c]
  BY <1>4 DEF HandOver
<1>6. c \in HandlerStates /\ c.pc \notin InRule \cup {"fetch"} /\ c.groups = gs /\ c.todo = RuleOrder
      /\ c.feed = fd
  BY <1>1, ContinueState
<1> HIDE DEF c
<1> QED
  BY <1>2, <1>3, <1>4, <1>5, <1>6 DEF Moves

\* processRule returned: the handler has one rule less, or one group less.
OneRuleLess(h, s) ==
  /\ s.pc = "next" /\ s.groups = handlers[h].groups /\ s.feed = handlers[h].feed
  /\ s.todo = Tail(handlers[h].todo) /\ s.todo # <<>>

OneGroupLess(h, s) ==
  /\ s.pc \notin InRule \cup {"fetch"} /\ s.groups = Tail(handlers[h].groups) /\ s.feed = handlers[h].feed
  /\ s.todo = RuleOrder /\ Len(handlers[h].todo) = 1

LEMMA LessTodo ==
  ASSUME NEW q \in Seq(Rules), q # <<>>
  PROVE  /\ Tail(q) \in Seq(Rules)
         /\ Len(q) > 1 => Tail(q) # <<>>
         /\ ~ (Len(q) > 1) => Len(q) = 1
<1>1. PICK tl \in Seq(Rules), n \in Nat \ {0} : tl = Tail(q) /\ n = Len(q) /\ Len(tl) = n - 1
  BY HeadTail, Zenon
<1>2. n > 1 => tl # <<>>
  <2>1. SUFFICES ASSUME n > 1 PROVE Len(tl) # 0
    OBVIOUS
  <2>2. PICK k \in Nat : k = Len(tl)
    OBVIOUS
  <2>3. k = n - 1
    BY <1>1, <2>2
  <2>4. k # 0
    BY <2>1, <2>3
  <2> QED
    BY <2>2, <2>4
<1>3. ~ (n > 1) => n = 1
  OBVIOUS
<1> QED
  BY <1>1, <1>2, <1>3

LEMMA NextRuleState ==
  ASSUME NEW s \in HandlerStates, s.groups # <<>>, NEW td \in Seq(Rules), td # <<>>
  PROVE  LET d == [s EXCEPT !.todo = td, !.adv = 0, !.pc = "next"]
         IN  /\ d \in HandlerStates /\ d.pc = "next" /\ d.groups = s.groups
             /\ d.feed = s.feed /\ d.todo = td
BY DEF HandlerStates, Waits, InRule

LEMMA RuleDoneMoves ==
  ASSUME TypeOK, NEW h \in Handlers, handlers[h].groups # <<>>, RuleDone(h)
  PROVE  \E s : Moves(h, s) /\ (OneRuleLess(h, s) \/ OneGroupLess(h, s))
<1> DEFINE t == handlers[h]
<1>1. t \in HandlerStates /\ t.groups # <<>>
  BY DEF TypeOK
<1>2. handlers' = [handlers EXCEPT ![h] =
        IF Len(t.todo) > 1 THEN [t EXCEPT !.todo = Tail(@), !.adv = 0, !.pc = "next"]
        ELSE Continue(t, Tail(t.groups), t.feed)]
  BY DEF RuleDone
<1> HIDE DEF t
<1>3. t.todo \in Seq(Rules) /\ t.todo # <<>> /\ t.groups \in Seq(Groups) /\ t.feed \in Seq(Ids)
  BY <1>1, HandlerType
<1>4. PICK td \in Seq(Rules) : /\ td = Tail(t.todo)
                               /\ Len(t.todo) > 1 => td # <<>>
                               /\ ~ (Len(t.todo) > 1) => Len(t.todo) = 1
  BY <1>3, LessTodo
<1>5. PICK gs \in Seq(Groups) : gs = Tail(t.groups)
  BY <1>1, <1>3, HeadTail
<1>6. CASE Len(t.todo) > 1
  <2> DEFINE d == [t EXCEPT !.todo = td, !.adv = 0, !.pc = "next"]
  <2>1. /\ d \in HandlerStates /\ d.pc = "next" /\ d.groups = t.groups
        /\ d.feed = t.feed /\ d.todo = td /\ td # <<>>
    BY ZenonT(60), <1>1, <1>4, <1>6, NextRuleState
  <2>2. handlers' = [handlers EXCEPT ![h] = d]
    BY <1>2, <1>4, <1>6
  <2> HIDE DEF d
  <2> QED
    BY <1>4, <2>1, <2>2 DEF Moves, OneRuleLess, t
<1>7. CASE ~ (Len(t.todo) > 1)
  <2> DEFINE d == Continue(t, gs, t.feed)
  <2>1. /\ d \in HandlerStates /\ d.pc \notin InRule \cup {"fetch"} /\ d.groups = gs
        /\ d.feed = t.feed /\ d.todo = RuleOrder
    BY <1>1, <1>3, ContinueState
  <2>2. handlers' = [handlers EXCEPT ![h] = d]
    BY <1>2, <1>5, <1>7
  <2> HIDE DEF d
  <2> QED
    BY <1>4, <1>5, <1>7, <2>1, <2>2 DEF Moves, OneGroupLess, t
<1> QED
  BY <1>6, <1>7

\* Goto inside processRule, and between the stages of a backfill.
InPlace(h, s) ==
  s.groups = handlers[h].groups /\ s.todo = handlers[h].todo /\ s.feed = handlers[h].feed

LEMMA GotoMoves ==
  ASSUME TypeOK, NEW h \in Handlers, NEW pc, Goto(h, pc), pc # "persist",
         \/ pc \in InRule /\ handlers[h].groups # <<>>
         \/ pc \in Waits /\ handlers[h].pc \in Waits
  PROVE  \E s : Moves(h, s) /\ s.pc = pc /\ InPlace(h, s)
<1>1. handlers[h] \in HandlerStates
  BY DEF TypeOK
<1> DEFINE s == [handlers[h] EXCEPT !.pc = pc]
<1>2. handlers' = [handlers EXCEPT ![h] = s]
  BY DEF Goto
<1>3. s.pc = pc /\ s.groups = handlers[h].groups /\ s.todo = handlers[h].todo
      /\ s.feed = handlers[h].feed
  BY <1>1, HandlerType
<1>4. s \in HandlerStates
  BY <1>1 DEF HandlerStates, Waits, InRule
<1> QED
  BY <1>2, <1>3, <1>4 DEF Moves, InPlace
-----------------------------------------------------------------------------
(* The watermark of one rule: which steps of RuleWatermark the engine's are. *)

LEMMA PendingMember ==
  ASSUME NEW r, NEW c
  PROVE  /\ c \in PendingWrites(r) <=>
              \/ \E g \in Handlers : /\ handlers[g].pc = "persist" /\ Head(handlers[g].todo) = r
                                     /\ c = handlers[g].adv
              \/ consumer.pc = "persist" /\ consumer.task.rule = r /\ c = consumer.adv
         /\ c \in PendingWrites(r)' <=>
              \/ \E g \in Handlers : /\ handlers'[g].pc = "persist" /\ Head(handlers'[g].todo) = r
                                     /\ c = handlers'[g].adv
              \/ consumer'.pc = "persist" /\ consumer'.task.rule = r /\ c = consumer'.adv
BY DEF PendingWrites, At, Rule, ConsumerAt, Task

\* A handler starts to persist, is through with it, or neither.
LEMMA PendingHandler ==
  ASSUME TypeOK, NEW h \in Handlers, NEW s, Moves(h, s), UNCHANGED consumer, NEW r
  PROVE  /\ handlers[h].pc # "persist" /\ s.pc # "persist" => UNCHANGED PendingWrites(r)
         /\ handlers[h].pc # "persist" /\ s.pc = "persist" =>
              PendingWrites(r)' = PendingWrites(r) \cup (IF Head(s.todo) = r THEN {s.adv} ELSE {})
         /\ handlers[h].pc = "persist" /\ s.pc # "persist" =>
              \/ UNCHANGED PendingWrites(r)
              \/ /\ Rule(h) = r
                 /\ PendingWrites(r)' = PendingWrites(r) \ {handlers[h].adv}
<1>1. handlers'[h] = s /\ \A g \in Handlers \ {h} : handlers'[g] = handlers[g]
  BY DEF Moves, TypeOK
<1>2. ASSUME NEW c
      PROVE  c \in PendingWrites(r)' <=>
               \/ \E g \in Handlers \ {h} : /\ handlers[g].pc = "persist"
                                            /\ Head(handlers[g].todo) = r /\ c = handlers[g].adv
               \/ s.pc = "persist" /\ Head(s.todo) = r /\ c = s.adv
               \/ consumer.pc = "persist" /\ consumer.task.rule = r /\ c = consumer.adv
  BY <1>1, PendingMember
<1>3. ASSUME NEW c
      PROVE  c \in PendingWrites(r) <=>
               \/ \E g \in Handlers \ {h} : /\ handlers[g].pc = "persist"
                                            /\ Head(handlers[g].todo) = r /\ c = handlers[g].adv
               \/ handlers[h].pc = "persist" /\ Rule(h) = r /\ c = handlers[h].adv
               \/ consumer.pc = "persist" /\ consumer.task.rule = r /\ c = consumer.adv
  BY PendingMember DEF Rule
<1>4. ASSUME handlers[h].pc # "persist", s.pc # "persist" PROVE UNCHANGED PendingWrites(r)
  <2>1. \A c : c \in PendingWrites(r)' <=> c \in PendingWrites(r)
    BY <1>2, <1>3, <1>4
  <2> QED
    BY <2>1
<1>5. ASSUME handlers[h].pc # "persist", s.pc = "persist"
      PROVE  PendingWrites(r)' = PendingWrites(r) \cup (IF Head(s.todo) = r THEN {s.adv} ELSE {})
  <2>1. \A c : c \in PendingWrites(r)' <=>
                 c \in PendingWrites(r) \/ c \in (IF Head(s.todo) = r THEN {s.adv} ELSE {})
    BY <1>2, <1>3, <1>5
  <2> QED
    BY <2>1
<1>6. ASSUME handlers[h].pc = "persist", s.pc # "persist"
      PROVE  \/ UNCHANGED PendingWrites(r)
             \/ Rule(h) = r /\ PendingWrites(r)' = PendingWrites(r) \ {handlers[h].adv}
  <2>1. \A c : c \in PendingWrites(r)' => c \in PendingWrites(r)
    BY <1>2, <1>3, <1>6
  <2>2. \A c : c \in PendingWrites(r) =>
                 c \in PendingWrites(r)' \/ (Rule(h) = r /\ c = handlers[h].adv)
    BY <1>2, <1>3, <1>6
  <2>3. CASE Rule(h) = r /\ handlers[h].adv \notin PendingWrites(r)'
    BY <2>1, <2>2, <2>3
  <2>4. CASE ~ (Rule(h) = r /\ handlers[h].adv \notin PendingWrites(r)')
    <3>1. \A c : c \in PendingWrites(r)' <=> c \in PendingWrites(r)
      BY <2>1, <2>2, <2>4
    <3> QED
      BY <3>1
  <2> QED
    BY <2>3, <2>4
<1> QED
  BY <1>4, <1>5, <1>6

\* The same for the consumer.
LEMMA PendingConsumer ==
  ASSUME UNCHANGED handlers, NEW r
  PROVE  /\ consumer.pc # "persist" /\ consumer'.pc # "persist" => UNCHANGED PendingWrites(r)
         /\ consumer.pc # "persist" /\ consumer'.pc = "persist" =>
              PendingWrites(r)' = PendingWrites(r) \cup
                (IF consumer'.task.rule = r THEN {consumer'.adv} ELSE {})
         /\ consumer.pc = "persist" /\ consumer'.pc # "persist" =>
              \/ UNCHANGED PendingWrites(r)
              \/ /\ Task.rule = r
                 /\ PendingWrites(r)' = PendingWrites(r) \ {consumer.adv}
<1> DEFINE others(c) == \E g \in Handlers : /\ handlers[g].pc = "persist"
                                            /\ Head(handlers[g].todo) = r /\ c = handlers[g].adv
<1>1. ASSUME NEW c
      PROVE  /\ c \in PendingWrites(r)' <=>
                  \/ others(c)
                  \/ consumer'.pc = "persist" /\ consumer'.task.rule = r /\ c = consumer'.adv
             /\ c \in PendingWrites(r) <=>
                  \/ others(c)
                  \/ consumer.pc = "persist" /\ Task.rule = r /\ c = consumer.adv
  BY PendingMember DEF Task
<1> HIDE DEF others
<1>2. ASSUME consumer.pc # "persist", consumer'.pc # "persist" PROVE UNCHANGED PendingWrites(r)
  <2>1. \A c : c \in PendingWrites(r)' <=> c \in PendingWrites(r)
    BY <1>1, <1>2
  <2> QED
    BY <2>1
<1>3. ASSUME consumer.pc # "persist", consumer'.pc = "persist"
      PROVE  PendingWrites(r)' = PendingWrites(r) \cup
               (IF consumer'.task.rule = r THEN {consumer'.adv} ELSE {})
  <2>1. \A c : c \in PendingWrites(r)' <=> c \in PendingWrites(r)
                 \/ c \in (IF consumer'.task.rule = r THEN {consumer'.adv} ELSE {})
    BY <1>1, <1>3
  <2> QED
    BY <2>1
<1>4. ASSUME consumer.pc = "persist", consumer'.pc # "persist"
      PROVE  \/ UNCHANGED PendingWrites(r)
             \/ Task.rule = r /\ PendingWrites(r)' = PendingWrites(r) \ {consumer.adv}
  <2>1. /\ \A c : c \in PendingWrites(r)' => c \in PendingWrites(r)
        /\ \A c : c \in PendingWrites(r) =>
                    c \in PendingWrites(r)' \/ (Task.rule = r /\ c = consumer.adv)
    BY <1>1, <1>4
  <2>2. CASE Task.rule = r /\ consumer.adv \notin PendingWrites(r)'
    BY <2>1, <2>2
  <2>3. CASE ~ (Task.rule = r /\ consumer.adv \notin PendingWrites(r)')
    <3>1. \A c : c \in PendingWrites(r)' <=> c \in PendingWrites(r)
      BY <2>1, <2>3
    <3> QED
      BY <3>1
  <2> QED
    BY <2>2, <2>3
<1> QED
  BY <1>2, <1>3, <1>4

\* The five things a step of the engine may do to the watermark of rule r.
Rests(r) == UNCHANGED <<trackers[r], dbCursor[r], PendingWrites(r), start[r], ended[r]>>

Observes(r, S) ==
  /\ trackers'[r] = ObserveAll(trackers[r], S)
  /\ UNCHANGED <<dbCursor[r], PendingWrites(r), start[r], ended[r]>>

Finishes(r, S) ==
  /\ trackers'[r] = TerminalAll(trackers[r], S)
  /\ ended'[r] = ended[r] \cup Above(trackers[r], S)
  /\ PendingWrites(r)' = IF Moved(trackers[r], S)
                         THEN PendingWrites(r) \cup {trackers'[r].cursor} ELSE PendingWrites(r)
  /\ UNCHANGED <<dbCursor[r], start[r]>>

Persists(r, c) ==
  /\ c \in PendingWrites(r) /\ PendingWrites(r)' \in {PendingWrites(r), PendingWrites(r) \ {c}}
  /\ dbCursor'[r] = Max({dbCursor[r], c}) \/ UNCHANGED dbCursor[r]
  /\ UNCHANGED <<trackers[r], start[r], ended[r]>>

Restarts(r) ==
  /\ trackers'[r] = newCursorTracker(dbCursor[r]) /\ start'[r] = dbCursor[r]
  /\ PendingWrites(r)' = {} /\ ended'[r] = {}
  /\ UNCHANGED dbCursor[r]

WatermarkStep(r) ==
  \/ Rests(r) \/ Restarts(r)
  \/ \E S \in SUBSET Ids : Observes(r, S) \/ Finishes(r, S)
  \/ \E c \in Ids : Persists(r, c)

\* They are the steps of RuleWatermark.
LEMMA WatermarkStepIsRW ==
  ASSUME NEW r \in Rules, WatermarkStep(r)
  PROVE  [RW(r)!Next]_(RW(r)!vars)
<1>1. /\ RW(r)!Ids = Ids
      /\ \A t, S : /\ RW(r)!TerminalAll(t, S) = TerminalAll(t, S)
                   /\ RW(r)!ObserveAll(t, S) = ObserveAll(t, S)
                   /\ RW(r)!Above(t, S) = Above(t, S) /\ RW(r)!Moved(t, S) = Moved(t, S)
  BY DEF RW!Ids, Ids, RW!Above, Above, RW!TerminalAll, TerminalAll, RW!Pop, Pop,
         RW!Poppable, Poppable, RW!Max, Max, RW!ObserveAll, ObserveAll, RW!Moved, Moved
<1>2. \A S : RW(r)!Max(S) = Max(S)
  BY DEF RW!Max, Max
<1>3. CASE Rests(r)
  BY <1>3 DEF Rests, RW!vars
<1>4. CASE Restarts(r)
  BY <1>4 DEF Restarts, RW!Restart, RW!Next, RW!newCursorTracker, newCursorTracker
<1>5. ASSUME NEW S \in SUBSET Ids, Observes(r, S) PROVE RW(r)!Next
  <2>1. RW(r)!Observe(S)
    BY <1>1, <1>5 DEF Observes, RW!Observe
  <2> QED
    BY <1>1, <2>1 DEF RW!Next
<1>6. ASSUME NEW S \in SUBSET Ids, Finishes(r, S) PROVE RW(r)!Next
  <2>1. RW(r)!FinishTerminals(S)
    BY <1>1, <1>6 DEF Finishes, RW!FinishTerminals
  <2> QED
    BY <1>1, <2>1 DEF RW!Next
<1>7. ASSUME NEW c \in Ids, Persists(r, c) PROVE RW(r)!Next
  <2>1. RW(r)!Written(c)
    BY <1>7 DEF Persists, RW!Written
  <2>2. RW(r)!AdvanceCursor(c) \/ RW(r)!AdvanceCursorFails(c)
    BY <1>2, <1>7, <2>1 DEF Persists, RW!AdvanceCursor, RW!AdvanceCursorFails
  <2> QED
    BY <1>1, <2>2 DEF RW!Next
<1> QED
  BY <1>3, <1>4, <1>5, <1>6, <1>7 DEF WatermarkStep

\* And they keep what TrackersSound says of rule r, and the tracker's type.
SoundFor(r) ==
  /\ Sound(trackers[r]) /\ Behind(r, dbCursor[r])
  /\ \A c \in PendingWrites(r) : Behind(r, c)

LEMMA WatermarkStepSound ==
  ASSUME NEW r \in Rules, WatermarkStep(r), SoundFor(r), trackers[r] \in Trackers(Ids),
         dbCursor[r] \in 0 .. MaxId, PendingWrites(r) \subseteq Ids
  PROVE  /\ SoundFor(r)' /\ trackers'[r] \in Trackers(Ids) /\ dbCursor'[r] \in 0 .. MaxId
         /\ dbCursor'[r] >= dbCursor[r]
<1>0. /\ trackers[r].cursor \in Nat /\ trackers[r].unresolved \in SUBSET Ids
      /\ trackers[r].terminals \in SUBSET Ids /\ MaxId \in Nat
      /\ \A c \in Ids : c \in Nat /\ c <= MaxId
  BY ConstantTypes DEF Trackers
<1>1. CASE Rests(r)
  BY <1>1 DEF Rests, SoundFor, Behind
<1>2. CASE Restarts(r)
  BY <1>0, <1>2 DEF Restarts, SoundFor, Behind, newCursorTracker, Trackers, Sound
<1>3. ASSUME NEW S \in SUBSET Ids, Observes(r, S)
      PROVE  SoundFor(r)' /\ trackers'[r] \in Trackers(Ids) /\ UNCHANGED dbCursor[r]
  <2>1. /\ trackers'[r].cursor = trackers[r].cursor
        /\ trackers'[r].terminals = trackers[r].terminals
        /\ trackers'[r].unresolved = trackers[r].unresolved \cup Above(trackers[r], S)
        /\ trackers'[r] \in Trackers(Ids)
    BY <1>0, <1>3 DEF Observes, ObserveAll, Trackers, Above
  <2>2. Sound(trackers'[r])
    BY <1>0, <2>1 DEF Sound, SoundFor, Above
  <2> QED
    BY <1>3, <2>1, <2>2 DEF Observes, SoundFor, Behind
<1>4. ASSUME NEW S \in SUBSET Ids, Finishes(r, S)
      PROVE  SoundFor(r)' /\ trackers'[r] \in Trackers(Ids) /\ UNCHANGED dbCursor[r]
  <2>1. /\ trackers'[r] \in Trackers(Ids) /\ Sound(trackers'[r])
        /\ trackers'[r].cursor >= trackers[r].cursor
    BY <1>4, IdsBounded, TerminalAllFacts DEF Finishes, SoundFor
  <2>2. trackers'[r].cursor \in Nat
    BY <2>1 DEF Trackers
  <2>3. Behind(r, dbCursor[r])' /\ \A c \in PendingWrites(r) : c <= trackers'[r].cursor
    BY <1>0, <1>4, <2>1, <2>2 DEF Finishes, SoundFor, Behind
  <2>4. \A c \in PendingWrites(r)' : c <= trackers'[r].cursor
    BY <1>4, <2>2, <2>3 DEF Finishes
  <2> QED
    BY <1>4, <2>1, <2>3, <2>4 DEF Finishes, SoundFor, Behind
<1>5. ASSUME NEW c \in Ids, Persists(r, c)
      PROVE  SoundFor(r)' /\ UNCHANGED trackers[r] /\ dbCursor'[r] \in 0 .. MaxId
             /\ dbCursor'[r] >= dbCursor[r]
  <2>1. Max({dbCursor[r], c}) = IF dbCursor[r] >= c THEN dbCursor[r] ELSE c
    BY <1>0, MaxOfPair
  <2>2. c <= trackers[r].cursor
    BY <1>5 DEF Persists, SoundFor, Behind
  <2> QED
    BY <1>0, <1>5, <2>1, <2>2 DEF Persists, SoundFor, Behind
<1> QED
  BY <1>0, <1>1, <1>2, <1>3, <1>4, <1>5 DEF WatermarkStep, Rests, Restarts

\* The cursors under way are message IDs.
LEMMA PendingType ==
  ASSUME TypeOK, NEW r
  PROVE  PendingWrites(r) \subseteq Ids
<1>1. \A g \in Handlers : handlers[g].pc = "persist" => handlers[g].adv \in Ids
  BY HandlerType DEF TypeOK
<1>2. consumer.pc = "persist" => consumer.adv \in Ids
  BY DEF TypeOK, ConsumerStates, IdleConsumer
<1> QED
  BY <1>1, <1>2, PendingMember
-----------------------------------------------------------------------------
(* The invariant, and what keeps its parts when little changes. *)

\* The stream never asks for a batch again that it was not given.
BatchSound == handlers["live"].batch <= delivered

IInv == TypeOK /\ BatchSound /\ TrackersSound /\ CauseInv /\ Accounted /\ GroupsCovered

\* What a step has to show besides its types: TrackersSound follows.
Kept ==
  /\ \A r \in Rules : WatermarkStep(r)
  /\ CauseInv' /\ Accounted' /\ GroupsCovered'

LEMMA KeptSound ==
  ASSUME TypeOK, TrackersSound, \A r \in Rules : WatermarkStep(r)
  PROVE  /\ TrackersSound' /\ \A r \in Rules : trackers'[r] \in Trackers(Ids)
         /\ \A r \in Rules : dbCursor'[r] \in 0 .. MaxId /\ dbCursor'[r] >= dbCursor[r]
<1>1. ASSUME NEW r \in Rules
      PROVE  /\ SoundFor(r)' /\ trackers'[r] \in Trackers(Ids)
             /\ dbCursor'[r] \in 0 .. MaxId /\ dbCursor'[r] >= dbCursor[r]
  <2>1. SoundFor(r) /\ trackers[r] \in Trackers(Ids) /\ dbCursor[r] \in 0 .. MaxId
    BY ConstantTypes DEF TrackersSound, SoundFor, TypeOK
  <2>2. PendingWrites(r) \subseteq Ids
    BY PendingType
  <2> QED
    BY <2>1, <2>2, WatermarkStepSound
<1> QED
  BY <1>1 DEF TrackersSound, SoundFor

\* What has a cause, what is covered, what is in hand.
HasCause(r, m) ==
  \/ sent[Target[r]][m] > 0
  \/ m \notin Accepts[r] \/ m \in rejected[r]
  \/ \E x \in records :
       /\ x.target = Target[r] /\ sent[x.target][x.msg] > 0
       /\ \E y \in Mates(m) :
            x.msg = y \/ (ContentDedup /\ Text[y] \in {t[2] : t \in x.hash})

SkipCause(r, grp) ==
  Exists(r, grp) \/ ExistsByContent(r, grp) \/ ~ ShouldForward(r, grp)

CauseGrows ==
  /\ records \subseteq records'
  /\ \A t \in Targets : \A m \in Ids : sent[t][m] > 0 => sent'[t][m] > 0
  /\ \A r \in Rules : rejected[r] \subseteq rejected'[r]

CoverGrows ==
  /\ unwritten \subseteq unwritten' /\ aside \subseteq aside'
  /\ \A r \in Rules : /\ settled[r] \subseteq settled'[r] /\ overtaken[r] \subseteq overtaken'[r]
                      /\ trackers[r].unresolved \subseteq trackers'[r].unresolved \cup settled'[r]

HandledBy(s, m) ==
  \/ m \in ToSet(s.feed)
  \/ \E i \in DOMAIN s.groups : m \in ToSet(s.groups[i])

InAlbum(m) == \E g \in Albums : m \in ToSet(album[g])

LEMMA InHandIs ==
  ASSUME NEW m
  PROVE  /\ InHand(m) <=> \/ m > delivered \/ InAlbum(m)
                          \/ \E h \in Handlers : HandledBy(handlers[h], m)
         /\ InHand(m)' <=> \/ m > delivered' \/ InAlbum(m)'
                           \/ \E h \in Handlers : HandledBy(handlers'[h], m)
BY DEF InHand, InAlbum, HandledBy

LEMMA HasCauseStays ==
  ASSUME TypeOK, CauseGrows, NEW r \in Rules, NEW m \in Ids, HasCause(r, m)
  PROVE  HasCause(r, m)'
<1>1. Target[r] \in Targets /\ \A x \in records : x.msg \in Ids /\ x.target \in Targets
  BY ConstantTypes DEF TypeOK
<1>2. CASE sent[Target[r]][m] > 0
  BY <1>1, <1>2 DEF CauseGrows, HasCause
<1>3. CASE m \notin Accepts[r] \/ m \in rejected[r]
  BY <1>3 DEF CauseGrows, HasCause
<1>4. CASE \E x \in records :
             /\ x.target = Target[r] /\ sent[x.target][x.msg] > 0
             /\ \E y \in Mates(m) :
                  x.msg = y \/ (ContentDedup /\ Text[y] \in {t[2] : t \in x.hash})
  <2>1. PICK x \in records :
             /\ x.target = Target[r] /\ sent[x.target][x.msg] > 0
             /\ \E y \in Mates(m) :
                  x.msg = y \/ (ContentDedup /\ Text[y] \in {t[2] : t \in x.hash})
    BY <1>4
  <2>2. x \in records' /\ sent'[x.target][x.msg] > 0
    BY <1>1, <2>1 DEF CauseGrows
  <2> QED
    BY <2>1, <2>2 DEF HasCause
<1> QED
  BY <1>2, <1>3, <1>4 DEF HasCause

LEMMA TerminalIs ==
  /\ TerminalHasCause <=> \A r \in Rules : \A m \in settled[r] : HasCause(r, m)
  /\ TerminalHasCause' <=> \A r \in Rules : \A m \in settled'[r] : HasCause(r, m)'
BY Zenon DEF TerminalHasCause, HasCause

\* The steps that end no message.
LEMMA TerminalStays ==
  ASSUME TypeOK, TerminalHasCause, CauseGrows,
         \A r \in Rules : \A m \in settled'[r] : m \in settled[r] \/ HasCause(r, m)'
  PROVE  TerminalHasCause'
<1>1. \A r \in Rules : \A m \in settled[r] : m \in Ids /\ HasCause(r, m)
  BY TerminalIs DEF TypeOK
<1>2. \A r \in Rules : \A m \in settled[r] : HasCause(r, m)'
  BY <1>1, HasCauseStays
<1>3. \A r \in Rules : \A m \in settled'[r] : HasCause(r, m)'
  BY <1>2
<1> QED
  BY <1>3, TerminalIs

LEMMA SkipStays ==
  ASSUME TypeOK, SkipHasCause, records \subseteq records', NEW h \in Handlers, NEW s, Moves(h, s),
         s.pc = "finish" => SkipCause(Head(s.todo), Head(s.groups))
  PROVE  SkipHasCause'
<1>1. handlers'[h] = s /\ \A g \in Handlers \ {h} : handlers'[g] = handlers[g]
  BY DEF Moves, TypeOK
<1>2. \A r, grp : SkipCause(r, grp) => SkipCause(r, grp)'
  BY DEF SkipCause, Exists, ExistsByContent
<1>3. \A g \in Handlers : handlers[g].pc = "finish" =>
                            SkipCause(Head(handlers[g].todo), Head(handlers[g].groups))
  BY DEF SkipHasCause, At, Rule, Grp, SkipCause
<1>4. \A g \in Handlers : (handlers[g].pc = "finish" =>
                             SkipCause(Head(handlers[g].todo), Head(handlers[g].groups)))'
  BY <1>1, <1>2, <1>3
<1> QED
  BY <1>4 DEF SkipHasCause, At, Rule, Grp, SkipCause

LEMMA SkipRests ==
  ASSUME SkipHasCause, records \subseteq records', UNCHANGED handlers
  PROVE  SkipHasCause'
BY DEF SkipHasCause, At, Rule, Grp, Exists, ExistsByContent, ShouldForward

LEMMA CoveredStays ==
  ASSUME CoverGrows, NEW r \in Rules, NEW m, Covered(r, m)
  PROVE  Covered(r, m)'
BY DEF CoverGrows, Covered

LEMMA AccountedMoves ==
  ASSUME TypeOK, Accounted, CoverGrows, UNCHANGED published,
         NEW h \in Handlers, NEW s, Moves(h, s),
         \A m \in 1 .. published :
           m > delivered \/ InAlbum(m) \/ HandledBy(handlers[h], m) =>
             \/ m > delivered' \/ InAlbum(m)' \/ HandledBy(s, m)
             \/ \A r \in Rules : Covered(r, m)'
  PROVE  Accounted'
<1>1. handlers'[h] = s /\ \A g \in Handlers \ {h} : handlers'[g] = handlers[g]
  BY DEF Moves, TypeOK
<1>2. ASSUME NEW r \in Rules, NEW m \in 1 .. published PROVE Covered(r, m)' \/ InHand(m)'
  <2>1. CASE Covered(r, m)
    BY <2>1, CoveredStays
  <2>2. CASE m > delivered \/ InAlbum(m) \/ HandledBy(handlers[h], m)
    <3>1. \/ m > delivered' \/ InAlbum(m)' \/ HandledBy(s, m)
          \/ \A p \in Rules : Covered(p, m)'
      BY <2>2
    <3> QED
      BY <1>1, <3>1, InHandIs
  <2>3. CASE \E g \in Handlers \ {h} : HandledBy(handlers[g], m)
    BY <1>1, <2>3, InHandIs
  <2> QED
    BY <2>1, <2>2, <2>3, InHandIs DEF Accounted
<1> QED
  BY <1>2 DEF Accounted

LEMMA AccountedRests ==
  ASSUME Accounted, CoverGrows, UNCHANGED <<published, delivered, album, handlers>>
  PROVE  Accounted'
<1>1. \A m : InHand(m) => InHand(m)'
  BY DEF InHand
<1>2. \A r \in Rules : \A m : Covered(r, m) => Covered(r, m)'
  BY CoveredStays
<1> QED
  BY <1>1, <1>2 DEF Accounted

\* What GroupsCovered says of a handler in state s.
StateCovered(s) ==
  s.groups # <<>> =>
    \A r \in Rules : r \notin ToSet(s.todo) \/ (s.pc \in InRule /\ r = Head(s.todo)) =>
      \A m \in ToSet(Head(s.groups)) : Covered(r, m)

LEMMA GroupsCoveredIs ==
  /\ GroupsCovered <=> \A g \in Handlers : StateCovered(handlers[g])
  /\ GroupsCovered' <=> \A g \in Handlers : StateCovered(handlers[g])'
BY DEF GroupsCovered, StateCovered, SeenBy, Rule, Grp

LEMMA StateCoveredStays ==
  ASSUME CoverGrows, NEW g, StateCovered(handlers[g]), UNCHANGED handlers[g]
  PROVE  StateCovered(handlers[g])'
<1>1. \A r \in Rules : \A m : Covered(r, m) => Covered(r, m)'
  BY CoveredStays
<1> QED
  BY <1>1 DEF StateCovered

LEMMA GroupsMove ==
  ASSUME TypeOK, GroupsCovered, CoverGrows, NEW h \in Handlers, NEW s, Moves(h, s),
         StateCovered(s)'
  PROVE  GroupsCovered'
<1>1. handlers'[h] = s /\ \A g \in Handlers \ {h} : UNCHANGED handlers[g]
  BY DEF Moves, TypeOK
<1>2. \A g \in Handlers \ {h} : StateCovered(handlers[g])'
  BY <1>1, StateCoveredStays, GroupsCoveredIs
<1>3. StateCovered(handlers[h])'
  BY <1>1 DEF StateCovered
<1> QED
  BY <1>2, <1>3, GroupsCoveredIs

LEMMA GroupsRest ==
  ASSUME GroupsCovered, CoverGrows, UNCHANGED handlers
  PROVE  GroupsCovered'
<1>1. \A g \in Handlers : UNCHANGED handlers[g]
  OBVIOUS
<1> QED
  BY <1>1, StateCoveredStays, GroupsCoveredIs
-----------------------------------------------------------------------------
(* The steps that only bring messages to a handler. *)

\* Nothing but the handler, the album and what is set aside changes.
QuietFor(h, s) ==
  /\ Moves(h, s)
  /\ handlers[h].pc \notin InRule /\ s.pc \notin InRule
  /\ s.groups = <<>> \/ s.todo = RuleOrder
  /\ UNCHANGED <<published, sent, records, dbCursor, trackers, consumer, start, ended,
                 settled, rejected, overtaken>>
  /\ unwritten \subseteq unwritten' /\ aside \subseteq aside'

LEMMA QuietStep ==
  ASSUME IInv, NEW h \in Handlers, NEW s, QuietFor(h, s),
         \A m \in 1 .. published :
           m > delivered \/ InAlbum(m) \/ HandledBy(handlers[h], m) =>
             \/ m > delivered' \/ InAlbum(m)' \/ HandledBy(s, m)
             \/ m \in unwritten' \cup aside'
  PROVE  Kept
<1> USE DEF IInv
<1>1. ASSUME NEW r \in Rules PROVE WatermarkStep(r)
  <2>1. UNCHANGED PendingWrites(r)
    BY PendingHandler DEF QuietFor, InRule
  <2> QED
    BY <2>1 DEF QuietFor, WatermarkStep, Rests
<1>2. CauseGrows /\ CoverGrows
  BY DEF QuietFor, CauseGrows, CoverGrows
<1>3. CauseInv'
  <2>1. TerminalHasCause'
    BY <1>2, TerminalStays DEF CauseInv, QuietFor
  <2>2. SkipHasCause'
    BY SkipStays DEF CauseInv, QuietFor, InRule
  <2>3. RecordsTrue' /\ ConsumerTrue'
    BY DEF CauseInv, QuietFor, RecordsTrue, ConsumerTrue, ConsumerAt, Task
  <2> QED
    BY <2>1, <2>2, <2>3 DEF CauseInv
<1>4. Accounted'
  <2>1. \A m \in 1 .. published :
          m > delivered \/ InAlbum(m) \/ HandledBy(handlers[h], m) =>
            \/ m > delivered' \/ InAlbum(m)' \/ HandledBy(s, m)
            \/ \A r \in Rules : Covered(r, m)'
    BY DEF Covered
  <2> QED
    BY <1>2, <2>1, AccountedMoves DEF QuietFor
<1>5. GroupsCovered'
  <2>1. StateCovered(s)'
    BY ConstantTypes DEF StateCovered, QuietFor
  <2> QED
    BY <1>2, <2>1, GroupsMove DEF QuietFor
<1> QED
  BY <1>1, <1>3, <1>4, <1>5 DEF Kept

LEMMA PublishKept ==
  ASSUME IInv, Publish
  PROVE  TypeOK' /\ Kept
<1> USE DEF IInv
<1>1. published' = published + 1 /\ published' \in 0 .. MaxId /\ delivered' \in 0 .. published'
      /\ UNCHANGED <<delivered, sent, records, dbCursor, trackers, album, queue, handlers,
                     consumer, start, ended, settled, rejected, unwritten, aside, overtaken>>
  BY ConstantTypes DEF Publish, TypeOK, history, ends
<1>2. TypeOK'
  BY <1>1 DEF TypeOK
<1>3. \A r \in Rules : WatermarkStep(r)
  BY <1>1 DEF WatermarkStep, Rests, PendingWrites, At, Rule, ConsumerAt, Task
<1>4. CauseGrows /\ CoverGrows
  BY <1>1 DEF CauseGrows, CoverGrows
<1>5. CauseInv'
  BY <1>1, <1>4, TerminalStays, SkipRests
     DEF CauseInv, RecordsTrue, ConsumerTrue, ConsumerAt, Task
<1>6. Accounted'
  <2>1. \A m : InHand(m) => InHand(m)'
    BY <1>1 DEF InHand
  <2>2. \A r \in Rules : \A m : Covered(r, m) => Covered(r, m)'
    BY <1>4, CoveredStays
  <2>3. PICK p : p = published'
    OBVIOUS
  <2>4. p > delivered' /\ \A m \in 1 .. published' : m \in 1 .. published \/ m = p
    BY <1>1, <2>3 DEF TypeOK
  <2>5. InHand(p)'
    BY <2>4 DEF InHand
  <2> QED
    BY <2>1, <2>2, <2>4, <2>5 DEF Accounted
<1>7. GroupsCovered'
  BY <1>1, <1>4, GroupsRest
<1> QED
  BY <1>2, <1>3, <1>5, <1>6, <1>7 DEF Kept

\* The page of history a recovery or a backfill gets, either way round.
LEMMA NewestFacts ==
  ASSUME NEW from \in Nat \ {0}, NEW to \in Nat, to <= MaxId, NEW n \in Nat
  PROVE  /\ Newest(from, to, n) \in Seq(Ids) /\ Reverse(Newest(from, to, n)) \in Seq(Ids)
         /\ ToSet(Reverse(Newest(from, to, n))) = ToSet(Newest(from, to, n))
         /\ ToSet(Newest(from, to, n)) \subseteq Ids
<1> DEFINE first == Max({from, to - n + 1})
           k == to - first + 1
           page == Newest(from, to, n)
           back == Reverse(page)
<1>1. first \in {from, to - n + 1} /\ first >= from /\ first >= to - n + 1
  <2>1. \E x \in {from, to - n + 1} : \A y \in {from, to - n + 1} : x >= y
    OBVIOUS
  <2>2. /\ Max({from, to - n + 1}) \in {from, to - n + 1}
        /\ \A y \in {from, to - n + 1} : Max({from, to - n + 1}) >= y
    BY <2>1, Zenon DEF Max
  <2> QED
    BY <2>2
<1>2. page = [i \in 1 .. k |-> first + i - 1]
  BY DEF Newest
<1> HIDE DEF first
<1>3. k \in Int /\ first \in Nat \ {0} /\ MaxId \in Nat
  BY <1>1, ConstantTypes
<1>4. \A i \in 1 .. k : first + i - 1 \in Ids
  BY <1>3 DEF Ids
<1> HIDE DEF k
<1>5. PICK l \in Nat : 1 .. k = 1 .. l
  <2>1. CASE k >= 0
    BY <1>3, <2>1
  <2>2. CASE k < 0
    <3>1. 1 .. k = 1 .. 0
      BY <1>3, <2>2
    <3> QED
      BY <3>1
  <2> QED
    BY <1>3, <2>1, <2>2
<1>6. page \in Seq(Ids) /\ Len(page) = l /\ DOMAIN page = 1 .. l
  <2>1. page = [i \in 1 .. l |-> first + i - 1] /\ \A i \in 1 .. l : first + i - 1 \in Ids
    BY <1>2, <1>4, <1>5
  <2> HIDE DEF page
  <2> QED
    BY <2>1
<1> HIDE DEF page
<1>7. back = [i \in 1 .. l |-> page[l - i + 1]]
  BY <1>6 DEF Reverse
<1>8. \A i \in 1 .. l : l - i + 1 \in 1 .. l /\ page[i] \in Ids /\ l - (l - i + 1) + 1 = i
  BY <1>6
<1> HIDE DEF back
<1>9. back \in Seq(Ids) /\ DOMAIN back = 1 .. l
  BY <1>7, <1>8
<1>10. ToSet(back) = ToSet(page)
  BY <1>6, <1>7, <1>8, <1>9 DEF ToSet
<1>11. ToSet(page) \subseteq Ids
  BY <1>6, <1>8 DEF ToSet
<1> QED
  BY <1>6, <1>9, <1>10, <1>11 DEF page, back

LEMMA QuietType ==
  ASSUME TypeOK, NEW h \in Handlers, NEW s, QuietFor(h, s), delivered' \in 0 .. published,
         album' \in [Albums -> Seq(Ids)],
         \A g \in Albums : \A i \in DOMAIN album'[g] : GroupedID[album'[g][i]] = g,
         UNCHANGED queue, unwritten' \subseteq Ids, aside' \subseteq Ids
  PROVE  TypeOK'
BY DEF TypeOK, QuietFor, Moves

\* The updates of a batch: in their order, each once, and no other.
LEMMA UpdatesFacts ==
  ASSUME NEW d \in Nat, NEW n \in Nat, n > d, n <= MaxId
  PROVE  LET fd == Updates(d + 1, n)
         IN  /\ fd \in Seq(Ids) /\ ToSet(fd) = d + 1 .. n
             /\ \A i, j \in DOMAIN fd : i < j => fd[i] < fd[j]
             /\ IsInjective(fd)
<1> DEFINE fd == Updates(d + 1, n)
<1>1. PICK k \in Nat : k = n - d
  OBVIOUS
<1>2. n - (d + 1) + 1 = k /\ n = d + k
  BY <1>1
<1>3. \A i \in 1 .. k : d + 1 + i - 1 = d + i /\ d + i \in Ids
  BY <1>1, ConstantTypes DEF Ids
<1>4. fd = [i \in 1 .. k |-> d + i]
  BY <1>2, <1>3 DEF Updates
<1> HIDE DEF fd
<1>5. fd \in Seq(Ids) /\ DOMAIN fd = 1 .. k
  BY <1>3, <1>4
<1>6. ToSet(fd) = d + 1 .. n
  <2>1. \A i \in 1 .. k : d + i \in d + 1 .. n
    BY <1>2
  <2>2. \A m \in d + 1 .. n : m - d \in 1 .. k /\ m = d + (m - d)
    BY <1>2
  <2>3. ToSet(fd) = {d + i : i \in 1 .. k}
    BY <1>4 DEF ToSet
  <2> QED
    BY <2>1, <2>2, <2>3
<1>7. \A i, j \in 1 .. k : i < j => fd[i] < fd[j]
  BY <1>4
<1>8. \A i, j \in 1 .. k : fd[i] = fd[j] => i = j
  BY <1>4
<1>9. IsInjective(fd)
  BY <1>5, <1>8 DEF IsInjective
<1> QED
  BY <1>5, <1>6, <1>7, <1>9 DEF fd

\* What Deliver does to a free handler.
LEMMA DeliverFacts ==
  ASSUME TypeOK, Deliver
  PROVE  \E n \in Nat, fd \in Seq(Ids) :
           /\ delivered \in Nat /\ n > delivered /\ n <= published /\ published <= MaxId
           /\ delivered' = n /\ fd = Updates(delivered + 1, n)
           /\ ToSet(fd) = delivered + 1 .. n
           /\ \A i, j \in DOMAIN fd : i < j => fd[i] < fd[j]
           /\ IsInjective(fd)
           /\ Feed("live", fd, "idle", n - delivered) /\ n - delivered \in Nat
<1>1. published \in Nat /\ delivered \in Nat /\ published <= MaxId
  BY ConstantTypes DEF TypeOK
<1>2. PICK n \in delivered + 1 .. published :
        delivered' = n /\ Feed("live", Updates(delivered + 1, n), "idle", n - delivered)
  BY DEF Deliver
<1>3. n \in Nat /\ n > delivered /\ n <= published /\ n <= MaxId /\ n - delivered \in Nat
  BY <1>1, <1>2, ConstantTypes
<1>4. PICK fd : fd = Updates(delivered + 1, n)
  OBVIOUS
<1>5. /\ fd \in Seq(Ids) /\ ToSet(fd) = delivered + 1 .. n
      /\ \A i, j \in DOMAIN fd : i < j => fd[i] < fd[j]
      /\ IsInjective(fd)
  BY <1>1, <1>3, <1>4, UpdatesFacts
<1> QED
  BY <1>1, <1>2, <1>3, <1>4, <1>5

LEMMA DeliverKept ==
  ASSUME IInv, Deliver
  PROVE  TypeOK' /\ Kept
<1> USE DEF IInv
<1>1. PICK n \in Nat, fd \in Seq(Ids) :
        /\ delivered \in Nat /\ n > delivered /\ n <= published /\ delivered' = n
        /\ ToSet(fd) = delivered + 1 .. n /\ n - delivered \in Nat
        /\ Feed("live", fd, "idle", n - delivered)
  BY DeliverFacts
<1>2. "live" \in Handlers /\ handlers["live"].pc \notin InRule /\ delivered' \in 0 .. published
  BY <1>1 DEF Handlers, TypeOK, Deliver, Free, InRule
<1>3. PICK s : Moves("live", s) /\ s.pc \notin InRule /\ s.todo = RuleOrder /\ s.groups = <<>>
               /\ s.feed = fd
  BY <1>1, <1>2, FeedSteps
<1>4. UNCHANGED <<published, sent, records, dbCursor, trackers, album, queue, consumer,
                  start, ended, settled, rejected, unwritten, aside, overtaken>>
  BY DEF Deliver, history, ends
<1>5. QuietFor("live", s)
  BY <1>2, <1>3, <1>4 DEF QuietFor
<1>6. handlers["live"].feed = <<>> /\ handlers["live"].groups = <<>>
  BY <1>2, HandlerType DEF Deliver, Free, Waits, TypeOK
<1>7. ASSUME NEW m \in 1 .. published,
             m > delivered \/ InAlbum(m) \/ HandledBy(handlers["live"], m)
      PROVE  m > delivered' \/ InAlbum(m)' \/ HandledBy(s, m)
  <2>1. CASE m > delivered
    <3>1. m > n \/ m \in delivered + 1 .. n
      BY <1>1, <2>1 DEF TypeOK
    <3> QED
      BY <1>1, <1>3, <3>1 DEF HandledBy
  <2>2. CASE InAlbum(m)
    BY <1>4, <2>2 DEF InAlbum
  <2>3. ~ HandledBy(handlers["live"], m)
    BY <1>6, NoElement DEF HandledBy
  <2> QED
    BY <1>7, <2>1, <2>2, <2>3
<1>8. TypeOK'
  BY <1>2, <1>4, <1>5, QuietType DEF TypeOK
<1> QED
  BY <1>2, <1>5, <1>7, <1>8, QuietStep

LEMMA ChannelGapKept ==
  ASSUME IInv, ChannelGap
  PROVE  TypeOK' /\ Kept
<1> USE DEF IInv
<1> DEFINE page == Newest(1, published, RecoveryLimit)
<1>1. "live" \in Handlers /\ handlers["live"].pc \notin InRule
      /\ delivered' = published /\ delivered' \in 0 .. published
      /\ published \in Nat /\ published <= MaxId
  BY ConstantTypes DEF Handlers, TypeOK, ChannelGap, Free, InRule
<1>2. Reverse(page) \in Seq(Ids) /\ ToSet(Reverse(page)) = ToSet(page)
  <2>1. 1 \in Nat \ {0} /\ RecoveryLimit \in Nat
    BY ConstantTypes
  <2> QED
    BY <1>1, <2>1, NewestFacts
<1>3. PICK fd \in Seq(Ids) : fd = Reverse(page)
  BY <1>2
<1>4. PICK s : Moves("live", s) /\ s.pc \notin InRule /\ s.todo = RuleOrder /\ s.groups = <<>>
               /\ s.feed = fd
  <2>1. Feed("live", fd, "idle", 0)
    BY <1>3 DEF ChannelGap
  <2> QED
    BY <1>1, <2>1, FeedSteps
<1>5. /\ UNCHANGED <<published, sent, records, dbCursor, trackers, album, queue, consumer,
                     start, ended, settled, rejected, unwritten, overtaken>>
      /\ aside' = aside \cup ((delivered + 1 .. published) \ ToSet(fd))
  BY <1>2, <1>3 DEF ChannelGap, ends
<1>6. QuietFor("live", s)
  BY <1>1, <1>4, <1>5 DEF QuietFor
<1>7. handlers["live"].feed = <<>> /\ handlers["live"].groups = <<>>
  BY <1>1, HandlerType DEF ChannelGap, Free, Waits, TypeOK
<1>8. ASSUME NEW m \in 1 .. published,
             m > delivered \/ InAlbum(m) \/ HandledBy(handlers["live"], m)
      PROVE  InAlbum(m)' \/ HandledBy(s, m) \/ m \in aside'
  <2>1. CASE m > delivered
    <3>1. m \in delivered + 1 .. published
      BY <2>1 DEF TypeOK
    <3> QED
      BY <1>4, <1>5, <3>1 DEF HandledBy
  <2>2. CASE InAlbum(m)
    BY <1>5, <2>2 DEF InAlbum
  <2>3. ~ HandledBy(handlers["live"], m)
    BY <1>7, NoElement DEF HandledBy
  <2> QED
    BY <1>8, <2>1, <2>2, <2>3
<1>9. TypeOK'
  <2>1. delivered + 1 .. published \subseteq Ids
    BY <1>1, ConstantTypes DEF Ids, TypeOK
  <2>2. aside' \subseteq Ids
    BY <1>5, <2>1 DEF TypeOK
  <2> QED
    BY <1>1, <1>5, <1>6, <2>2, QuietType DEF TypeOK
<1> QED
  BY <1>1, <1>6, <1>8, <1>9, QuietStep

\* A backfill handler changes stage, nothing in hand before or after.
LEMMA StageKept ==
  ASSUME IInv, NEW b \in Backfillers, handlers[b].pc \in Waits,
         NEW s \in HandlerStates, s.pc \in Waits, handlers' = [handlers EXCEPT ![b] = s],
         UNCHANGED <<env, sent, records, dbCursor, trackers, album, queue, consumer, history>>
  PROVE  TypeOK' /\ Kept
<1> USE DEF IInv
<1>1. b \in Handlers /\ Moves(b, s) /\ handlers[b].pc \notin InRule /\ s.pc \notin InRule
  BY DEF Handlers, Moves, Waits, InRule
<1>2. s.feed = <<>> /\ s.groups = <<>> /\ handlers[b].feed = <<>> /\ handlers[b].groups = <<>>
  BY <1>1, HandlerType DEF TypeOK
<1>3. QuietFor(b, s)
  BY <1>1, <1>2 DEF QuietFor, env, history, ends, InRule
<1>4. TypeOK'
  BY <1>1, <1>3, QuietType DEF TypeOK, env, history, ends
<1>5. \A m : ~ HandledBy(handlers[b], m)
  BY <1>2, NoElement DEF HandledBy
<1>6. \A m : InAlbum(m) => InAlbum(m)'
  BY DEF InAlbum
<1>7. UNCHANGED delivered
  BY DEF env
<1> QED
  BY <1>1, <1>3, <1>4, <1>5, <1>6, <1>7, QuietStep

LEMMA IdleState == Idle \in HandlerStates /\ Idle.pc = "idle"
<1>1. <<>> \in Seq(Ids) /\ <<>> \in Seq(Groups) /\ RuleOrder \in Seq(Rules) /\ RuleOrder # <<>>
  BY ConstantTypes
<1> QED
  BY <1>1 DEF Idle, HandlerStates, Waits, InRule

LEMMA StartBackfillKept ==
  ASSUME IInv, NEW b \in Backfillers, NEW r \in Rules, StartBackfill(b, r)
  PROVE  TypeOK' /\ Kept
<1> USE DEF IInv
<1> DEFINE c == trackers[r].cursor
           s == [handlers[b] EXCEPT !.pc = "fetch", !.adv = c]
<1>1. handlers[b] \in HandlerStates /\ handlers[b].pc = "idle" /\ c \in Nat
  BY DEF StartBackfill, Free, Handlers, TypeOK, Trackers
<1>2. s \in HandlerStates /\ s.pc = "fetch"
  BY <1>1 DEF HandlerStates, Waits, InRule
<1>3. handlers' = [handlers EXCEPT ![b] = s]
  BY DEF StartBackfill, TypeOK
<1> HIDE DEF s
<1>4. UNCHANGED <<env, sent, records, dbCursor, trackers, album, queue, consumer, history>>
  BY DEF StartBackfill
<1> QED
  BY <1>1, <1>2, <1>3, <1>4, StageKept DEF Waits

LEMMA BackfillIdleKept ==
  ASSUME IInv, NEW b \in Backfillers, BackfillFails(b) \/ DrainDone(b)
  PROVE  TypeOK' /\ Kept
<1> USE DEF IInv
<1>1. handlers[b].pc \in Waits /\ handlers' = [handlers EXCEPT ![b] = Idle]
      /\ UNCHANGED <<env, sent, records, dbCursor, trackers, album, queue, consumer, history>>
  BY DEF BackfillFails, DrainDone, At, Waits
<1>2. Idle.pc \in Waits /\ Idle \in HandlerStates
  BY IdleState DEF Waits
<1> QED
  BY <1>1, <1>2, StageKept

LEMMA DrainAgainKept ==
  ASSUME IInv, NEW b \in Backfillers, DrainAgain(b)
  PROVE  TypeOK' /\ Kept
<1> USE DEF IInv
<1> DEFINE s == [handlers[b] EXCEPT !.pc = "drain"]
<1>1. handlers[b] \in HandlerStates /\ handlers[b].pc = "settle"
  BY DEF DrainAgain, At, Handlers, TypeOK
<1>2. s \in HandlerStates /\ s.pc = "drain"
  BY <1>1 DEF HandlerStates, Waits, InRule
<1>3. handlers' = [handlers EXCEPT ![b] = s]
  BY DEF DrainAgain, Goto, TypeOK
<1> HIDE DEF s
<1>4. UNCHANGED <<env, sent, records, dbCursor, trackers, album, queue, consumer, history>>
  BY DEF DrainAgain
<1> QED
  BY <1>1, <1>2, <1>3, <1>4, StageKept DEF Waits

LEMMA FetchHistoryKept ==
  ASSUME IInv, NEW b \in Backfillers, FetchHistory(b)
  PROVE  TypeOK' /\ Kept
<1> USE DEF IInv
<1> DEFINE from == handlers[b].adv + 1
           page == Newest(from, published, BackfillLimit)
<1>1. b \in Handlers /\ handlers[b] \in HandlerStates /\ handlers[b].pc = "fetch"
  BY DEF FetchHistory, At, Handlers, TypeOK
<1>2. from \in Nat \ {0} /\ published \in Nat /\ published <= MaxId /\ BackfillLimit \in Nat
  <2>1. handlers[b].adv \in Nat
    BY <1>1, HandlerType
  <2> QED
    BY <2>1, ConstantTypes DEF TypeOK
<1>3. PICK fd \in Seq(Ids) : fd = page
  <2> HIDE DEF from
  <2> QED
    BY <1>2, NewestFacts
<1>4. /\ Feed(b, fd, "drain", 0)
      /\ aside' = aside \cup ((from .. published) \ ToSet(fd))
      /\ UNCHANGED <<env, sent, records, dbCursor, trackers, album, queue, consumer,
                     ends, unwritten, overtaken>>
  BY <1>3 DEF FetchHistory
<1>5. PICK s : Moves(b, s) /\ s.pc \notin InRule /\ s.todo = RuleOrder /\ s.groups = <<>>
               /\ s.feed = fd
  BY <1>1, <1>4, FeedSteps
<1>6. QuietFor(b, s)
  BY <1>1, <1>4, <1>5 DEF QuietFor, env, ends, InRule
<1>7. handlers[b].feed = <<>> /\ handlers[b].groups = <<>>
  BY <1>1, HandlerType DEF Waits
<1>8. TypeOK'
  <2>1. from .. published \subseteq Ids
    <3> HIDE DEF from
    <3> QED
      BY <1>2, ConstantTypes DEF Ids
  <2>2. aside' \subseteq Ids
    BY <1>4, <2>1 DEF TypeOK
  <2> QED
    BY <1>1, <1>4, <1>6, <2>2, QuietType DEF TypeOK, env
<1>9. \A m : ~ HandledBy(handlers[b], m)
  BY <1>7, NoElement DEF HandledBy
<1>10. \A m : InAlbum(m) => InAlbum(m)'
  BY <1>4 DEF InAlbum
<1>11. UNCHANGED delivered
  BY <1>4 DEF env
<1> QED
  BY <1>1, <1>6, <1>8, <1>9, <1>10, <1>11, QuietStep

\* HandleNew took the next message: into the album, into a group, or nowhere.
Taken(gs, m) ==
  \/ InAlbum(m)' \/ m \in unwritten' \cup aside'
  \/ \E i \in DOMAIN gs : m \in ToSet(gs[i])

LEMMA HandOverKept ==
  ASSUME IInv, NEW h \in Handlers, NextMessage(h), NEW gs \in Seq(Groups), HandOver(h, gs),
         UNCHANGED <<env, sent, records, dbCursor, trackers, queue, consumer, ends, overtaken>>,
         unwritten \subseteq unwritten', aside \subseteq aside',
         unwritten' \subseteq Ids, aside' \subseteq Ids,
         album' \in [Albums -> Seq(Ids)],
         \A g \in Albums : \A i \in DOMAIN album'[g] : GroupedID[album'[g][i]] = g,
         NEW m0, m0 = Head(handlers[h].feed), Taken(gs, m0),
         \A m : InAlbum(m) => Taken(gs, m)
  PROVE  TypeOK' /\ Kept
<1> USE DEF IInv
<1>1. /\ ToSet(handlers[h].feed) = {Head(handlers[h].feed)} \cup ToSet(Tail(handlers[h].feed))
      /\ \E s : /\ Moves(h, s) /\ s.pc \notin InRule \cup {"fetch"} /\ s.todo = RuleOrder
                /\ s.groups = gs /\ s.feed = Tail(handlers[h].feed)
  BY HandOverMoves
<1>2. PICK s : /\ Moves(h, s) /\ s.pc \notin InRule \cup {"fetch"} /\ s.todo = RuleOrder
               /\ s.groups = gs /\ s.feed = Tail(handlers[h].feed)
  BY <1>1
<1>3. QuietFor(h, s)
  BY <1>2 DEF QuietFor, env, ends, NextMessage, At, InRule
<1>4. TypeOK'
  <2>1. delivered' \in 0 .. published /\ UNCHANGED queue
    BY DEF env, TypeOK
  <2> QED
    BY <1>3, <2>1, QuietType
<1>5. ASSUME NEW m \in 1 .. published, m > delivered \/ InAlbum(m) \/ HandledBy(handlers[h], m)
      PROVE  \/ m > delivered' \/ InAlbum(m)' \/ HandledBy(s, m) \/ m \in unwritten' \cup aside'
  <2>1. Taken(gs, m) => InAlbum(m)' \/ HandledBy(s, m) \/ m \in unwritten' \cup aside'
    BY <1>2 DEF Taken, HandledBy
  <2>2. CASE HandledBy(handlers[h], m)
    <3>1. m \in ToSet(handlers[h].feed)
      BY <2>2, NoElement DEF HandledBy, NextMessage
    <3>2. m = m0 \/ m \in ToSet(Tail(handlers[h].feed))
      BY <1>1, <3>1
    <3>3. m \in ToSet(Tail(handlers[h].feed)) => HandledBy(s, m)
      BY <1>2 DEF HandledBy
    <3> QED
      BY <2>1, <3>2, <3>3
  <2> QED
    BY <1>5, <2>1, <2>2 DEF env
<1> QED
  BY <1>3, <1>4, <1>5, QuietStep

LEMMA NoGroup == <<>> \in Seq(Groups)
BY NoElement

\* A recovery that fails leaves the messages of the gap aside.
LEMMA ChannelGapFailsKept ==
  ASSUME IInv, ChannelGapFails
  PROVE  TypeOK' /\ Kept
<1> USE DEF IInv
<1>1. /\ UNCHANGED <<published, sent, records, dbCursor, trackers, album, queue, handlers,
                     consumer, start, ended, settled, rejected, unwritten, overtaken>>
      /\ aside' = aside \cup (delivered + 1 .. published) /\ delivered' = published
  BY DEF ChannelGapFails, ends
<1>2. published \in Nat /\ delivered \in Nat /\ published <= MaxId
  BY ConstantTypes DEF TypeOK
<1>3. TypeOK'
  <2>1. delivered + 1 .. published \subseteq Ids
    BY <1>2, ConstantTypes DEF Ids
  <2>2. aside' \in SUBSET Ids /\ delivered' \in 0 .. published
    BY <1>1, <1>2, <2>1 DEF TypeOK
  <2> QED
    BY <1>1, <2>2 DEF TypeOK
<1>4. ASSUME NEW r \in Rules PROVE Rests(r)
  BY <1>1 DEF Rests, PendingWrites, At, Rule, ConsumerAt, Task
<1>5. CauseGrows /\ CoverGrows
  BY <1>1 DEF CauseGrows, CoverGrows
<1>6. CauseInv'
  BY <1>1, <1>5, TerminalStays, SkipRests
     DEF CauseInv, RecordsTrue, ConsumerTrue, ConsumerAt, Task
<1>7. ASSUME NEW r \in Rules, NEW m \in 1 .. published PROVE Covered(r, m)' \/ InHand(m)'
  <2>1. CASE Covered(r, m)
    BY <1>1, <2>1 DEF Covered
  <2>2. CASE m > delivered
    <3>1. m \in delivered + 1 .. published
      BY <1>2, <2>2
    <3> QED
      BY <1>1, <3>1 DEF Covered
  <2>3. CASE ~ (m > delivered) /\ InHand(m)
    BY <1>1, <2>3 DEF InHand
  <2> QED
    BY <2>1, <2>2, <2>3 DEF Accounted
<1>8. Accounted'
  BY <1>1, <1>7 DEF Accounted
<1>9. GroupsCovered'
  BY <1>1 DEF GroupsCovered, SeenBy, Covered, Rule, Grp
<1> QED
  BY <1>3, <1>4, <1>6, <1>8, <1>9 DEF Kept, WatermarkStep

LEMMA BatchFailsKept ==
  ASSUME IInv, BatchFails
  PROVE  TypeOK' /\ Kept
<1> USE DEF IInv
<1>1. /\ "live" \in Handlers /\ NextMessage("live")
      /\ handlers' = [handlers EXCEPT !["live"] = Continue(@, <<>>, <<>>)]
      /\ unwritten' = unwritten \cup ToSet(handlers["live"].feed)
      /\ UNCHANGED <<env, sent, records, dbCursor, trackers, album, queue, consumer, ends,
                     aside, overtaken>>
  BY DEF BatchFails, Handlers
<1>2. handlers["live"] \in HandlerStates /\ handlers["live"].pc = "next"
      /\ handlers["live"].groups = <<>>
  BY <1>1 DEF TypeOK, NextMessage, At
<1>3. PICK s : /\ Moves("live", s) /\ s.pc \notin InRule \cup {"fetch"} /\ s.todo = RuleOrder
               /\ s.groups = <<>> /\ s.feed = <<>>
  BY <1>1, EmptiedMoves
<1>4. QuietFor("live", s)
  BY <1>1, <1>2, <1>3 DEF QuietFor, env, ends, InRule
<1>5. unwritten' \subseteq Ids /\ aside' \subseteq Ids /\ delivered' \in 0 .. published
      /\ UNCHANGED <<queue, album, delivered>>
  <2>1. handlers["live"].feed \in Seq(Ids)
    BY <1>2, HandlerType
  <2>2. ToSet(handlers["live"].feed) \subseteq Ids
    BY <2>1 DEF ToSet
  <2> QED
    BY <1>1, <2>2 DEF TypeOK, env
<1>6. TypeOK'
  BY <1>1, <1>4, <1>5, QuietType DEF TypeOK
<1>7. ASSUME NEW m \in 1 .. published,
             m > delivered \/ InAlbum(m) \/ HandledBy(handlers["live"], m)
      PROVE  m > delivered' \/ InAlbum(m)' \/ m \in unwritten'
  <2>1. HandledBy(handlers["live"], m) => m \in unwritten'
    BY <1>1, <1>2, NoElement DEF HandledBy
  <2> QED
    BY <1>5, <1>7, <2>1 DEF InAlbum
<1> QED
  BY <1>1, <1>4, <1>6, <1>7, QuietStep

LEMMA WriteNewFailsKept ==
  ASSUME IInv, WriteNewFails
  PROVE  TypeOK' /\ Kept
<1> USE DEF IInv
<1>1. "live" \in Handlers /\ NextMessage("live") /\ HandOver("live", <<>>)
      /\ unwritten' = unwritten \cup {Head(handlers["live"].feed)}
      /\ UNCHANGED <<env, sent, records, dbCursor, trackers, album, queue, consumer, ends,
                     aside, overtaken>>
  BY DEF WriteNewFails, Handlers
<1>2. Head(handlers["live"].feed) \in Ids
  BY <1>1, NoGroup, HandOverMoves
<1>3. unwritten' \subseteq Ids /\ aside' \subseteq Ids /\ aside \subseteq aside'
      /\ album' \in [Albums -> Seq(Ids)]
      /\ \A g \in Albums : \A i \in DOMAIN album'[g] : GroupedID[album'[g][i]] = g
  BY <1>1, <1>2 DEF TypeOK
<1>4. \A m : InAlbum(m) => InAlbum(m)'
  BY <1>1 DEF InAlbum
<1>5. PICK gs \in Seq(Groups) : gs = <<>>
  BY NoElement
<1>6. PICK m0 : m0 = Head(handlers["live"].feed)
  OBVIOUS
<1>7. Taken(gs, m0) /\ \A m : InAlbum(m) => Taken(gs, m)
  BY <1>1, <1>4, <1>6 DEF Taken
<1> QED
  BY <1>1, <1>3, <1>5, <1>6, <1>7, HandOverKept

LEMMA HandleNewPausedKept ==
  ASSUME IInv, NEW h \in Handlers, HandleNewPaused(h)
  PROVE  TypeOK' /\ Kept
<1> USE DEF IInv
<1>1. NextMessage(h) /\ HandOver(h, <<>>)
      /\ aside' = aside \cup {Head(handlers[h].feed)}
      /\ UNCHANGED <<env, sent, records, dbCursor, trackers, album, queue, consumer, ends,
                     unwritten, overtaken>>
  BY DEF HandleNewPaused
<1>2. Head(handlers[h].feed) \in Ids
  BY <1>1, NoGroup, HandOverMoves
<1>3. unwritten' \subseteq Ids /\ aside' \subseteq Ids /\ unwritten \subseteq unwritten'
      /\ album' \in [Albums -> Seq(Ids)]
      /\ \A g \in Albums : \A i \in DOMAIN album'[g] : GroupedID[album'[g][i]] = g
  BY <1>1, <1>2 DEF TypeOK
<1>4. \A m : InAlbum(m) => InAlbum(m)'
  BY <1>1 DEF InAlbum
<1>5. PICK gs \in Seq(Groups) : gs = <<>>
  BY NoElement
<1>6. PICK m0 : m0 = Head(handlers[h].feed)
  OBVIOUS
<1>7. Taken(gs, m0) /\ \A m : InAlbum(m) => Taken(gs, m)
  BY <1>1, <1>4, <1>6 DEF Taken
<1> QED
  BY <1>1, <1>3, <1>5, <1>6, <1>7, HandOverKept

\* A message by itself and the members of one album are groups.
LEMMA SingleGroup ==
  ASSUME NEW m \in Ids
  PROVE  <<m>> \in Groups
<1>1. <<m>> \in Seq(Ids) /\ <<m>> # <<>> /\ DOMAIN <<m>> = {1} /\ <<m>>[1] = m
  BY OneElement
<1> QED
  BY <1>1 DEF Groups, Mates

LEMMA AlbumGroup ==
  ASSUME NEW g \in Albums, NEW q \in Seq(Ids), q # <<>>,
         \A i \in DOMAIN q : GroupedID[q[i]] = g
  PROVE  q \in Groups
<1>1. g # 0 /\ \A i \in DOMAIN q : q[i] \in Ids
  BY DEF Albums
<1>2. \A i, j \in DOMAIN q : q[j] \in Mates(q[i])
  BY <1>1 DEF Mates
<1> QED
  BY <1>2 DEF Groups

LEMMA HandleNewSingleKept ==
  ASSUME IInv, NEW h \in Handlers, HandleNewSingle(h)
  PROVE  TypeOK' /\ Kept
<1> USE DEF IInv
<1>0. PICK m0 : m0 = Head(handlers[h].feed)
  OBVIOUS
<1>1. NextMessage(h) /\ HandOver(h, << <<m0>> >>)
      /\ UNCHANGED <<env, sent, records, dbCursor, trackers, album, queue, consumer, ends,
                     aside, unwritten, overtaken>>
  BY <1>0 DEF HandleNewSingle, history
<1>2. handlers[h].feed \in Seq(Ids) /\ handlers[h].feed # <<>>
  BY <1>1, HandlerType DEF NextMessage, At, TypeOK
<1>3. m0 \in Ids
  BY <1>0, <1>2, HeadTail
<1>4. <<m0>> \in Groups /\ ToSet(<<m0>>) = {m0}
  BY <1>3, SingleGroup, OneElement
<1>5. PICK gs \in Seq(Groups) : gs = << <<m0>> >> /\ 1 \in DOMAIN gs /\ gs[1] = <<m0>>
  BY <1>4, OneElement
<1>6. unwritten' \subseteq Ids /\ aside' \subseteq Ids /\ unwritten \subseteq unwritten'
      /\ aside \subseteq aside' /\ album' \in [Albums -> Seq(Ids)]
      /\ \A g \in Albums : \A i \in DOMAIN album'[g] : GroupedID[album'[g][i]] = g
  BY <1>1 DEF TypeOK
<1>7. \A m : InAlbum(m) => InAlbum(m)'
  BY <1>1 DEF InAlbum
<1>8. Taken(gs, m0) /\ \A m : InAlbum(m) => Taken(gs, m)
  BY <1>4, <1>5, <1>7 DEF Taken
<1> QED
  BY <1>0, <1>1, <1>5, <1>6, <1>8, HandOverKept

LEMMA HandleNewAlbumKept ==
  ASSUME IInv, NEW h \in Handlers, HandleNewAlbum(h)
  PROVE  TypeOK' /\ Kept
<1> USE DEF IInv
<1>0. PICK m0 : m0 = Head(handlers[h].feed)
  OBVIOUS
<1> DEFINE g == GroupedID[m0]
           all == Append(album[g], m0)
<1>1. /\ NextMessage(h) /\ g # 0
      /\ \/ album' = [album EXCEPT ![g] = all] /\ HandOver(h, <<>>)
         \/ album' = [album EXCEPT ![g] = <<>>] /\ HandOver(h, <<all>>)
      /\ UNCHANGED <<env, sent, records, dbCursor, trackers, queue, consumer, ends,
                     aside, unwritten, overtaken>>
  BY <1>0 DEF HandleNewAlbum, history
<1>2. handlers[h].feed \in Seq(Ids) /\ handlers[h].feed # <<>>
  BY <1>1, HandlerType DEF NextMessage, At, TypeOK
<1>3. m0 \in Ids
  BY <1>0, <1>2, HeadTail
<1>4. g \in Albums
  BY <1>1, <1>3, ConstantTypes
<1> HIDE DEF g
<1>5. album[g] \in Seq(Ids) /\ \A i \in DOMAIN album[g] : GroupedID[album[g][i]] = g
  BY <1>4 DEF TypeOK
<1>6. /\ all \in Seq(Ids) /\ ToSet(all) = ToSet(album[g]) \cup {m0}
      /\ \A i \in DOMAIN all : \/ i \in DOMAIN album[g] /\ all[i] = album[g][i]
                               \/ all[i] = m0
  BY <1>3, <1>5, AppendOne
<1> HIDE DEF all
<1>7. (\A i \in DOMAIN all : GroupedID[all[i]] = g) /\ all # <<>>
  <2>1. ToSet(all) # {}
    BY <1>6
  <2>2. all # <<>>
    BY <2>1, NoElement
  <2> QED
    BY <1>5, <1>6, <2>2 DEF g
<1>8. all \in Groups
  BY <1>4, <1>6, <1>7, AlbumGroup
<1>9. unwritten' \subseteq Ids /\ aside' \subseteq Ids /\ unwritten \subseteq unwritten'
      /\ aside \subseteq aside' /\ album \in [Albums -> Seq(Ids)]
      /\ \A a \in Albums : \A i \in DOMAIN album[a] : GroupedID[album[a][i]] = a
  BY <1>1 DEF TypeOK
<1>10. CASE album' = [album EXCEPT ![g] = all] /\ HandOver(h, <<>>)
  <2>1. album'[g] = all /\ \A a \in Albums \ {g} : album'[a] = album[a]
    BY <1>4, <1>9, <1>10
  <2>2. /\ album' \in [Albums -> Seq(Ids)]
        /\ \A a \in Albums : \A i \in DOMAIN album'[a] : GroupedID[album'[a][i]] = a
    BY <1>6, <1>7, <1>9, <1>10, <2>1
  <2>3. InAlbum(m0)' /\ \A m : InAlbum(m) => InAlbum(m)'
    <3>1. ToSet(album'[g]) = ToSet(album[g]) \cup {m0}
      BY <1>6, <2>1
    <3>2. \A a \in Albums : ToSet(album[a]) \subseteq ToSet(album'[a])
      BY <2>1, <3>1
    <3>3. InAlbum(m0)'
      BY <1>4, <3>1 DEF InAlbum
    <3>4. \A m : InAlbum(m) => InAlbum(m)'
      BY <3>2 DEF InAlbum
    <3> QED
      BY <3>3, <3>4
  <2>4. PICK gs \in Seq(Groups) : gs = <<>>
    BY NoElement
  <2>5. Taken(gs, m0) /\ \A m : InAlbum(m) => Taken(gs, m)
    BY <2>3 DEF Taken
  <2> QED
    BY <1>0, <1>1, <1>9, <1>10, <2>2, <2>4, <2>5, HandOverKept
<1>11. CASE album' = [album EXCEPT ![g] = <<>>] /\ HandOver(h, <<all>>)
  <2>1. album'[g] = <<>> /\ \A a \in Albums \ {g} : album'[a] = album[a]
    BY <1>4, <1>9, <1>11
  <2>2. /\ album' \in [Albums -> Seq(Ids)]
        /\ \A a \in Albums : \A i \in DOMAIN album'[a] : GroupedID[album'[a][i]] = a
    BY <1>9, <1>11, <2>1, NoElement
  <2>3. PICK gs \in Seq(Groups) : gs = <<all>> /\ 1 \in DOMAIN gs /\ gs[1] = all
    BY <1>8, OneElement
  <2>4. \A m : m \in ToSet(all) => Taken(gs, m)
    BY <2>3 DEF Taken
  <2>5. \A m : InAlbum(m) => InAlbum(m)' \/ m \in ToSet(all)
    BY <1>6, <2>1 DEF InAlbum
  <2>6. Taken(gs, m0)
    BY <1>6, <2>4
  <2>7. \A m : InAlbum(m) => Taken(gs, m)
    <3>1. \A m : InAlbum(m)' => Taken(gs, m)
      BY DEF Taken
    <3> QED
      BY <2>4, <2>5, <3>1
  <2> QED
    BY <1>0, <1>1, <1>9, <1>11, <2>2, <2>3, <2>6, <2>7, HandOverKept
<1> QED
  BY <1>1, <1>10, <1>11 DEF all

LEMMA AlbumsFinite == IsFiniteSet(Albums)
<1> DEFINE A == {GroupedID[m] : m \in Ids}
<1>1. IsFiniteSet(Ids)
  BY ConstantTypes, FS_Interval DEF Ids
<1>2. GroupedID \in Surjection(Ids, A)
  BY EngineAssumption DEF Surjection
<1>3. IsFiniteSet(A)
  <2> HIDE DEF A
  <2> QED
    BY <1>1, <1>2, FS_Surjection
<1>4. Albums \subseteq A
  BY DEF Albums
<1> QED
  BY <1>3, <1>4, FS_Subset

\* FlushAll or FlushDue: the albums of S become the groups of the handler.
LEMMA FlushKept ==
  ASSUME IInv, NEW h \in Handlers, handlers[h].pc \in Waits, NEW S, S \subseteq Collected,
         NEW th \in {"idle", "drain", "settle"}, FlushTo(h, S, th)
  PROVE  TypeOK' /\ Kept
<1> USE DEF IInv
<1>1. PICK order \in SetToSeqs(S) :
        handlers' = [handlers EXCEPT ![h] =
          Continue([@ EXCEPT !.then = th], [i \in DOMAIN order |-> album[order[i]]], <<>>)]
  BY DEF FlushTo
<1>2. /\ album' = [g \in Albums |-> IF g \in S THEN <<>> ELSE album[g]]
      /\ UNCHANGED <<env, sent, records, dbCursor, trackers, queue, consumer, history>>
  BY DEF FlushTo
<1>3. S \subseteq Albums /\ IsFiniteSet(S) /\ \A g \in S : album[g] # <<>>
  <2>1. S \subseteq Albums /\ \A g \in S : album[g] # <<>>
    BY DEF Collected
  <2> QED
    BY <2>1, AlbumsFinite, FS_Subset
<1>4. order \in Seq(S) /\ \A g \in S : \E i \in DOMAIN order : order[i] = g
  BY <1>3, OrderCovers
<1>5. \A g \in S : album[g] \in Groups
  <2>1. \A g \in S : /\ g \in Albums /\ album[g] \in Seq(Ids) /\ album[g] # <<>>
                     /\ \A i \in DOMAIN album[g] : GroupedID[album[g][i]] = g
    BY <1>3 DEF TypeOK
  <2> QED
    BY <2>1, AlbumGroup
<1>6. PICK gs \in Seq(Groups) : gs = [i \in DOMAIN order |-> album[order[i]]]
  <2>1. PICK n \in Nat : DOMAIN order = 1 .. n /\ \A i \in 1 .. n : order[i] \in S
    BY <1>4
  <2>2. \A i \in 1 .. n : album[order[i]] \in Groups
    BY <1>5, <2>1
  <2> DEFINE f == [i \in 1 .. n |-> album[order[i]]]
  <2>3. f \in Seq(Groups)
    BY <2>2
  <2>4. f = [i \in DOMAIN order |-> album[order[i]]]
    BY <2>1
  <2> HIDE DEF f
  <2> QED
    BY <2>3, <2>4
<1>7. DOMAIN gs = DOMAIN order /\ \A i \in DOMAIN order : gs[i] = album[order[i]]
  BY <1>6
<1>8. PICK s : /\ Moves(h, s) /\ s.pc \notin InRule /\ s.todo = RuleOrder
               /\ s.groups = gs /\ s.feed = <<>>
  <2> DEFINE t == [handlers[h] EXCEPT !.then = th]
  <2>1. /\ handlers[h] \in HandlerStates
        /\ handlers' = [handlers EXCEPT ![h] =
             Continue(t, [i \in DOMAIN order |-> album[order[i]]], <<>>)]
    BY <1>1 DEF TypeOK
  <2>2. t \in HandlerStates
    BY <2>1, ThenState
  <2> HIDE DEF t
  <2>3. PICK fd \in Seq(Ids) : fd = <<>>
    BY NoElement
  <2> DEFINE c == Continue(t, gs, fd)
  <2>4. c \in HandlerStates /\ c.pc \notin InRule /\ c.groups = gs /\ c.feed = fd
        /\ c.todo = RuleOrder
    BY <2>2, ContinueState
  <2>5. handlers' = [handlers EXCEPT ![h] = c]
    BY <1>6, <2>1, <2>3
  <2> HIDE DEF c
  <2> QED
    BY <2>3, <2>4, <2>5 DEF Moves
<1>9. handlers[h].feed = <<>> /\ handlers[h].groups = <<>> /\ handlers[h].pc \notin InRule
  BY HandlerType DEF TypeOK, Waits, InRule
<1>10. QuietFor(h, s)
  BY <1>2, <1>8, <1>9 DEF QuietFor, env, history, ends
<1>11. TypeOK'
  <2>1. album \in [Albums -> Seq(Ids)]
        /\ \A g \in Albums : \A i \in DOMAIN album[g] : GroupedID[album[g][i]] = g
    BY DEF TypeOK
  <2>2. \A g \in Albums : album'[g] = IF g \in S THEN <<>> ELSE album[g]
    BY <1>2
  <2>3. album' \in [Albums -> Seq(Ids)]
        /\ \A g \in Albums : \A i \in DOMAIN album'[g] : GroupedID[album'[g][i]] = g
    <3>1. \A g \in Albums : album'[g] \in Seq(Ids)
      BY <2>1, <2>2, NoElement
    <3>2. \A g \in Albums : \A i \in DOMAIN album'[g] : GroupedID[album'[g][i]] = g
      BY <2>1, <2>2, NoElement
    <3>3. album' \in [Albums -> Seq(Ids)]
      BY <1>2, <3>1, <2>2
    <3> QED
      BY <3>2, <3>3
  <2>4. /\ delivered' \in 0 .. published /\ unwritten' \subseteq Ids /\ aside' \subseteq Ids
        /\ UNCHANGED queue
    BY <1>2 DEF env, history, TypeOK
  <2> QED
    BY <1>10, <2>3, <2>4, QuietType
<1>12. ASSUME NEW m, InAlbum(m) PROVE InAlbum(m)' \/ HandledBy(s, m)
  <2>1. PICK g \in Albums : m \in ToSet(album[g])
    BY <1>12 DEF InAlbum
  <2>2. CASE g \in S
    <3>1. PICK i \in DOMAIN order : order[i] = g
      BY <1>4, <2>2
    <3>2. i \in DOMAIN s.groups /\ m \in ToSet(s.groups[i])
      BY <1>7, <1>8, <2>1, <3>1
    <3> QED
      BY <3>2 DEF HandledBy
  <2>3. CASE g \notin S
    <3>1. album'[g] = album[g]
      BY <1>2, <2>3
    <3> QED
      BY <2>1, <3>1 DEF InAlbum
  <2> QED
    BY <2>2, <2>3
<1>13. \A m : ~ HandledBy(handlers[h], m)
  BY <1>9, NoElement DEF HandledBy
<1>14. UNCHANGED delivered
  BY <1>2 DEF env
<1> QED
  BY <1>10, <1>11, <1>12, <1>13, <1>14, QuietStep

LEMMA FlushDueKept ==
  ASSUME IInv, FlushDue
  PROVE  TypeOK' /\ Kept
<1>1. PICK S \in (SUBSET Collected) \ {{}} : FlushTo("loop", S, "idle")
  BY DEF FlushDue
<1>2. "loop" \in Handlers /\ handlers["loop"].pc \in Waits
  BY DEF FlushDue, Free, Handlers, Waits
<1> QED
  BY <1>1, <1>2, FlushKept

LEMMA DrainFlushKept ==
  ASSUME IInv, NEW b \in Backfillers, DrainFlush(b)
  PROVE  TypeOK' /\ Kept
<1>1. b \in Handlers /\ handlers[b].pc \in Waits /\ FlushTo(b, Collected, "settle")
  BY DEF DrainFlush, At, Handlers, Waits
<1> QED
  BY <1>1, FlushKept

LEMMA PauseKept ==
  ASSUME IInv, Pause \/ Resume
  PROVE  TypeOK' /\ Kept
<1> USE DEF IInv
<1>1. UNCHANGED <<published, delivered, sent, records, dbCursor, trackers, album, queue,
                  handlers, consumer, start, ended, settled, rejected, unwritten, aside, overtaken>>
  BY DEF Pause, Resume, env, history, ends
<1>2. TypeOK'
  BY <1>1 DEF TypeOK
<1>3. \A r \in Rules : WatermarkStep(r)
  BY <1>1 DEF WatermarkStep, Rests, PendingWrites, At, Rule, ConsumerAt, Task
<1>4. CauseGrows /\ CoverGrows
  BY <1>1 DEF CauseGrows, CoverGrows
<1>5. CauseInv'
  BY <1>1, <1>4, TerminalStays, SkipRests
     DEF CauseInv, RecordsTrue, ConsumerTrue, ConsumerAt, Task
<1> QED
  BY <1>1, <1>2, <1>3, <1>4, <1>5, AccountedRests, GroupsRest DEF Kept
-----------------------------------------------------------------------------
(* The steps of processRule. *)

\* A handler goes on with its group, is through with a rule, or with a group.
Goes(h, s) ==
  \/ InPlace(h, s) /\ s.pc \in InRule
  \/ OneRuleLess(h, s) \/ OneGroupLess(h, s)

LEMMA RuleFrame ==
  ASSUME IInv, NEW h \in Handlers, handlers[h].pc \in InRule, NEW s, Moves(h, s), Goes(h, s),
         CoverGrows, UNCHANGED <<published, delivered, album>>
  PROVE  Accounted' /\ GroupsCovered'
<1> USE DEF IInv
<1>1. /\ handlers[h] \in HandlerStates /\ handlers[h].groups # <<>>
      /\ handlers[h].groups \in Seq(Groups) /\ handlers[h].todo \in Seq(Rules)
      /\ handlers[h].todo # <<>> /\ StateCovered(handlers[h])
  BY HandlerType, GroupsCoveredIs DEF TypeOK
<1>2. /\ ToSet(handlers[h].todo) = {Rule(h)} \cup ToSet(Tail(handlers[h].todo))
      /\ Len(Tail(handlers[h].todo)) = Len(handlers[h].todo) - 1
      /\ Tail(handlers[h].todo) \in Seq(Rules)
  BY <1>1, HeadTail DEF Rule
<1>3. ASSUME NEW r \in Rules, r \notin ToSet(handlers[h].todo) \/ r = Rule(h),
             NEW m \in ToSet(Grp(h))
      PROVE  Covered(r, m)'
  <2>1. Covered(r, m)
    BY <1>1, <1>3 DEF StateCovered, Rule, Grp
  <2> QED
    BY <2>1, CoveredStays
<1>4. CASE InPlace(h, s) /\ s.pc \in InRule
  <2>1. StateCovered(s)'
    BY <1>3, <1>4 DEF StateCovered, InPlace, Rule, Grp
  <2>2. \A m : HandledBy(handlers[h], m) => HandledBy(s, m)
    BY <1>4 DEF InPlace, HandledBy
  <2>3. \A m : InAlbum(m) => InAlbum(m)'
    BY DEF InAlbum
  <2> QED
    BY <2>1, <2>2, <2>3, GroupsMove, AccountedMoves
<1>5. CASE OneRuleLess(h, s)
  <2>1. StateCovered(s)'
    BY <1>2, <1>3, <1>5 DEF StateCovered, OneRuleLess, Grp, InRule
  <2>2. \A m : HandledBy(handlers[h], m) => HandledBy(s, m)
    BY <1>5 DEF OneRuleLess, HandledBy
  <2>3. \A m : InAlbum(m) => InAlbum(m)'
    BY DEF InAlbum
  <2> QED
    BY <2>1, <2>2, <2>3, GroupsMove, AccountedMoves
<1>6. CASE OneGroupLess(h, s)
  <2>1. StateCovered(s)'
    BY <1>6, ConstantTypes DEF StateCovered, OneGroupLess
  <2>2. ToSet(Tail(handlers[h].todo)) = {}
    <3>1. PICK tl \in Seq(Rules) : tl = Tail(handlers[h].todo)
      BY <1>2
    <3>2. Len(tl) = 0
      BY <1>2, <1>6, <3>1 DEF OneGroupLess
    <3>3. tl = <<>>
      BY <3>2
    <3> QED
      BY <3>1, <3>3, NoElement
  <2>3. ASSUME NEW r \in Rules, NEW m \in ToSet(Grp(h)) PROVE Covered(r, m)'
    BY <1>2, <1>3, <2>2, <2>3
  <2>4. ASSUME NEW m, HandledBy(handlers[h], m)
        PROVE  HandledBy(s, m) \/ \A r \in Rules : Covered(r, m)'
    <3>1. CASE m \in ToSet(handlers[h].feed)
      BY <1>6, <3>1 DEF OneGroupLess, HandledBy
    <3>2. ASSUME NEW i \in DOMAIN handlers[h].groups, m \in ToSet(handlers[h].groups[i])
          PROVE  HandledBy(s, m) \/ \A r \in Rules : Covered(r, m)'
      <4>1. PICK gs \in Seq(Groups) : gs = handlers[h].groups
        BY <1>1
      <4>2. /\ DOMAIN gs = 1 .. Len(gs) /\ Len(gs) \in Nat \ {0} /\ Head(gs) = gs[1]
            /\ Tail(gs) \in Seq(Groups) /\ Len(Tail(gs)) = Len(gs) - 1
        BY <1>1, <4>1, HeadTail
      <4>3. CASE i = 1
        BY <2>3, <3>2, <4>1, <4>2, <4>3 DEF Grp
      <4>4. CASE i # 1
        <5>1. i - 1 \in 1 .. Len(Tail(gs)) /\ Tail(gs)[i - 1] = gs[i]
          BY <4>1, <4>2, <4>4
        <5>2. i - 1 \in DOMAIN Tail(gs)
          BY <4>2, <5>1
        <5> QED
          BY <1>6, <3>2, <4>1, <5>1, <5>2 DEF OneGroupLess, HandledBy
      <4> QED
        BY <4>3, <4>4
    <3> QED
      BY <2>4, <3>1, <3>2 DEF HandledBy
  <2>5. \A m : InAlbum(m) => InAlbum(m)'
    BY DEF InAlbum
  <2> QED
    BY <2>1, <2>4, <2>5, GroupsMove, AccountedMoves
<1> QED
  BY <1>4, <1>5, <1>6 DEF Goes

\* Steps that change nothing but the handler, and perhaps the queue.
LEMMA StillKept ==
  ASSUME IInv, NEW h \in Handlers, handlers[h].pc \in InRule \ {"persist"},
         NEW s, Moves(h, s), Goes(h, s), s.pc # "persist",
         s.pc = "finish" => SkipCause(Rule(h), Grp(h)), queue' \in Seq(Tasks),
         UNCHANGED <<env, sent, records, dbCursor, trackers, album, consumer, history>>
  PROVE  TypeOK' /\ Kept
<1> USE DEF IInv
<1>1. UNCHANGED <<published, delivered, sent, records, dbCursor, trackers, album,
                  consumer, start, ended, settled, rejected, unwritten, aside, overtaken>>
  BY DEF env, history, ends
<1>2. TypeOK'
  BY <1>1 DEF TypeOK, Moves
<1>3. ASSUME NEW r \in Rules PROVE WatermarkStep(r)
  <2>1. UNCHANGED PendingWrites(r)
    BY <1>1, PendingHandler
  <2> QED
    BY <1>1, <2>1 DEF WatermarkStep, Rests
<1>4. CauseGrows /\ CoverGrows
  BY <1>1 DEF CauseGrows, CoverGrows
<1>5. CauseInv'
  <2>1. s.pc = "finish" => SkipCause(Head(s.todo), Head(s.groups))
    BY DEF Goes, InPlace, OneRuleLess, OneGroupLess, Rule, Grp, InRule
  <2>2. SkipHasCause'
    BY <1>1, <2>1, SkipStays DEF CauseInv
  <2>3. TerminalHasCause' /\ RecordsTrue' /\ ConsumerTrue'
    BY <1>1, <1>4, TerminalStays DEF CauseInv, RecordsTrue, ConsumerTrue, ConsumerAt, Task
  <2> QED
    BY <2>2, <2>3 DEF CauseInv
<1> QED
  BY <1>1, <1>2, <1>3, <1>4, <1>5, RuleFrame DEF Kept

LEMMA InRuleGroups ==
  ASSUME TypeOK, NEW h \in Handlers, handlers[h].pc \in InRule
  PROVE  handlers[h].groups # <<>>
BY HandlerType DEF TypeOK

LEMMA DoneKept ==
  ASSUME IInv, NEW h \in Handlers,
         \/ CheckFails(h) \/ CountEnqueued(h)
         \/ h \in Backfillers /\ PushCancelled(h)
  PROVE  TypeOK' /\ Kept
<1> USE DEF IInv
<1>1. /\ handlers[h].pc \in InRule \ {"persist"} /\ RuleDone(h)
      /\ UNCHANGED <<env, sent, records, dbCursor, trackers, album, queue, consumer, history>>
  BY DEF CheckFails, CountEnqueued, PushCancelled, At, InRule
<1>2. PICK s : Moves(h, s) /\ (OneRuleLess(h, s) \/ OneGroupLess(h, s))
  BY <1>1, InRuleGroups, RuleDoneMoves
<1>3. s.pc # "persist" /\ s.pc # "finish"
  BY <1>2 DEF OneRuleLess, OneGroupLess, InRule
<1>4. queue' \in Seq(Tasks)
  BY <1>1 DEF TypeOK
<1> QED
  BY <1>1, <1>2, <1>3, <1>4, StillKept DEF Goes

LEMMA CheckKept ==
  ASSUME IInv, NEW h \in Handlers, Skip(h) \/ Pass(h)
  PROVE  TypeOK' /\ Kept
<1> USE DEF IInv
<1>1. PICK pc \in {"finish", "push"} : Goto(h, pc) /\ (pc = "finish" => SkipCause(Rule(h), Grp(h)))
  BY DEF Skip, Pass, SkipCause
<1>2. handlers[h].pc = "check"
      /\ UNCHANGED <<env, sent, records, dbCursor, trackers, album, queue, consumer, history>>
  BY DEF Skip, Pass, At
<1>3. handlers[h].groups # <<>>
  BY <1>2, InRuleGroups DEF InRule
<1>4. PICK s : Moves(h, s) /\ s.pc = pc /\ InPlace(h, s)
  BY <1>1, <1>3, GotoMoves DEF InRule
<1>5. queue' \in Seq(Tasks)
  BY <1>2 DEF TypeOK
<1> QED
  BY <1>1, <1>2, <1>4, <1>5, StillKept DEF Goes, InRule

LEMMA PushKept ==
  ASSUME IInv, NEW h \in Handlers, Push(h)
  PROVE  TypeOK' /\ Kept
<1> USE DEF IInv
<1>1. /\ handlers[h].pc = "push" /\ Goto(h, "count")
      /\ queue' = Append(queue, [rule |-> Rule(h), msgs |-> Grp(h)])
      /\ UNCHANGED <<env, sent, records, dbCursor, trackers, album, consumer, history>>
  BY DEF Push, At
<1>2. handlers[h].groups # <<>>
  BY <1>1, InRuleGroups DEF InRule
<1>3. PICK s : Moves(h, s) /\ s.pc = "count" /\ InPlace(h, s)
  BY <1>1, <1>2, GotoMoves DEF InRule
<1>4. queue' \in Seq(Tasks)
  <2>1. PICK t \in Tasks : t = [rule |-> Rule(h), msgs |-> Grp(h)]
    BY <1>2, InHandType DEF Tasks
  <2> QED
    BY <1>1, <2>1, AppendOne DEF TypeOK
<1> QED
  BY <1>1, <1>3, <1>4, StillKept DEF Goes, InRule

LEMMA ObserveKept ==
  ASSUME IInv, NEW h \in Handlers, Observe(h)
  PROVE  TypeOK' /\ Kept
<1> USE DEF IInv
<1>1. /\ handlers[h].pc = "next" /\ handlers[h].groups # <<>> /\ Goto(h, "check")
      /\ UNCHANGED <<published, delivered, sent, records, dbCursor, album, queue, consumer,
                     start, ended, settled, rejected, unwritten, aside>>
  BY DEF Observe, At, env, ends
<1>2. PICK R \in Rules, S \in SUBSET Ids : R = Rule(h) /\ S = ToSet(Grp(h))
  BY <1>1, InHandType
<1>3. /\ trackers' = [trackers EXCEPT ![R] = ObserveAll(@, S)]
      /\ overtaken' = [overtaken EXCEPT ![R] =
                         @ \cup {m \in S \ settled[R] : m <= trackers[R].cursor}]
  BY <1>2 DEF Observe
<1>4. PICK s : Moves(h, s) /\ s.pc = "check" /\ InPlace(h, s)
  BY <1>1, GotoMoves DEF InRule
<1>5. /\ trackers'[R] = ObserveAll(trackers[R], S)
      /\ \A p \in Rules \ {R} : trackers'[p] = trackers[p] /\ overtaken'[p] = overtaken[p]
      /\ overtaken'[R] = overtaken[R] \cup {m \in S \ settled[R] : m <= trackers[R].cursor}
  BY <1>2, <1>3 DEF TypeOK
<1>6. ASSUME NEW r \in Rules PROVE WatermarkStep(r)
  <2>1. UNCHANGED PendingWrites(r)
    BY <1>1, <1>4, PendingHandler
  <2>2. CASE r = R
    BY <1>1, <1>5, <2>1, <2>2 DEF WatermarkStep, Observes
  <2>3. CASE r # R
    BY <1>1, <1>5, <2>1, <2>3 DEF WatermarkStep, Rests
  <2> QED
    BY <2>2, <2>3
<1>7. TypeOK'
  <2>1. \A r \in Rules : trackers'[r] \in Trackers(Ids)
    BY <1>6, KeptSound
  <2>2. trackers' \in [Rules -> Trackers(Ids)]
    BY <1>3, <2>1 DEF TypeOK
  <2>3. overtaken' \in [Rules -> SUBSET Ids]
    BY <1>3, <1>2 DEF TypeOK
  <2> QED
    BY <1>1, <1>4, <2>2, <2>3 DEF TypeOK, Moves
<1>8. /\ trackers[R].cursor \in Nat /\ trackers'[R].unresolved = trackers[R].unresolved \cup Above(trackers[R], S)
  BY <1>5 DEF TypeOK, Trackers, ObserveAll
<1>9. CauseGrows /\ CoverGrows
  BY <1>1, <1>5, <1>8 DEF CauseGrows, CoverGrows
<1>10. CauseInv'
  <2>1. SkipHasCause'
    BY <1>1, <1>4, SkipStays DEF CauseInv
  <2>2. TerminalHasCause' /\ RecordsTrue' /\ ConsumerTrue'
    BY <1>1, <1>9, TerminalStays DEF CauseInv, RecordsTrue, ConsumerTrue, ConsumerAt, Task
  <2> QED
    BY <2>1, <2>2 DEF CauseInv
<1>11. Accounted'
  <2>1. \A m : HandledBy(handlers[h], m) => HandledBy(s, m)
    BY <1>4 DEF InPlace, HandledBy
  <2>2. \A m : InAlbum(m) => InAlbum(m)'
    BY <1>1 DEF InAlbum
  <2> QED
    BY <1>1, <1>4, <1>9, <2>1, <2>2, AccountedMoves
<1>12. GroupsCovered'
  <2>1. StateCovered(handlers[h])
    BY GroupsCoveredIs
  <2>2. ASSUME NEW m \in S PROVE Covered(R, m)'
    <3>1. m \in Ids /\ m \in Nat
      BY ConstantTypes
    <3>2. CASE m > trackers[R].cursor
      BY <1>8, <3>2 DEF Covered, Above
    <3>3. CASE m <= trackers[R].cursor
      <4>1. m \in settled[R] \/ m \in overtaken'[R]
        BY <1>5, <3>3
      <4> QED
        BY <1>1, <4>1 DEF Covered
    <3> QED
      BY <1>8, <3>1, <3>2, <3>3
  <2>3. ASSUME NEW r \in Rules, r \notin ToSet(s.todo) \/ r = R, NEW m \in S
        PROVE  Covered(r, m)'
    <3>1. CASE r = R
      BY <2>2, <3>1
    <3>2. CASE r \notin ToSet(handlers[h].todo)
      <4>1. Covered(r, m)
        BY <1>1, <1>2, <2>1, <3>2 DEF StateCovered, Grp
      <4> QED
        BY <1>9, <4>1, CoveredStays
    <3> QED
      BY <1>4, <2>3, <3>1, <3>2 DEF InPlace
  <2>4. StateCovered(s)'
    BY <1>2, <1>4, <2>3 DEF StateCovered, InPlace, Rule, Grp
  <2> QED
    BY <1>4, <1>9, <2>4, GroupsMove
<1> QED
  BY <1>6, <1>7, <1>10, <1>11, <1>12 DEF Kept

\* finishTerminals: what it does to the trackers and the history.
LEMMA FinishFacts ==
  ASSUME TypeOK, TrackersSound, NEW r \in Rules, NEW grp \in Groups, Finish(r, grp)
  PROVE  LET S == ToSet(grp)
         IN  /\ S \in SUBSET Ids
             /\ trackers'[r] = TerminalAll(trackers[r], S)
             /\ ended'[r] = ended[r] \cup Above(trackers[r], S)
             /\ settled'[r] = settled[r] \cup S
             /\ \A p \in Rules \ {r} : UNCHANGED <<trackers[p], ended[p], settled[p]>>
             /\ Captured(r, grp) \in {0} \cup Ids
             /\ Captured(r, grp) = 0 => ~ Moved(trackers[r], S)
             /\ Captured(r, grp) # 0 => Moved(trackers[r], S) /\ Captured(r, grp) = trackers'[r].cursor
             /\ trackers' \in [Rules -> Trackers(Ids)]
             /\ ended' \in [Rules -> SUBSET Ids] /\ settled' \in [Rules -> SUBSET Ids]
             /\ UNCHANGED <<start, unwritten, aside, overtaken>>
             /\ trackers[r].unresolved \subseteq trackers'[r].unresolved \cup S
<1> DEFINE S == ToSet(grp)
           t == TerminalAll(trackers[r], S)
<1>1. S \in SUBSET Ids
  BY GroupType
<1>2. /\ trackers' = [trackers EXCEPT ![r] = t]
      /\ ended' = [ended EXCEPT ![r] = @ \cup Above(trackers[r], S)]
      /\ settled' = [settled EXCEPT ![r] = @ \cup S]
      /\ UNCHANGED <<start, unwritten, aside, overtaken>>
  BY DEF Finish, TypeOK
<1>3. trackers[r] \in Trackers(Ids) /\ Sound(trackers[r])
  BY DEF TypeOK, TrackersSound
<1>4. Captured(r, grp) = IF Moved(trackers[r], S) THEN t.cursor ELSE 0
  BY DEF Captured
<1>5. Moved(trackers[r], S) <=> t.cursor > trackers[r].cursor
  BY DEF Moved
<1> HIDE DEF S
<1>6. /\ t \in Trackers(Ids) /\ t.cursor >= trackers[r].cursor
      /\ t.cursor \in {trackers[r].cursor} \cup trackers[r].terminals \cup Above(trackers[r], S)
      /\ t.unresolved = trackers[r].unresolved \ Above(trackers[r], S)
  BY <1>1, <1>3, IdsBounded, TerminalAllFacts
<1> HIDE DEF t
<1>7. Above(trackers[r], S) \subseteq S
  BY DEF Above
<1>8. trackers[r].cursor \in Nat /\ trackers[r].terminals \subseteq Ids
  BY <1>3 DEF Trackers
<1>9. t.cursor > trackers[r].cursor => t.cursor \in Ids /\ t.cursor # 0
  BY <1>1, <1>6, <1>7, <1>8, ConstantTypes
<1>10. /\ trackers'[r] = t /\ ended'[r] = ended[r] \cup Above(trackers[r], S)
       /\ settled'[r] = settled[r] \cup S
       /\ \A p \in Rules \ {r} : UNCHANGED <<trackers[p], ended[p], settled[p]>>
  BY <1>2 DEF TypeOK
<1>11. /\ trackers' \in [Rules -> Trackers(Ids)]
       /\ ended' \in [Rules -> SUBSET Ids] /\ settled' \in [Rules -> SUBSET Ids]
  BY <1>1, <1>2, <1>6, <1>7 DEF TypeOK
<1> QED
  BY <1>1, <1>2, <1>4, <1>5, <1>6, <1>7, <1>9, <1>10, <1>11 DEF S, t

\* Why a group that is skipped ends, member by member.
LEMMA SkipCauses ==
  ASSUME TypeOK, RecordsTrue, NEW r \in Rules, NEW grp \in Groups, SkipCause(r, grp),
         NEW m \in ToSet(grp)
  PROVE  HasCause(r, m)
<1>1. \A y \in ToSet(grp) : y \in Mates(m)
  BY GroupType
<1>2. CASE Exists(r, grp)
  <2>1. PICK x \in records : x.target = Target[r] /\ x.msg \in ToSet(grp)
    BY <1>2 DEF Exists
  <2>2. sent[x.target][x.msg] > 0 /\ x.msg \in Mates(m)
    BY <1>1, <2>1 DEF RecordsTrue
  <2> QED
    BY <2>1, <2>2 DEF HasCause
<1>3. CASE ExistsByContent(r, grp)
  <2>1. PICK x \in records : x.target = Target[r] /\ x.hash = hashOf(grp)
    BY <1>3 DEF ExistsByContent
  <2>2. ContentDedup /\ hashOf(grp) # {}
    BY <1>3 DEF ExistsByContent
  <2>3. PICK i \in DOMAIN grp : \E k : <<k, Text[grp[i]]>> \in x.hash
    BY <2>1, <2>2 DEF hashOf
  <2>4. grp[i] \in Mates(m)
    BY <1>1 DEF ToSet
  <2>5. Text[grp[i]] \in {t[2] : t \in x.hash}
    BY <2>3
  <2>6. sent[x.target][x.msg] > 0
    BY DEF RecordsTrue
  <2> QED
    BY <2>1, <2>2, <2>4, <2>5, <2>6 DEF HasCause
<1>4. CASE ~ ShouldForward(r, grp)
  BY <1>4 DEF ShouldForward, HasCause
<1> QED
  BY <1>2, <1>3, <1>4 DEF SkipCause

\* Where a handler goes after finishTerminals: on, or to persist the cursor.
LEMMA FinishSkippedMoves ==
  ASSUME TypeOK, TrackersSound, NEW h \in Handlers, FinishSkipped(h),
         NEW R \in Rules, NEW grp \in Groups, R = Rule(h), grp = Grp(h),
         NEW c, c = Captured(R, grp)
  PROVE  \E s : /\ Moves(h, s) /\ Goes(h, s) /\ s.pc # "finish"
                /\ c = 0 => s.pc # "persist"
                /\ c # 0 => s.pc = "persist" /\ s.adv = c /\ Head(s.todo) = R
<1>1. handlers[h].pc = "finish" /\ Finish(R, grp)
  BY DEF FinishSkipped, At
<1>2. handlers[h].groups # <<>> /\ handlers[h] \in HandlerStates
  BY <1>1, InRuleGroups DEF InRule, TypeOK
<1>3. c \in {0} \cup Ids
  BY <1>1, FinishFacts
<1>4. CASE c = 0
  <2>1. RuleDone(h)
    BY <1>4 DEF FinishSkipped
  <2>2. PICK s : Moves(h, s) /\ (OneRuleLess(h, s) \/ OneGroupLess(h, s))
    BY <1>2, <2>1, RuleDoneMoves
  <2> QED
    BY <1>4, <2>2 DEF Goes, OneRuleLess, OneGroupLess, InRule
<1>5. CASE c # 0
  <2> DEFINE s == [handlers[h] EXCEPT !.pc = "persist", !.adv = c]
  <2>1. handlers' = [handlers EXCEPT ![h] = s]
    <3>1. handlers' = [handlers EXCEPT ![h].pc = "persist", ![h].adv = c]
      BY <1>5 DEF FinishSkipped
    <3> QED
      BY <3>1 DEF TypeOK
  <2>2. c \in Ids /\ c \in Nat
    BY <1>3, <1>5, ConstantTypes
  <2>3. s \in HandlerStates /\ s.pc = "persist" /\ s.adv = c /\ InPlace(h, s)
    BY <1>2, <2>2 DEF HandlerStates, Waits, InRule, InPlace
  <2>4. Head(s.todo) = R
    BY <2>3 DEF InPlace, Rule
  <2> HIDE DEF s
  <2> QED
    BY <1>5, <2>1, <2>3, <2>4 DEF Moves, Goes, InRule
<1> QED
  BY <1>4, <1>5

LEMMA FinishSkippedKept ==
  ASSUME IInv, NEW h \in Handlers, FinishSkipped(h)
  PROVE  TypeOK' /\ Kept
<1> USE DEF IInv
<1>1. /\ handlers[h].pc = "finish" /\ Finish(Rule(h), Grp(h))
      /\ UNCHANGED <<published, delivered, sent, records, dbCursor, album, queue, consumer, rejected>>
  BY DEF FinishSkipped, At, env
<1>2. handlers[h].groups # <<>> /\ handlers[h] \in HandlerStates
  BY <1>1, InRuleGroups DEF InRule, TypeOK
<1>3. PICK R \in Rules, grp \in Groups : R = Rule(h) /\ grp = Grp(h)
  BY <1>2, InHandType
<1>4. PICK c : c = Captured(R, grp)
  OBVIOUS
<1>5. /\ ToSet(grp) \in SUBSET Ids
      /\ trackers'[R] = TerminalAll(trackers[R], ToSet(grp))
      /\ ended'[R] = ended[R] \cup Above(trackers[R], ToSet(grp))
      /\ settled'[R] = settled[R] \cup ToSet(grp)
      /\ \A p \in Rules \ {R} : UNCHANGED <<trackers[p], ended[p], settled[p]>>
      /\ c \in {0} \cup Ids
      /\ c = 0 => ~ Moved(trackers[R], ToSet(grp))
      /\ c # 0 => Moved(trackers[R], ToSet(grp)) /\ c = trackers'[R].cursor
      /\ trackers' \in [Rules -> Trackers(Ids)]
      /\ ended' \in [Rules -> SUBSET Ids] /\ settled' \in [Rules -> SUBSET Ids]
      /\ UNCHANGED <<start, unwritten, aside, overtaken>>
      /\ trackers[R].unresolved \subseteq trackers'[R].unresolved \cup ToSet(grp)
  BY <1>1, <1>3, <1>4, FinishFacts
<1>6. PICK s : /\ Moves(h, s) /\ Goes(h, s) /\ s.pc # "finish"
               /\ c = 0 => s.pc # "persist"
               /\ c # 0 => s.pc = "persist" /\ s.adv = c /\ Head(s.todo) = R
  BY <1>1, <1>3, <1>4, FinishSkippedMoves
<1>7. ASSUME NEW r \in Rules PROVE WatermarkStep(r)
  <2>1. PendingWrites(r)' = PendingWrites(r) \cup (IF c # 0 /\ R = r THEN {c} ELSE {})
    <3>1. CASE c = 0
      BY <1>1, <1>6, <3>1, PendingHandler
    <3>2. CASE c # 0
      BY <1>1, <1>6, <3>2, PendingHandler
    <3> QED
      BY <3>1, <3>2
  <2>2. CASE r = R
    <3>1. Finishes(r, ToSet(grp))
      BY <1>1, <1>5, <2>1, <2>2 DEF Finishes
    <3> QED
      BY <1>5, <3>1 DEF WatermarkStep
  <2>3. CASE r # R
    BY <1>1, <1>5, <2>1, <2>3 DEF WatermarkStep, Rests
  <2> QED
    BY <2>2, <2>3
<1>8. TypeOK'
  BY <1>1, <1>5, <1>6 DEF TypeOK, Moves
<1>9. CauseGrows /\ CoverGrows
  BY <1>1, <1>5 DEF CauseGrows, CoverGrows
<1>10. CauseInv'
  <2>1. SkipCause(R, grp)
    BY <1>1, <1>3 DEF CauseInv, SkipHasCause, SkipCause, At
  <2>2. ASSUME NEW r \in Rules, NEW m \in settled'[r] PROVE m \in settled[r] \/ HasCause(r, m)'
    <3>1. CASE r = R /\ m \in ToSet(grp)
      <4>1. HasCause(r, m)
        BY <2>1, <3>1, SkipCauses DEF CauseInv
      <4> QED
        BY <1>5, <1>9, <3>1, <4>1, HasCauseStays
    <3> QED
      BY <1>5, <3>1
  <2>3. TerminalHasCause'
    BY <1>9, <2>2, TerminalStays DEF CauseInv
  <2>4. SkipHasCause'
    BY <1>1, <1>6, SkipStays DEF CauseInv
  <2>5. RecordsTrue' /\ ConsumerTrue'
    BY <1>1 DEF CauseInv, RecordsTrue, ConsumerTrue, ConsumerAt, Task
  <2> QED
    BY <2>3, <2>4, <2>5 DEF CauseInv
<1>11. Accounted' /\ GroupsCovered'
  BY <1>1, <1>6, <1>9, RuleFrame DEF InRule
<1> QED
  BY <1>7, <1>8, <1>10, <1>11 DEF Kept

\* AdvanceCursor for rule r, from a pending write.
LEMMA PersistFacts ==
  ASSUME TypeOK, NEW R \in Rules, NEW c \in Ids, Persist(R, c), c \in PendingWrites(R),
         \A r \in Rules : \/ UNCHANGED PendingWrites(r)
                          \/ r = R /\ PendingWrites(r)' = PendingWrites(r) \ {c},
         UNCHANGED <<trackers, start, ended>>
  PROVE  (\A r \in Rules : WatermarkStep(r)) /\ dbCursor' \in [Rules -> Nat]
<1>1. \/ dbCursor' = [dbCursor EXCEPT ![R] = Max({@, c})]
      \/ UNCHANGED dbCursor
  BY DEF Persist
<1>2. dbCursor \in [Rules -> Nat] /\ c \in Nat
  BY ConstantTypes DEF TypeOK
<1>3. /\ dbCursor'[R] = Max({dbCursor[R], c}) \/ UNCHANGED dbCursor[R]
      /\ \A r \in Rules \ {R} : UNCHANGED dbCursor[r]
  BY <1>1, <1>2
<1>4. Max({dbCursor[R], c}) \in Nat
  BY <1>2, MaxOfPair
<1>5. dbCursor' \in [Rules -> Nat]
  BY <1>1, <1>2, <1>4
<1>6. Persists(R, c)
  BY <1>3 DEF Persists
<1>7. \A r \in Rules \ {R} : Rests(r)
  BY <1>3 DEF Rests
<1> QED
  BY <1>5, <1>6, <1>7 DEF WatermarkStep

LEMMA PersistSkippedKept ==
  ASSUME IInv, NEW h \in Handlers, PersistSkipped(h)
  PROVE  TypeOK' /\ Kept
<1> USE DEF IInv
<1>1. /\ handlers[h].pc = "persist" /\ Persist(Rule(h), handlers[h].adv) /\ RuleDone(h)
      /\ UNCHANGED <<published, delivered, sent, records, trackers, album, queue, consumer,
                     start, ended, settled, rejected, unwritten, aside, overtaken>>
  BY DEF PersistSkipped, At, env, history, ends
<1>2. handlers[h].groups # <<>> /\ handlers[h].adv \in Ids
  BY <1>1, InRuleGroups, HandlerType DEF InRule, TypeOK
<1>3. PICK R \in Rules, c \in Ids : R = Rule(h) /\ c = handlers[h].adv
  BY <1>2, InHandType
<1>4. PICK s : Moves(h, s) /\ (OneRuleLess(h, s) \/ OneGroupLess(h, s))
  BY <1>1, <1>2, RuleDoneMoves
<1>5. s.pc \notin InRule /\ s.pc # "persist"
  BY <1>4 DEF OneRuleLess, OneGroupLess, InRule
<1>6. \A r \in Rules : \/ UNCHANGED PendingWrites(r)
                       \/ r = R /\ PendingWrites(r)' = PendingWrites(r) \ {c}
  BY <1>1, <1>3, <1>4, <1>5, PendingHandler
<1>7. c \in PendingWrites(R)
  BY <1>1, <1>3, PendingMember DEF Rule
<1>8. (\A r \in Rules : WatermarkStep(r)) /\ dbCursor' \in [Rules -> Nat]
  BY <1>1, <1>3, <1>6, <1>7, PersistFacts
<1>9. \A r \in Rules : dbCursor'[r] \in 0 .. MaxId
  BY <1>8, KeptSound
<1>10. TypeOK'
  BY <1>1, <1>4, <1>8, <1>9 DEF TypeOK, Moves
<1>11. CauseGrows /\ CoverGrows
  BY <1>1 DEF CauseGrows, CoverGrows
<1>12. CauseInv'
  <2>1. SkipHasCause'
    BY <1>1, <1>4, <1>5, SkipStays DEF CauseInv, InRule
  <2>2. TerminalHasCause' /\ RecordsTrue' /\ ConsumerTrue'
    BY <1>1, <1>11, TerminalStays DEF CauseInv, RecordsTrue, ConsumerTrue, ConsumerAt, Task
  <2> QED
    BY <2>1, <2>2 DEF CauseInv
<1>13. Accounted' /\ GroupsCovered'
  BY <1>1, <1>4, <1>11, RuleFrame DEF InRule, Goes
<1> QED
  BY <1>8, <1>10, <1>12, <1>13 DEF Kept
-----------------------------------------------------------------------------
(* The steps of the consumer. *)

LEMMA ConsumerType ==
  ASSUME TypeOK, consumer.pc # "idle"
  PROVE  /\ consumer.pc \in {"send", "record", "finish", "persist"}
         /\ Task \in Tasks /\ Task.rule \in Rules /\ Task.msgs \in Groups
         /\ consumer.tries \in Nat /\ consumer.adv \in Nat
         /\ consumer.left \in Seq(Ids) /\ ToSet(consumer.left) \subseteq ToSet(Task.msgs)
         /\ consumer.pc = "persist" => consumer.adv \in Ids
BY DEF TypeOK, ConsumerStates, IdleConsumer, Task, Tasks

\* A consumer with a task at another step, or with other members left.
LEMMA ConsumerEdits ==
  ASSUME NEW s \in ConsumerStates, s.pc # "idle"
  PROVE  /\ \A p \in {"record", "finish"} :
              LET d == [s EXCEPT !.pc = p]
              IN  d \in ConsumerStates /\ d.pc = p /\ d.task = s.task
         /\ LET d == [s EXCEPT !.tries = @ + 1]
            IN  d \in ConsumerStates /\ d.pc = s.pc
         /\ \A q \in Seq(Ids) : ToSet(q) \subseteq ToSet(s.task.msgs) =>
              LET d == [s EXCEPT !.left = q]
              IN  d \in ConsumerStates /\ d.pc = s.pc /\ d.task = s.task
         /\ \A c \in Ids :
              LET d == [s EXCEPT !.pc = "persist", !.adv = c]
              IN  d \in ConsumerStates /\ d.pc = "persist" /\ d.task = s.task /\ d.adv = c
<1>1. /\ s \in [pc : {"send", "record", "finish", "persist"}, task : Tasks, tries : Nat,
                left : Seq(Ids), adv : Nat]
      /\ ToSet(s.left) \subseteq ToSet(s.task.msgs)
      /\ s.pc = "persist" => s.adv \in Ids
  BY DEF ConsumerStates, IdleConsumer
<1>2. ASSUME NEW p \in {"record", "finish"}
      PROVE  LET d == [s EXCEPT !.pc = p]
             IN  d \in ConsumerStates /\ d.pc = p /\ d.task = s.task
  BY <1>1 DEF ConsumerStates
<1>3. LET d == [s EXCEPT !.tries = @ + 1]
      IN  d \in ConsumerStates /\ d.pc = s.pc
  BY <1>1 DEF ConsumerStates
<1>4. ASSUME NEW q \in Seq(Ids), ToSet(q) \subseteq ToSet(s.task.msgs)
      PROVE  LET d == [s EXCEPT !.left = q]
             IN  d \in ConsumerStates /\ d.pc = s.pc /\ d.task = s.task
  BY <1>1, <1>4 DEF ConsumerStates
<1>5. ASSUME NEW c \in Ids
      PROVE  LET d == [s EXCEPT !.pc = "persist", !.adv = c]
             IN  d \in ConsumerStates /\ d.pc = "persist" /\ d.task = s.task /\ d.adv = c
  <2>1. c \in Nat
    BY ConstantTypes
  <2> QED
    BY <1>1, <2>1 DEF ConsumerStates
<1> QED
  BY <1>2, <1>3, <1>4, <1>5

LEMMA IdleConsumerState == IdleConsumer \in ConsumerStates /\ IdleConsumer.pc = "idle"
BY DEF ConsumerStates, IdleConsumer

LEMMA ConsumerFrame ==
  ASSUME IInv, CoverGrows, UNCHANGED <<published, delivered, album, handlers>>
  PROVE  Accounted' /\ GroupsCovered'
BY AccountedRests, GroupsRest DEF IInv

\* The steps before the bookkeeping: the trackers and the cursors rest.
LEMMA ConsumerStill ==
  ASSUME IInv, consumer.pc # "persist", consumer'.pc # "persist",
         UNCHANGED <<published, delivered, dbCursor, trackers, album, handlers, start, ended,
                     settled, unwritten, aside, overtaken>>,
         consumer' \in ConsumerStates, queue' \in Seq(Tasks), sent' \in [Targets -> [Ids -> Nat]],
         \A x \in records' : x.msg \in Ids /\ x.target \in Targets,
         rejected' \in [Rules -> SUBSET Ids],
         CauseGrows, RecordsTrue', ConsumerTrue'
  PROVE  TypeOK' /\ Kept
<1> USE DEF IInv
<1>1. TypeOK'
  BY DEF TypeOK
<1>2. ASSUME NEW r \in Rules PROVE WatermarkStep(r)
  <2>1. UNCHANGED PendingWrites(r)
    BY PendingConsumer
  <2> QED
    BY <2>1 DEF WatermarkStep, Rests
<1>3. CoverGrows
  BY DEF CoverGrows
<1>4. CauseInv'
  <2>1. TerminalHasCause'
    BY TerminalStays DEF CauseInv
  <2>2. SkipHasCause'
    BY SkipRests DEF CauseInv, CauseGrows
  <2> QED
    BY <2>1, <2>2 DEF CauseInv
<1> QED
  BY <1>1, <1>2, <1>3, <1>4, ConsumerFrame DEF Kept

LEMMA TakeKept ==
  ASSUME IInv, Take
  PROVE  TypeOK' /\ Kept
<1> USE DEF IInv
<1>1. PICK task \in Tasks : task = Head(queue) /\ Tail(queue) \in Seq(Tasks)
  BY HeadTail DEF Take, TypeOK
<1>2. /\ consumer.pc = "idle" /\ queue' = Tail(queue)
      /\ consumer' = [pc |-> "send", task |-> task, tries |-> 0, left |-> task.msgs, adv |-> 0]
      /\ UNCHANGED <<published, delivered, sent, records, dbCursor, trackers, album, handlers, start,
                     ended, settled, rejected, unwritten, aside, overtaken>>
  BY <1>1 DEF Take, ConsumerAt, env, history, ends
<1>3. task.msgs \in Seq(Ids)
  BY GroupType DEF Tasks
<1>4. consumer' \in ConsumerStates
  BY <1>2, <1>3 DEF ConsumerStates
<1>5. CauseGrows /\ RecordsTrue' /\ ConsumerTrue'
  BY <1>2 DEF CauseGrows, CauseInv, RecordsTrue, ConsumerTrue, ConsumerAt
<1> QED
  BY <1>1, <1>2, <1>4, <1>5, ConsumerStill DEF TypeOK

LEMMA PostedFacts ==
  ASSUME TypeOK, consumer.pc = "send", Posted
  PROVE  /\ sent' \in [Targets -> [Ids -> Nat]]
         /\ \A t \in Targets : \A m \in Ids : sent'[t][m] >= sent[t][m]
         /\ \A m \in ToSet(Task.msgs) : sent'[Target[Task.rule]][m] > 0
<1>1. PICK R \in Rules, grp \in Groups : R = Task.rule /\ grp = Task.msgs
  BY ConsumerType
<1>2. PICK T \in Targets : T = Target[R]
  BY ConstantTypes
<1> DEFINE I(m) == {i \in DOMAIN grp : grp[i] = m}
<1>3. sent' = [sent EXCEPT ![T] = [m \in Ids |-> @[m] + Cardinality(I(m))]]
  BY <1>1, <1>2 DEF Posted
<1>4. sent \in [Targets -> [Ids -> Nat]]
  BY DEF TypeOK
<1>5. ASSUME NEW m
      PROVE  /\ Cardinality(I(m)) \in Nat
             /\ m \in ToSet(grp) => Cardinality(I(m)) > 0
  <2>1. IsFiniteSet(DOMAIN grp)
    <3>1. DOMAIN grp = 1 .. Len(grp) /\ Len(grp) \in Nat
      BY GroupType
    <3> QED
      BY <3>1, FS_Interval
  <2>2. IsFiniteSet(I(m))
    BY <2>1, FS_Subset
  <2>3. Cardinality(I(m)) \in Nat
    BY <2>2, FS_CardinalityType
  <2>4. m \in ToSet(grp) => I(m) # {}
    BY DEF ToSet
  <2> HIDE DEF I
  <2> QED
    BY <2>2, <2>3, <2>4, FS_EmptySet
<1> HIDE DEF I
<1>6. /\ sent'[T] = [m \in Ids |-> sent[T][m] + Cardinality(I(m))]
      /\ \A t \in Targets \ {T} : sent'[t] = sent[t]
  BY <1>3, <1>4
<1>7. \A m \in Ids : /\ sent[T][m] \in Nat /\ sent'[T][m] \in Nat /\ sent'[T][m] >= sent[T][m]
                     /\ m \in ToSet(grp) => sent'[T][m] > 0
  BY <1>4, <1>5, <1>6
<1>8. sent' \in [Targets -> [Ids -> Nat]]
  BY <1>3, <1>4, <1>5
<1>9. \A t \in Targets : \A m \in Ids : sent'[t][m] >= sent[t][m]
  BY <1>4, <1>6, <1>7
<1>10. ToSet(grp) \subseteq Ids
  BY GroupType
<1> QED
  BY <1>1, <1>2, <1>7, <1>8, <1>9, <1>10

LEMMA SendOKKept ==
  ASSUME IInv, SendOK
  PROVE  TypeOK' /\ Kept
<1> USE DEF IInv
<1>1. /\ consumer.pc = "send" /\ Posted /\ consumer' = [consumer EXCEPT !.pc = "record"]
      /\ UNCHANGED <<published, delivered, records, dbCursor, trackers, album, queue, handlers, start,
                     ended, settled, rejected, unwritten, aside, overtaken>>
  BY DEF SendOK, ConsumerAt, env, history, ends
<1>2. /\ sent' \in [Targets -> [Ids -> Nat]]
      /\ \A t \in Targets : \A m \in Ids : sent'[t][m] >= sent[t][m] /\ sent[t][m] \in Nat
      /\ \A m \in ToSet(Task.msgs) : sent'[Target[Task.rule]][m] > 0
  BY <1>1, PostedFacts DEF TypeOK
<1>3. /\ consumer' \in ConsumerStates /\ consumer'.pc = "record" /\ consumer'.task = Task
  BY <1>1, ConsumerEdits DEF TypeOK, Task
<1>4. \A t \in Targets : \A m \in Ids : sent[t][m] > 0 => sent'[t][m] > 0
  BY <1>2
<1>5. CauseGrows
  BY <1>1, <1>4 DEF CauseGrows
<1>6. RecordsTrue'
  BY <1>1, <1>4 DEF RecordsTrue, CauseInv, TypeOK
<1>7. ConsumerTrue'
  BY <1>2, <1>3 DEF ConsumerTrue, ConsumerAt, Task
<1> QED
  BY <1>1, <1>2, <1>3, <1>5, <1>6, <1>7, ConsumerStill DEF TypeOK

LEMMA SendFailsKept ==
  ASSUME IInv, SendFails
  PROVE  TypeOK' /\ Kept
<1> USE DEF IInv
<1>1. /\ consumer.pc = "send" /\ (Posted \/ UNCHANGED sent)
      /\ \/ consumer' = [consumer EXCEPT !.tries = @ + 1]
         \/ consumer' = IdleConsumer
      /\ UNCHANGED <<published, delivered, records, dbCursor, trackers, album, queue, handlers, start,
                     ended, settled, rejected, unwritten, aside, overtaken>>
  BY DEF SendFails, ConsumerAt, Settle, env, history, ends
<1>2. /\ sent' \in [Targets -> [Ids -> Nat]]
      /\ \A t \in Targets : \A m \in Ids : sent'[t][m] >= sent[t][m] /\ sent[t][m] \in Nat
  <2>1. CASE Posted
    BY <1>1, <2>1, PostedFacts DEF TypeOK
  <2>2. CASE UNCHANGED sent
    <3>1. \A t \in Targets : \A m \in Ids : sent[t][m] \in Nat
      BY DEF TypeOK
    <3> QED
      BY <2>2, <3>1 DEF TypeOK
  <2> QED
    BY <1>1, <2>1, <2>2
<1>3. consumer' \in ConsumerStates /\ consumer'.pc \in {"send", "idle"}
  <2>1. consumer \in ConsumerStates /\ consumer.pc # "idle"
    BY <1>1 DEF TypeOK
  <2>2. LET d == [consumer EXCEPT !.tries = @ + 1]
        IN  d \in ConsumerStates /\ d.pc = consumer.pc
    BY <2>1, ConsumerEdits
  <2> QED
    BY <1>1, <2>2, IdleConsumerState
<1>4. \A t \in Targets : \A m \in Ids : sent[t][m] > 0 => sent'[t][m] > 0
  BY <1>2
<1>5. CauseGrows
  BY <1>1, <1>4 DEF CauseGrows
<1>6. RecordsTrue'
  BY <1>1, <1>4 DEF RecordsTrue, CauseInv, TypeOK
<1>7. ConsumerTrue'
  BY <1>3 DEF ConsumerTrue, ConsumerAt
<1> QED
  BY <1>1, <1>2, <1>3, <1>5, <1>6, <1>7, ConsumerStill DEF TypeOK

LEMMA SendRejectedKept ==
  ASSUME IInv, SendRejected
  PROVE  TypeOK' /\ Kept
<1> USE DEF IInv
<1>1. /\ consumer.pc = "send" /\ consumer' = [consumer EXCEPT !.pc = "finish"]
      /\ rejected' = [rejected EXCEPT ![Task.rule] = @ \cup ToSet(Task.msgs)]
      /\ UNCHANGED <<published, delivered, sent, records, dbCursor, trackers, album, queue, handlers,
                     start, ended, settled, unwritten, aside, overtaken>>
  BY DEF SendRejected, ConsumerAt, env
<1>2. PICK R \in Rules, grp \in Groups : R = Task.rule /\ grp = Task.msgs
  BY <1>1, ConsumerType
<1>3. ToSet(grp) \in SUBSET Ids
  BY GroupType
<1>4. consumer' \in ConsumerStates /\ consumer'.pc = "finish" /\ consumer'.task = Task
  BY <1>1, ConsumerEdits DEF TypeOK, Task
<1>5. /\ rejected' \in [Rules -> SUBSET Ids]
      /\ rejected'[R] = rejected[R] \cup ToSet(grp)
      /\ \A r \in Rules : rejected[r] \subseteq rejected'[r]
  BY <1>1, <1>2, <1>3 DEF TypeOK
<1>6. CauseGrows /\ RecordsTrue'
  BY <1>1, <1>5 DEF CauseGrows, RecordsTrue, CauseInv
<1>7. ConsumerTrue'
  BY <1>2, <1>4, <1>5 DEF ConsumerTrue, ConsumerAt, Task
<1> QED
  BY <1>1, <1>4, <1>5, <1>6, <1>7, ConsumerStill DEF TypeOK

LEMMA RecordMemberKept ==
  ASSUME IInv, RecordMember
  PROVE  TypeOK' /\ Kept
<1> USE DEF IInv
<1>1. /\ consumer.pc = "record" /\ consumer.left # <<>>
      /\ Record(Head(consumer.left)) \/ UNCHANGED records
      /\ consumer' = [consumer EXCEPT !.left = Tail(@)]
      /\ UNCHANGED <<published, delivered, sent, dbCursor, trackers, album, queue, handlers, start,
                     ended, settled, rejected, unwritten, aside, overtaken>>
  BY DEF RecordMember, ConsumerAt, env, history, ends
<1>2. /\ Task.rule \in Rules /\ Task.msgs \in Groups /\ consumer.left \in Seq(Ids)
      /\ ToSet(consumer.left) \subseteq ToSet(Task.msgs)
  BY <1>1, ConsumerType
<1>3. PICK m \in Ids, tl \in Seq(Ids) :
        /\ m = Head(consumer.left) /\ tl = Tail(consumer.left)
        /\ m \in ToSet(Task.msgs) /\ ToSet(tl) \subseteq ToSet(Task.msgs)
  <2>1. PICK q \in Seq(Ids) : q = consumer.left
    BY <1>2
  <2>2. Head(q) \in Ids /\ Tail(q) \in Seq(Ids) /\ ToSet(q) = {Head(q)} \cup ToSet(Tail(q))
    BY <1>1, <2>1, HeadTail
  <2> QED
    BY <1>2, <2>1, <2>2
<1>4. consumer' \in ConsumerStates /\ consumer'.pc = "record" /\ consumer'.task = Task
  <2>1. consumer' = [consumer EXCEPT !.left = tl]
    BY <1>1, <1>3
  <2> QED
    <3>1. consumer \in ConsumerStates /\ consumer.pc # "idle"
      BY <1>1 DEF TypeOK
    <3>2. LET d == [consumer EXCEPT !.left = tl]
          IN  d \in ConsumerStates /\ d.pc = consumer.pc /\ d.task = consumer.task
      BY ZenonT(60), <1>3, <3>1, ConsumerEdits DEF Task
    <3> QED
      BY <1>1, <2>1, <3>2 DEF Task
<1>5. PICK T \in Targets : T = Target[Task.rule] /\ sent[T][m] > 0
  BY <1>1, <1>2, <1>3, ConstantTypes DEF CauseInv, ConsumerTrue, ConsumerAt
<1>6. /\ records \subseteq records'
      /\ \A x \in records' : x \in records \/ (x.msg = m /\ x.target = T)
  BY <1>1, <1>3, <1>5 DEF Record
<1>7. \A x \in records' : x.msg \in Ids /\ x.target \in Targets
  BY <1>6 DEF TypeOK
<1>8. CauseGrows
  BY <1>1, <1>6 DEF CauseGrows
<1>9. RecordsTrue'
  BY <1>1, <1>5, <1>6 DEF CauseInv, RecordsTrue
<1>10. ConsumerTrue'
  BY <1>1, <1>4 DEF CauseInv, ConsumerTrue, ConsumerAt, Task
<1> QED
  BY <1>1, <1>4, <1>7, <1>8, <1>9, <1>10, ConsumerStill DEF TypeOK

LEMMA FinishSentKept ==
  ASSUME IInv, FinishSent
  PROVE  TypeOK' /\ Kept
<1> USE DEF IInv
<1>1. /\ consumer.pc = "finish" \/ consumer.pc = "record"
      /\ Finish(Task.rule, Task.msgs)
      /\ UNCHANGED <<published, delivered, sent, records, dbCursor, album, queue, handlers, rejected>>
  BY DEF FinishSent, ConsumerAt, env
<1>2. PICK R \in Rules, grp \in Groups : R = Task.rule /\ grp = Task.msgs
  BY <1>1, ConsumerType
<1>3. PICK c : c = Captured(R, grp)
  OBVIOUS
<1>4. /\ ToSet(grp) \in SUBSET Ids
      /\ trackers'[R] = TerminalAll(trackers[R], ToSet(grp))
      /\ ended'[R] = ended[R] \cup Above(trackers[R], ToSet(grp))
      /\ settled'[R] = settled[R] \cup ToSet(grp)
      /\ \A p \in Rules \ {R} : UNCHANGED <<trackers[p], ended[p], settled[p]>>
      /\ c \in {0} \cup Ids
      /\ c = 0 => ~ Moved(trackers[R], ToSet(grp))
      /\ c # 0 => Moved(trackers[R], ToSet(grp)) /\ c = trackers'[R].cursor
      /\ trackers' \in [Rules -> Trackers(Ids)]
      /\ ended' \in [Rules -> SUBSET Ids] /\ settled' \in [Rules -> SUBSET Ids]
      /\ UNCHANGED <<start, unwritten, aside, overtaken>>
      /\ trackers[R].unresolved \subseteq trackers'[R].unresolved \cup ToSet(grp)
  BY <1>1, <1>2, <1>3, FinishFacts
<1>5. /\ consumer' \in ConsumerStates
      /\ c = 0 => consumer'.pc = "idle"
      /\ c # 0 => consumer'.pc = "persist" /\ consumer'.adv = c /\ consumer'.task = Task
  <2>1. CASE c = 0
    <3>1. consumer' = IdleConsumer
      BY <1>2, <1>3, <2>1 DEF FinishSent, Settle
    <3> QED
      BY <2>1, <3>1, IdleConsumerState
  <2>2. CASE c # 0
    <3>1. consumer' = [consumer EXCEPT !.pc = "persist", !.adv = c]
      BY <1>2, <1>3, <2>2 DEF FinishSent
    <3>2. consumer \in ConsumerStates /\ consumer.pc # "idle" /\ c \in Ids
      BY <1>1, <1>4, <2>2 DEF TypeOK
    <3>3. LET d == [consumer EXCEPT !.pc = "persist", !.adv = c]
          IN  d \in ConsumerStates /\ d.pc = "persist" /\ d.task = consumer.task /\ d.adv = c
      BY <3>2, ConsumerEdits
    <3> QED
      BY <2>2, <3>1, <3>3 DEF Task
  <2> QED
    BY <2>1, <2>2
<1>6. ASSUME NEW r \in Rules PROVE WatermarkStep(r)
  <2>1. PendingWrites(r)' = PendingWrites(r) \cup (IF c # 0 /\ R = r THEN {c} ELSE {})
    <3>1. CASE c = 0
      BY <1>1, <1>5, <3>1, PendingConsumer
    <3>2. CASE c # 0
      BY <1>1, <1>2, <1>5, <3>2, PendingConsumer
    <3> QED
      BY <3>1, <3>2
  <2>2. CASE r = R
    <3>1. Finishes(r, ToSet(grp))
      BY <1>1, <1>4, <2>1, <2>2 DEF Finishes
    <3> QED
      BY <1>4, <3>1 DEF WatermarkStep
  <2>3. CASE r # R
    BY <1>1, <1>4, <2>1, <2>3 DEF WatermarkStep, Rests
  <2> QED
    BY <2>2, <2>3
<1>7. TypeOK'
  BY <1>1, <1>4, <1>5 DEF TypeOK
<1>8. CauseGrows /\ CoverGrows
  BY <1>1, <1>4 DEF CauseGrows, CoverGrows
<1>9. CauseInv'
  <2>1. ASSUME NEW m \in ToSet(grp) PROVE HasCause(R, m)
    BY <1>1, <1>2 DEF CauseInv, ConsumerTrue, ConsumerAt, HasCause
  <2>2. ASSUME NEW r \in Rules, NEW m \in settled'[r] PROVE m \in settled[r] \/ HasCause(r, m)'
    BY <1>4, <1>8, <2>1, HasCauseStays
  <2>3. TerminalHasCause'
    BY <1>8, <2>2, TerminalStays DEF CauseInv
  <2>4. SkipHasCause'
    BY <1>1, SkipRests DEF CauseInv
  <2>5. RecordsTrue' /\ ConsumerTrue'
    BY <1>1, <1>5 DEF CauseInv, RecordsTrue, ConsumerTrue, ConsumerAt
  <2> QED
    BY <2>3, <2>4, <2>5 DEF CauseInv
<1> QED
  BY <1>1, <1>6, <1>7, <1>8, <1>9, ConsumerFrame DEF Kept

LEMMA PersistSentKept ==
  ASSUME IInv, PersistSent
  PROVE  TypeOK' /\ Kept
<1> USE DEF IInv
<1>1. /\ consumer.pc = "persist" /\ Persist(Task.rule, consumer.adv) /\ consumer' = IdleConsumer
      /\ UNCHANGED <<published, delivered, sent, records, trackers, album, queue, handlers,
                     start, ended, settled, rejected, unwritten, aside, overtaken>>
  BY DEF PersistSent, ConsumerAt, Settle, env, history, ends
<1>2. PICK R \in Rules, c \in Ids : R = Task.rule /\ c = consumer.adv
  BY <1>1, ConsumerType
<1>3. consumer' \in ConsumerStates /\ consumer'.pc = "idle"
  BY <1>1, IdleConsumerState
<1>4. \A r \in Rules : \/ UNCHANGED PendingWrites(r)
                       \/ r = R /\ PendingWrites(r)' = PendingWrites(r) \ {c}
  BY <1>1, <1>2, <1>3, PendingConsumer
<1>5. c \in PendingWrites(R)
  BY <1>1, <1>2, PendingMember DEF Task
<1>6. (\A r \in Rules : WatermarkStep(r)) /\ dbCursor' \in [Rules -> Nat]
  BY <1>1, <1>2, <1>4, <1>5, PersistFacts
<1>7. \A r \in Rules : dbCursor'[r] \in 0 .. MaxId
  BY <1>6, KeptSound
<1>8. TypeOK'
  BY <1>1, <1>3, <1>6, <1>7 DEF TypeOK
<1>9. CauseGrows /\ CoverGrows
  BY <1>1 DEF CauseGrows, CoverGrows
<1>10. CauseInv'
  BY <1>1, <1>3, <1>9, TerminalStays, SkipRests
     DEF CauseInv, RecordsTrue, ConsumerTrue, ConsumerAt
<1> QED
  BY <1>1, <1>6, <1>8, <1>9, <1>10, ConsumerFrame DEF Kept
-----------------------------------------------------------------------------
(* The process, and the theorems. *)

LEMMA ProcessEndsKept ==
  ASSUME IInv, Crash \/ Shutdown
  PROVE  TypeOK' /\ Kept
<1> USE DEF IInv
<1>1. /\ UNCHANGED <<published, records, dbCursor, settled, rejected, unwritten, overtaken>>
      /\ aside' = aside \cup {m \in 1 .. delivered' : \E r \in Rules : m \notin settled[r]}
      /\ trackers' = NewTrackers(dbCursor) /\ album' = NoAlbum /\ queue' = <<>>
      /\ handlers' = AllIdle /\ consumer' = IdleConsumer
      /\ start' = dbCursor /\ ended' = NoIds
      /\ Redelivered \/ UNCHANGED delivered
  BY DEF Crash, Shutdown, ProcessEnds
<1>2. /\ sent' \in [Targets -> [Ids -> Nat]]
      /\ \A t \in Targets : \A m \in Ids : sent'[t][m] >= sent[t][m] /\ sent[t][m] \in Nat
  <2>1. CASE consumer.pc = "send" /\ Posted
    BY <2>1, PostedFacts DEF TypeOK
  <2>2. CASE UNCHANGED sent
    <3>1. \A t \in Targets : \A m \in Ids : sent[t][m] \in Nat
      BY DEF TypeOK
    <3> QED
      BY <2>2, <3>1 DEF TypeOK
  <2> QED
    BY <2>1, <2>2 DEF Crash, Shutdown, ConsumerAt
<1>3. delivered' \in 0 .. published /\ published <= MaxId /\ published \in Nat
  <2>1. "live" \in Handlers
    BY DEF Handlers
  <2>2. handlers["live"].batch \in Nat /\ handlers["live"].batch <= delivered
    BY <2>1, HandlerType DEF TypeOK, BatchSound
  <2> QED
    BY <1>1, <2>2, ConstantTypes DEF Redelivered, TypeOK
<1>4. \A h \in Handlers : handlers'[h] = Idle
  BY <1>1 DEF AllIdle
<1>5. /\ Idle.pc = "idle" /\ Idle.groups = <<>> /\ Idle \in HandlerStates
      /\ IdleConsumer.pc = "idle" /\ IdleConsumer \in ConsumerStates
  BY IdleState, IdleConsumerState DEF Idle
<1>6. ASSUME NEW r \in Rules PROVE Restarts(r)
  <2>1. PendingWrites(r)' = {}
    <3>1. \A c : c \notin PendingWrites(r)'
      BY <1>1, <1>4, <1>5, PendingMember
    <3> QED
      BY <3>1
  <2>2. trackers'[r] = newCursorTracker(dbCursor[r]) /\ ended'[r] = {}
    BY <1>1 DEF NewTrackers, NoIds
  <2> QED
    BY <1>1, <2>1, <2>2 DEF Restarts
<1>7. \A r \in Rules : WatermarkStep(r)
  BY <1>6 DEF WatermarkStep
<1>8. TypeOK'
  <2>1. \A r \in Rules : trackers'[r] \in Trackers(Ids)
    BY <1>7, KeptSound
  <2>2. trackers' \in [Rules -> Trackers(Ids)]
    BY <1>1, <2>1 DEF NewTrackers
  <2>3. aside' \subseteq Ids
    BY <1>1, <1>3, ConstantTypes DEF TypeOK, Ids
  <2>4. handlers' \in [Handlers -> HandlerStates]
    BY <1>1, <1>5 DEF AllIdle
  <2>5. /\ album' \in [Albums -> Seq(Ids)] /\ \A g \in Albums : album'[g] = <<>>
        /\ queue' \in Seq(Tasks)
    BY <1>1, NoElement DEF NoAlbum
  <2>6. \A g \in Albums : \A i \in DOMAIN album'[g] : GroupedID[album'[g][i]] = g
    BY <2>5, NoElement
  <2>7. ended' \in [Rules -> SUBSET Ids]
    BY <1>1 DEF NoIds
  <2> QED
    BY <1>1, <1>2, <1>3, <1>5, <2>2, <2>3, <2>4, <2>5, <2>6, <2>7 DEF TypeOK
<1>9. \A t \in Targets : \A m \in Ids : sent[t][m] > 0 => sent'[t][m] > 0
  BY <1>2
<1>10. CauseGrows
  BY <1>1, <1>9 DEF CauseGrows
<1>11. CauseInv'
  <2>1. TerminalHasCause'
    BY <1>1, <1>10, TerminalStays DEF CauseInv
  <2>2. SkipHasCause'
    BY <1>4, <1>5 DEF SkipHasCause, At
  <2>3. RecordsTrue'
    BY <1>1, <1>9 DEF CauseInv, RecordsTrue, TypeOK
  <2>4. ConsumerTrue'
    BY <1>1, <1>5 DEF ConsumerTrue, ConsumerAt
  <2> QED
    BY <2>1, <2>2, <2>3, <2>4 DEF CauseInv
<1>12. Accounted'
  <2>1. ASSUME NEW r \in Rules, NEW m \in 1 .. published PROVE Covered(r, m)' \/ InHand(m)'
    <3>1. CASE m > delivered'
      BY <3>1 DEF InHand
    <3>2. CASE ~ (m > delivered') /\ m \in settled[r]
      BY <1>1, <3>2 DEF Covered
    <3>3. CASE ~ (m > delivered') /\ m \notin settled[r]
      <4>1. m \in 1 .. delivered'
        BY <1>3, <3>3
      <4>2. m \in aside'
        BY <1>1, <3>3, <4>1
      <4> QED
        BY <4>2 DEF Covered
    <3> QED
      BY <3>1, <3>2, <3>3
  <2> QED
    BY <1>1, <2>1 DEF Accounted
<1>13. GroupsCovered'
  BY <1>4, <1>5 DEF GroupsCovered
<1> QED
  BY <1>7, <1>8, <1>11, <1>12, <1>13 DEF Kept

LEMMA InitIInv == Init => IInv
<1> SUFFICES ASSUME Init PROVE IInv
  OBVIOUS
<1>1. /\ published = 0 /\ delivered = 0 /\ records = {} /\ queue = <<>>
      /\ sent = [t \in Targets |-> [m \in Ids |-> 0]]
      /\ dbCursor = [r \in Rules |-> 0] /\ start = dbCursor
      /\ trackers = [r \in Rules |-> newCursorTracker(0)]
      /\ album = [g \in Albums |-> <<>>]
      /\ handlers = [h \in Handlers |-> Idle] /\ consumer = IdleConsumer
      /\ ended = [r \in Rules |-> {}] /\ settled = [r \in Rules |-> {}]
      /\ rejected = [r \in Rules |-> {}] /\ overtaken = [r \in Rules |-> {}]
      /\ unwritten = {} /\ aside = {}
  BY DEF Init, NewTrackers, NoAlbum, AllIdle, NoIds
<1>2. /\ Idle.pc = "idle" /\ Idle.groups = <<>> /\ Idle \in HandlerStates
      /\ IdleConsumer.pc = "idle" /\ IdleConsumer \in ConsumerStates
  BY IdleState, IdleConsumerState DEF Idle
<1>3. TypeOK
  <2>1. MaxId \in Nat /\ \A r \in Rules : newCursorTracker(0) \in Trackers(Ids)
    BY ConstantTypes DEF newCursorTracker, Trackers
  <2>2. /\ album \in [Albums -> Seq(Ids)] /\ queue \in Seq(Tasks)
        /\ \A g \in Albums : \A i \in DOMAIN album[g] : GroupedID[album[g][i]] = g
    BY <1>1, NoElement
  <2>3. /\ sent \in [Targets -> [Ids -> Nat]] /\ dbCursor \in [Rules -> Nat]
        /\ \A r \in Rules : dbCursor[r] <= MaxId
        /\ trackers \in [Rules -> Trackers(Ids)]
        /\ handlers \in [Handlers -> HandlerStates] /\ start \in [Rules -> Nat]
        /\ ended \in [Rules -> SUBSET Ids] /\ settled \in [Rules -> SUBSET Ids]
        /\ rejected \in [Rules -> SUBSET Ids] /\ overtaken \in [Rules -> SUBSET Ids]
    BY <1>1, <1>2, <2>1
  <2> QED
    BY <1>1, <1>2, <2>1, <2>2, <2>3 DEF TypeOK
<1>4. TrackersSound
  <2>1. \A r \in Rules : \A c : c \notin PendingWrites(r)
    BY <1>1, <1>2, PendingMember
  <2> QED
    BY <1>1, <2>1 DEF TrackersSound, Sound, Behind, newCursorTracker
<1>5. CauseInv
  BY <1>1, <1>2
     DEF CauseInv, RecordsTrue, SkipHasCause, ConsumerTrue, TerminalHasCause, At, ConsumerAt
<1>6. Accounted /\ GroupsCovered
  BY <1>1, <1>2 DEF Accounted, GroupsCovered
<1>7. BatchSound
  BY <1>1 DEF BatchSound, Idle, Handlers
<1> QED
  BY <1>3, <1>4, <1>5, <1>6, <1>7 DEF IInv

LEMMA NextKept ==
  ASSUME IInv, Next
  PROVE  TypeOK' /\ Kept
<1>1. CASE \/ Publish \/ Deliver \/ ChannelGap \/ ChannelGapFails \/ FlushDue
           \/ BatchFails \/ WriteNewFails
  BY <1>1, PublishKept, DeliverKept, ChannelGapKept, ChannelGapFailsKept, FlushDueKept,
     BatchFailsKept, WriteNewFailsKept
<1>2. ASSUME NEW h \in Handlers, HandleNew(h) \/ ProcessRule(h) \/ CheckFails(h)
      PROVE  TypeOK' /\ Kept
  <2>1. CASE HandleNew(h)
    BY <2>1, HandleNewPausedKept, HandleNewSingleKept, HandleNewAlbumKept DEF HandleNew
  <2>2. CASE Observe(h) \/ Skip(h) \/ Pass(h) \/ FinishSkipped(h) \/ PersistSkipped(h) \/ Push(h)
    BY <2>2, ObserveKept, CheckKept, FinishSkippedKept, PersistSkippedKept, PushKept
  <2>3. CASE CountEnqueued(h) \/ CheckFails(h)
    BY <2>3, DoneKept
  <2> QED
    BY <1>2, <2>1, <2>2, <2>3 DEF ProcessRule
<1>3. ASSUME NEW b \in Backfillers,
             \/ \E r \in Rules : StartBackfill(b, r)
             \/ Drain(b) \/ BackfillFails(b) \/ PushCancelled(b)
      PROVE  TypeOK' /\ Kept
  <2>1. b \in Handlers
    BY DEF Handlers
  <2>2. CASE \E r \in Rules : StartBackfill(b, r)
    BY <2>2, StartBackfillKept
  <2>3. CASE Drain(b)
    BY <2>3, FetchHistoryKept, DrainFlushKept, BackfillIdleKept, DrainAgainKept DEF Drain
  <2>4. CASE BackfillFails(b)
    BY <2>4, BackfillIdleKept
  <2>5. CASE PushCancelled(b)
    BY <2>1, <2>5, DoneKept
  <2> QED
    BY <1>3, <2>2, <2>3, <2>4, <2>5
<1>4. CASE Consume \/ SendFails \/ SendRejected
  BY <1>4, TakeKept, SendOKKept, RecordMemberKept, FinishSentKept, PersistSentKept,
     SendFailsKept, SendRejectedKept DEF Consume
<1>5. CASE Pause \/ Resume \/ Crash \/ Shutdown
  BY <1>5, PauseKept, ProcessEndsKept
<1> QED
  BY <1>1, <1>2, <1>3, <1>4, <1>5 DEF Next

\* Only Deliver starts a batch; every other step leaves it or ends it.
KeepsBatch ==
  /\ delivered' >= delivered
  /\ handlers'["live"].batch \in {0, handlers["live"].batch}

LEMMA DeliveredType ==
  ASSUME TypeOK PROVE delivered \in Nat
BY ConstantTypes DEF TypeOK

LEMMA BatchStays ==
  ASSUME TypeOK, Next, ~ Deliver, ~ Crash, ~ Shutdown
  PROVE  KeepsBatch
<1>1. /\ published \in Nat /\ delivered \in Nat /\ delivered <= published
      /\ "live" \in Handlers /\ "live" \in DOMAIN handlers /\ "live" # "loop"
      /\ handlers \in [Handlers -> HandlerStates]
  BY ConstantTypes DEF TypeOK, Handlers
<1>2. ASSUME NEW s \in HandlerStates, NEW gs, NEW fd PROVE Continue(s, gs, fd).batch \in {0, s.batch}
  BY DEF Continue, HandlerStates
<1>3. ASSUME NEW h \in Handlers, NEW t, handlers' = [handlers EXCEPT ![h] = t],
             t.batch \in {0, handlers[h].batch}
      PROVE  handlers'["live"].batch \in {0, handlers["live"].batch}
  BY <1>1, <1>3
<1>4. ASSUME NEW h \in Handlers, NEW fd, NEW th, Feed(h, fd, th, 0)
      PROVE  handlers'["live"].batch \in {0, handlers["live"].batch}
  <2> DEFINE s == [handlers[h] EXCEPT !.then = th, !.batch = 0]
  <2>1. s.batch = 0 /\ handlers' = [handlers EXCEPT ![h] = Continue(s, <<>>, fd)]
    BY <1>1, <1>4 DEF Feed, HandlerStates
  <2>2. Continue(s, <<>>, fd).batch = 0
    BY <1>1 DEF Continue, HandlerStates
  <2> QED
    BY <1>3, <2>1, <2>2
<1>5. ASSUME NEW h \in Handlers, NEW pc, Goto(h, pc)
      PROVE  handlers'["live"].batch \in {0, handlers["live"].batch}
  BY <1>1, <1>5 DEF Goto, HandlerStates
<1>6. ASSUME NEW h \in Handlers, NEW gs, HandOver(h, gs)
      PROVE  handlers'["live"].batch \in {0, handlers["live"].batch}
  <2>1. handlers' = [handlers EXCEPT ![h] = Continue(handlers[h], gs, Tail(handlers[h].feed))]
    BY <1>6 DEF HandOver
  <2> QED
    BY <1>1, <1>2, <1>3, <2>1
<1>7. ASSUME NEW h \in Handlers, NEW S, NEW th, FlushTo(h, S, th)
      PROVE  handlers'["live"].batch \in {0, handlers["live"].batch}
  <2>1. PICK gs : handlers' = [handlers EXCEPT ![h] = Continue([@ EXCEPT !.then = th], gs, <<>>)]
    BY <1>7 DEF FlushTo
  <2> DEFINE s == [handlers[h] EXCEPT !.then = th]
  <2>2. s.batch = handlers[h].batch /\ handlers' = [handlers EXCEPT ![h] = Continue(s, gs, <<>>)]
    BY <1>1, <2>1 DEF HandlerStates
  <2>3. Continue(s, gs, <<>>).batch \in {0, handlers[h].batch}
    BY <1>1, <2>2 DEF Continue, HandlerStates
  <2> QED
    BY <1>3, <2>2, <2>3
<1>8. ASSUME NEW h \in Handlers, RuleDone(h)
      PROVE  handlers'["live"].batch \in {0, handlers["live"].batch}
  <2> DEFINE t == handlers[h]
             u == [t EXCEPT !.todo = Tail(@), !.adv = 0, !.pc = "next"]
             v == Continue(t, Tail(t.groups), t.feed)
  <2>1. handlers' = [handlers EXCEPT ![h] = u] \/ handlers' = [handlers EXCEPT ![h] = v]
    BY <1>8 DEF RuleDone
  <2>2. u.batch = handlers[h].batch /\ v.batch \in {0, handlers[h].batch}
    BY <1>1, <1>2 DEF HandlerStates
  <2> QED
    BY <1>3, <2>1, <2>2
<1>9. ASSUME NEW h \in Handlers, handlers' = [handlers EXCEPT ![h] = Idle]
      PROVE  handlers'["live"].batch \in {0, handlers["live"].batch}
  BY <1>1, <1>9 DEF Idle
<1>10. CASE \/ Publish \/ ChannelGap \/ ChannelGapFails \/ FlushDue
            \/ BatchFails \/ WriteNewFails
  <2>1. CASE Publish \/ ChannelGapFails
    BY <1>1, <2>1 DEF Publish, ChannelGapFails, KeepsBatch
  <2>2. CASE ChannelGap
    <3>1. delivered' = published /\ \E fd : Feed("live", fd, "idle", 0)
      BY <2>2 DEF ChannelGap
    <3> QED
      BY <1>1, <1>4, <3>1 DEF KeepsBatch
  <2>3. CASE FlushDue
    <3>1. UNCHANGED delivered /\ \E S : FlushTo("loop", S, "idle")
      BY <2>3 DEF FlushDue, FlushTo, env
    <3> QED
      BY <1>1, <1>7, <3>1 DEF KeepsBatch, Handlers
  <2>4. CASE BatchFails
    <3>1. /\ UNCHANGED delivered
          /\ handlers' = [handlers EXCEPT !["live"] = Continue(handlers["live"], <<>>, <<>>)]
      BY <2>4 DEF BatchFails, env
    <3>2. Continue(handlers["live"], <<>>, <<>>).batch \in {0, handlers["live"].batch}
      BY <1>1, <1>2
    <3> QED
      BY <1>1, <1>3, <3>1, <3>2 DEF KeepsBatch
  <2>5. CASE WriteNewFails
    BY <1>1, <1>6, <2>5 DEF WriteNewFails, KeepsBatch, env
  <2> QED
    BY <1>10, <2>1, <2>2, <2>3, <2>4, <2>5
<1>11. ASSUME NEW h \in Handlers, HandleNew(h) \/ ProcessRule(h) \/ CheckFails(h)
       PROVE  KeepsBatch
  <2>1. CASE HandleNew(h)
    <3>1. UNCHANGED delivered /\ \E gs : HandOver(h, gs)
      BY <2>1 DEF HandleNew, HandleNewPaused, HandleNewSingle, HandleNewAlbum, env
    <3> QED
      BY <1>1, <1>6, <3>1 DEF KeepsBatch
  <2>2. CASE Observe(h) \/ Skip(h) \/ Pass(h) \/ Push(h)
    <3>1. UNCHANGED delivered /\ \E pc : Goto(h, pc)
      BY <2>2 DEF Observe, Skip, Pass, Push, env
    <3> QED
      BY <1>1, <1>5, <3>1 DEF KeepsBatch
  <2>3. CASE FinishSkipped(h)
    <3> DEFINE t == [handlers[h] EXCEPT !.pc = "persist", !.adv = Captured(Rule(h), Grp(h))]
    <3>1. UNCHANGED delivered /\ (RuleDone(h) \/ handlers' = [handlers EXCEPT ![h] = t])
      BY <2>3 DEF FinishSkipped, env
    <3>2. t.batch = handlers[h].batch
      BY <1>1 DEF HandlerStates
    <3> HIDE DEF t
    <3> QED
      BY <1>1, <1>3, <1>8, <3>1, <3>2 DEF KeepsBatch
  <2>4. CASE PersistSkipped(h) \/ CountEnqueued(h) \/ CheckFails(h)
    <3>1. UNCHANGED delivered /\ RuleDone(h)
      BY <2>4 DEF PersistSkipped, CountEnqueued, CheckFails, env
    <3> QED
      BY <1>1, <1>8, <3>1 DEF KeepsBatch
  <2> QED
    BY <1>11, <2>1, <2>2, <2>3, <2>4 DEF ProcessRule
<1>12. ASSUME NEW b \in Backfillers,
              \/ \E r \in Rules : StartBackfill(b, r)
              \/ Drain(b) \/ BackfillFails(b) \/ PushCancelled(b)
       PROVE  KeepsBatch
  <2>1. b \in Handlers
    BY DEF Handlers
  <2>2. CASE \E r \in Rules : StartBackfill(b, r)
    <3>1. PICK r \in Rules : StartBackfill(b, r)
      BY <2>2
    <3> DEFINE t == [handlers[b] EXCEPT !.pc = "fetch", !.adv = trackers[r].cursor]
    <3>2. UNCHANGED delivered /\ handlers' = [handlers EXCEPT ![b] = t]
      BY <1>1, <2>1, <3>1 DEF StartBackfill, env
    <3>3. t.batch = handlers[b].batch
      BY <1>1, <2>1 DEF HandlerStates
    <3> HIDE DEF t
    <3> QED
      BY <1>1, <1>3, <2>1, <3>2, <3>3 DEF KeepsBatch
  <2>3. CASE FetchHistory(b)
    <3>1. UNCHANGED delivered /\ \E fd : Feed(b, fd, "drain", 0)
      BY <2>3 DEF FetchHistory, env
    <3> QED
      BY <1>1, <1>4, <2>1, <3>1 DEF KeepsBatch
  <2>4. CASE DrainFlush(b)
    <3>1. FlushTo(b, Collected, "settle")
      BY <2>4 DEF DrainFlush
    <3>2. UNCHANGED delivered
      BY <3>1 DEF FlushTo, env
    <3> QED
      BY <1>1, <1>7, <2>1, <3>1, <3>2 DEF KeepsBatch
  <2>5. CASE DrainDone(b) \/ BackfillFails(b)
    BY <1>1, <1>9, <2>1, <2>5 DEF DrainDone, BackfillFails, env, KeepsBatch
  <2>6. CASE DrainAgain(b)
    BY <1>1, <1>5, <2>1, <2>6 DEF DrainAgain, env, KeepsBatch
  <2>7. CASE PushCancelled(b)
    BY <1>1, <1>8, <2>1, <2>7 DEF PushCancelled, env, KeepsBatch
  <2> QED
    BY <1>12, <2>2, <2>3, <2>4, <2>5, <2>6, <2>7 DEF Drain
<1>13. CASE Consume \/ SendFails \/ SendRejected \/ Pause \/ Resume
  <2>1. UNCHANGED <<delivered, handlers>>
    BY <1>13 DEF Consume, Take, SendOK, RecordMember, FinishSent, PersistSent, SendFails,
       SendRejected, Pause, Resume, env
  <2> QED
    BY <1>1, <2>1 DEF KeepsBatch
<1> QED
  BY <1>10, <1>11, <1>12, <1>13 DEF Next

LEMMA BatchStep ==
  ASSUME TypeOK, BatchSound, TypeOK', Next PROVE BatchSound'
<1>1. "live" \in Handlers /\ handlers["live"] \in HandlerStates /\ delivered \in Nat
  BY DeliveredType DEF Handlers, TypeOK
<1>2. handlers["live"].batch \in Nat
  BY <1>1, HandlerType
<1>3. CASE Crash \/ Shutdown
  <2>1. handlers'["live"].batch = 0
    BY <1>1, <1>3 DEF Crash, Shutdown, ProcessEnds, AllIdle, Idle
  <2>2. delivered' >= 0
    BY ConstantTypes DEF TypeOK
  <2> QED
    BY <2>1, <2>2 DEF BatchSound
<1>4. CASE Deliver
  <2>1. PICK n \in Nat, fd \in Seq(Ids) :
               /\ n > delivered /\ delivered' = n /\ Feed("live", fd, "idle", n - delivered)
    BY <1>4, DeliverFacts
  <2> DEFINE s == [handlers["live"] EXCEPT !.then = "idle", !.batch = n - delivered]
             c == Continue(s, <<>>, fd)
  <2>2. handlers' = [handlers EXCEPT !["live"] = c]
    BY <2>1 DEF Feed
  <2>3. s.batch = n - delivered /\ c.batch \in {0, n - delivered}
    BY <1>1 DEF Continue, HandlerStates
  <2>4. handlers'["live"].batch \in {0, n - delivered}
    BY <1>1, <2>2, <2>3 DEF TypeOK
  <2> QED
    BY <1>1, <2>1, <2>4 DEF BatchSound
<1>5. CASE ~ Deliver /\ ~ Crash /\ ~ Shutdown
  <2>1. delivered' >= delivered /\ handlers'["live"].batch \in {0, handlers["live"].batch}
    BY <1>5, BatchStays DEF KeepsBatch
  <2>2. delivered' \in Nat
    BY ConstantTypes DEF TypeOK
  <2> QED
    BY <1>1, <1>2, <2>1, <2>2 DEF BatchSound
<1> QED
  BY <1>3, <1>4, <1>5

\* Nothing the invariant speaks of changes in a step that stutters.
LEMMA StutterIInv ==
  ASSUME IInv, UNCHANGED vars
  PROVE  IInv' /\ \A r \in Rules : Rests(r)
<1>1. UNCHANGED <<published, delivered, sent, records, dbCursor, trackers, album, queue,
                  handlers, consumer, start, ended, settled, rejected, unwritten, aside, overtaken>>
  BY DEF vars
<1>2. \A r \in Rules : Rests(r)
  BY <1>1 DEF Rests, PendingWrites, At, Rule, ConsumerAt, Task
<1>3. CauseGrows /\ CoverGrows
  BY <1>1 DEF CauseGrows, CoverGrows
<1>4. TypeOK'
  BY <1>1 DEF IInv, TypeOK
<1>5. TrackersSound'
  BY <1>2, KeptSound DEF IInv, WatermarkStep
<1>6. CauseInv'
  BY <1>1, <1>3, TerminalStays, SkipRests
     DEF IInv, CauseInv, RecordsTrue, ConsumerTrue, ConsumerAt, Task
<1> QED
  BY <1>1, <1>2, <1>3, <1>4, <1>5, <1>6, ConsumerFrame DEF IInv, BatchSound

LEMMA StepIInv == IInv /\ [Next]_vars => IInv'
<1> SUFFICES ASSUME IInv, [Next]_vars PROVE IInv'
  OBVIOUS
<1>1. CASE Next
  BY <1>1, NextKept, KeptSound, BatchStep DEF IInv, Kept
<1>2. CASE UNCHANGED vars
  BY <1>2, StutterIInv
<1> QED
  BY <1>1, <1>2

LEMMA Invariance == Spec => []IInv
BY InitIInv, StepIInv, PTL DEF Spec

\* The types: in particular no handler is inside processRule without a group, a
\* backfill that waits holds nothing, and a cursor about to be persisted is an ID.
THEOREM TypeCorrect == Spec => []TypeOK
<1>1. IInv => TypeOK
  BY DEF IInv
<1> QED
  BY <1>1, Invariance, PTL

\* Whatever fails and however the goroutines interleave, each rule's tracker,
\* persisted cursor and pending AdvanceCursor calls behave as RuleWatermark says
\* (Engine.finishTerminals, engine.go:805, and RuleRepository.AdvanceCursor).
THEOREM EngineKeepsWatermarks == Spec => WatermarksKept
<1>1. Init => \A r \in Rules : RW(r)!Init
  <2> SUFFICES ASSUME Init, NEW r \in Rules PROVE RW(r)!Init
    OBVIOUS
  <2>1. PendingWrites(r) = {}
    <3>1. \A c : c \notin PendingWrites(r)
      BY PendingMember, IdleState, IdleConsumerState DEF Init, AllIdle
    <3> QED
      BY <3>1
  <2> QED
    BY <2>1 DEF Init, RW!Init, RW!newCursorTracker, NewTrackers, newCursorTracker, NoIds
<1>2. IInv /\ [Next]_vars => [\A r \in Rules : [RW(r)!Next]_(RW(r)!vars)]_vars
  <2> SUFFICES ASSUME IInv, Next PROVE \A r \in Rules : [RW(r)!Next]_(RW(r)!vars)
    OBVIOUS
  <2> QED
    BY NextKept, WatermarkStepIsRW DEF Kept
<1> QED
  BY <1>1, <1>2, Invariance, PTL DEF Spec, WatermarksKept

\* A message ends for a rule only because it was posted, filtered, dropped by a
\* permanent failure, or on record with a mate that really was posted; records
\* and finishTerminals never claim what did not happen (processRule and execute).
THEOREM EndsForACause == Spec => []TerminalHasCause
<1>1. IInv => TerminalHasCause
  BY DEF IInv, CauseInv
<1> QED
  BY <1>1, Invariance, PTL

\* A message below the persisted cursor that has not ended is lost only for the
\* causes LossHasCause names: a message observed, queued or being sent holds the
\* cursor back (observeAll before the checks, engine.go:492).
THEOREM LostForACause == Spec => []LossHasCause
<1>1. IInv => LossHasCause
  <2> SUFFICES ASSUME IInv, NEW r \in Rules, NEW m \in 1 .. published, m <= dbCursor[r]
               PROVE  m \in settled[r] \cup unwritten \cup aside \cup overtaken[r] \/ InHand(m)
    BY DEF LossHasCause
  <2>1. Covered(r, m) \/ InHand(m)
    BY DEF IInv, Accounted
  <2>2. m \notin trackers[r].unresolved
    <3>1. dbCursor[r] <= trackers[r].cursor /\ Sound(trackers[r])
      BY DEF IInv, TrackersSound, Behind
    <3>2. dbCursor[r] \in Nat /\ trackers[r].cursor \in Nat /\ m \in Nat
      BY DEF IInv, TypeOK, Trackers
    <3> QED
      BY <3>1, <3>2 DEF Sound
  <2> QED
    BY <2>1, <2>2 DEF Covered
<1> QED
  BY <1>1, Invariance, PTL

\* forward_rules.last_message_id never goes back (GREATEST in AdvanceCursor), in
\* the whole engine and across process ends.
THEOREM DurableNeverBack == Spec => [][\A r \in Rules : dbCursor'[r] >= dbCursor[r]]_dbCursor
<1>1. IInv /\ [Next]_vars => [\A r \in Rules : dbCursor'[r] >= dbCursor[r]]_dbCursor
  <2>1. CASE Next
    BY <2>1, NextKept, KeptSound DEF IInv, Kept
  <2> QED
    BY <2>1 DEF vars
<1> QED
  BY <1>1, Invariance, PTL DEF Spec
-----------------------------------------------------------------------------
(* The bounds: which steps leave which of them alone. *)

UsedOK == used \in [DOMAIN Limit -> Nat]

UsedGrows ==
  UsedOK' /\ \A b \in DOMAIN Limit : used'[b] = 0 => used[b] = 0

LEMMA SpendUses ==
  ASSUME UsedOK, NEW b \in DOMAIN Limit, Spend(b)
  PROVE  UsedGrows /\ used'[b] # 0
<1>1. used' = [used EXCEPT ![b] = @ + 1] /\ used \in [DOMAIN Limit -> Nat]
  BY DEF Spend, UsedOK
<1>2. used'[b] = used[b] + 1 /\ \A c \in DOMAIN Limit \ {b} : used'[c] = used[c]
  BY <1>1
<1>3. used'[b] # 0 /\ used'[b] \in Nat
  BY <1>1, <1>2
<1> HIDE DEF Limit
<1>4. UsedOK'
  BY <1>1, <1>2, <1>3 DEF UsedOK
<1> QED
  BY <1>2, <1>3, <1>4 DEF UsedGrows

LEMMA LimitNames == {"faults", "gaps", "pauses", "ends"} = DOMAIN Limit
BY DEF Limit

LEMMA StepUses ==
  ASSUME UsedOK, [Next]_vars
  PROVE  UsedGrows
<1>1. UNCHANGED used \/ \E b \in DOMAIN Limit : Spend(b)
  <2>1. CASE UNCHANGED vars
    BY <2>1 DEF vars
  <2>2. CASE \/ Publish \/ Deliver \/ ChannelGap \/ ChannelGapFails \/ FlushDue
             \/ BatchFails \/ WriteNewFails
    BY <2>2, LimitNames DEF Publish, Deliver, ChannelGap, ChannelGapFails, FlushDue, FlushTo,
       BatchFails, WriteNewFails
  <2>3. ASSUME NEW h \in Handlers, HandleNew(h) \/ ProcessRule(h) \/ CheckFails(h)
        PROVE  UNCHANGED used \/ \E b \in DOMAIN Limit : Spend(b)
    <3>1. CASE HandleNew(h)
      BY <3>1 DEF HandleNew, HandleNewPaused, HandleNewSingle, HandleNewAlbum
    <3>2. CASE ProcessRule(h) \/ CheckFails(h)
      BY <3>2, LimitNames DEF ProcessRule, Observe, Skip, Pass, FinishSkipped, PersistSkipped,
         Persist, Push, CountEnqueued, CheckFails
    <3> QED
      BY <2>3, <3>1, <3>2
  <2>4. ASSUME NEW c \in Backfillers,
               \/ \E r \in Rules : StartBackfill(c, r)
               \/ Drain(c) \/ BackfillFails(c) \/ PushCancelled(c)
        PROVE  UNCHANGED used \/ \E b \in DOMAIN Limit : Spend(b)
    BY <2>4, LimitNames DEF StartBackfill, Drain, FetchHistory, DrainFlush, FlushTo, DrainDone,
       DrainAgain, BackfillFails, PushCancelled
  <2>5. CASE Consume \/ SendFails \/ SendRejected
    BY <2>5, LimitNames DEF Consume, Take, SendOK, RecordMember, FinishSent, PersistSent, Persist,
       SendFails, SendRejected
  <2>6. CASE Pause \/ Resume \/ Crash \/ Shutdown
    BY <2>6, LimitNames DEF Pause, Resume, Crash, Shutdown
  <2> QED
    BY <2>1, <2>2, <2>3, <2>4, <2>5, <2>6 DEF Next
<1>2. CASE UNCHANGED used
  BY <1>2 DEF UsedOK, UsedGrows
<1> QED
  BY <1>1, <1>2, SpendUses
-----------------------------------------------------------------------------
(***************************************************************************)
(* One rule and no albums: the rule meets the messages in order, so that   *)
(* whatever lies below one it met was met too.  A message that the rule    *)
(* has: it ended, is being processed, or never came for a cause.           *)
(***************************************************************************)
Has(r) == settled[r] \cup unwritten \cup aside \cup trackers[r].unresolved

Lined(grp, H) == \A x \in ToSet(grp) : 1 .. x - 1 \subseteq H

\* The messages of the groups a handler in state s is at.
Current(s) == UNION {ToSet(s.groups[i]) : i \in DOMAIN s.groups}
Hand(s) == Current(s) \cup ToSet(s.feed)

\* A handler holds its messages in order, with nothing left out below them.
Line(s, H, c) ==
  /\ \A i \in DOMAIN s.groups : i = 1
  /\ \A i, j \in DOMAIN s.feed : i < j => s.feed[i] < s.feed[j]
  /\ \A x \in Current(s), y \in ToSet(s.feed) : x < y
  /\ \A x \in Hand(s) : 1 .. x - 1 \subseteq H \cup Hand(s)
  /\ s.pc \in InRule => Current(s) \subseteq H
  /\ s.pc = "fetch" => s.adv <= c

Tracked(r) ==
  /\ 1 .. trackers[r].cursor \subseteq Has(r)
  /\ trackers[r].terminals \subseteq settled[r]
  /\ \A x \in trackers[r].unresolved \cup trackers[r].terminals : 1 .. x - 1 \subseteq Has(r)

Streamed(r) == 1 .. delivered \subseteq Has(r) \cup Hand(handlers["live"])

Waiting(r) ==
  /\ \A i \in DOMAIN queue : Lined(queue[i].msgs, Has(r))
  /\ consumer.pc # "idle" => Lined(consumer.task.msgs, Has(r))

Lines(r) == \A h \in Handlers : Line(handlers[h], Has(r), trackers[r].cursor)

Ordered == \A r \in Rules : Tracked(r) /\ Streamed(r) /\ Waiting(r) /\ Lines(r)

HasGrows == \A r \in Rules : Has(r) \subseteq Has(r)'

LEMMA LineStays ==
  ASSUME NEW s, NEW H, NEW H2, NEW c \in Nat, NEW c2 \in Nat, H \subseteq H2, c <= c2,
         s \in HandlerStates, Line(s, H, c)
  PROVE  Line(s, H2, c2)
<1>1. s.adv \in Nat
  BY HandlerType
<1>2. s.pc = "fetch" => s.adv <= c2
  BY <1>1 DEF Line
<1> QED
  BY <1>2 DEF Line

\* A handler moves, and what it drops the rules have.
LEMMA OrderedMoves ==
  ASSUME TypeOK, Ordered, HasGrows,
         \A r \in Rules : trackers'[r].cursor >= trackers[r].cursor /\ trackers'[r].cursor \in Nat,
         \A r \in Rules : Tracked(r)' /\ Waiting(r)',
         NEW h \in Handlers, NEW s, Moves(h, s),
         \A r \in Rules : Line(s, Has(r)', trackers'[r].cursor),
         \A r \in Rules : Hand(handlers[h]) \subseteq Hand(s) \cup Has(r)',
         1 .. delivered' \subseteq 1 .. delivered \cup (IF h = "live" THEN Hand(s) ELSE {})
  PROVE  Ordered'
<1>1. handlers'[h] = s /\ \A g \in Handlers \ {h} : handlers'[g] = handlers[g]
  BY DEF Moves, TypeOK
<1>2. "live" \in Handlers
  BY DEF Handlers
<1>3. ASSUME NEW r \in Rules PROVE Streamed(r)' /\ Lines(r)'
  <2>1. Streamed(r)'
    BY <1>1, <1>2 DEF Streamed, Ordered, HasGrows
  <2>2. ASSUME NEW g \in Handlers PROVE Line(handlers'[g], Has(r)', trackers'[r].cursor)
    <3>1. CASE g = h
      BY <1>1, <3>1
    <3>2. CASE g # h
      <4>1. Line(handlers[g], Has(r), trackers[r].cursor)
        BY DEF Ordered, Lines
      <4>2. handlers[g] \in HandlerStates /\ trackers[r].cursor \in Nat
        BY DEF TypeOK, Trackers
      <4>3. Line(handlers[g], Has(r)', trackers'[r].cursor)
        BY <4>1, <4>2, LineStays DEF HasGrows
      <4> QED
        BY <1>1, <3>2, <4>3
    <3> QED
      BY <3>1, <3>2
  <2>3. Lines(r)'
    BY <2>2 DEF Lines
  <2> QED
    BY <2>1, <2>3
<1> QED
  BY <1>3 DEF Ordered

\* No handler moves.
LEMMA OrderedRests ==
  ASSUME TypeOK, Ordered, HasGrows, UNCHANGED <<handlers, delivered>>,
         \A r \in Rules : trackers'[r].cursor >= trackers[r].cursor /\ trackers'[r].cursor \in Nat,
         \A r \in Rules : Tracked(r)' /\ Waiting(r)'
  PROVE  Ordered'
<1>1. ASSUME NEW r \in Rules PROVE Streamed(r)' /\ Lines(r)'
  <2>1. Streamed(r)'
    BY DEF Streamed, Ordered, HasGrows
  <2>2. ASSUME NEW g \in Handlers PROVE Line(handlers[g], Has(r)', trackers'[r].cursor)
    <3>1. Line(handlers[g], Has(r), trackers[r].cursor)
      BY DEF Ordered, Lines
    <3>2. handlers[g] \in HandlerStates /\ trackers[r].cursor \in Nat
      BY DEF TypeOK, Trackers
    <3> QED
      BY <3>1, <3>2, LineStays DEF HasGrows
  <2> QED
    BY <2>1, <2>2 DEF Lines
<1> QED
  BY <1>1 DEF Ordered

LEMMA GrowsFromCover ==
  ASSUME CoverGrows PROVE HasGrows
BY DEF CoverGrows, HasGrows, Has

\* The trackers and what waits, when they rest.
LEMMA TrackedStays ==
  ASSUME NEW r \in Rules, Tracked(r), HasGrows, UNCHANGED trackers[r], settled[r] \subseteq settled'[r]
  PROVE  Tracked(r)'
BY DEF Tracked, HasGrows

LEMMA WaitingStays ==
  ASSUME NEW r \in Rules, Waiting(r), HasGrows, UNCHANGED <<queue, consumer>>
  PROVE  Waiting(r)'
BY DEF Waiting, Lined, HasGrows

\* Observing a group and finishing one.
LEMMA TrackedObserves ==
  ASSUME NEW r \in Rules, TypeOK, Tracked(r), HasGrows, settled[r] \subseteq settled'[r],
         NEW S \in SUBSET Ids, trackers'[r] = ObserveAll(trackers[r], S),
         \A x \in S : 1 .. x - 1 \subseteq Has(r)
  PROVE  /\ Tracked(r)' /\ trackers'[r].cursor = trackers[r].cursor
         /\ S \subseteq Has(r)'
<1>1. /\ trackers[r] \in Trackers(Ids)
      /\ trackers'[r].cursor = trackers[r].cursor
      /\ trackers'[r].terminals = trackers[r].terminals
      /\ trackers'[r].unresolved = trackers[r].unresolved \cup Above(trackers[r], S)
  BY DEF TypeOK, Trackers, ObserveAll
<1>2. ASSUME NEW x \in S PROVE x \in Has(r)'
  <2>1. x \in Nat /\ x >= 1 /\ trackers[r].cursor \in Nat
    BY <1>1, ConstantTypes DEF Trackers
  <2>2. CASE x <= trackers[r].cursor
    BY <2>1, <2>2 DEF Tracked, HasGrows
  <2>3. CASE x > trackers[r].cursor
    BY <1>1, <2>3 DEF Has, Above
  <2> QED
    BY <2>1, <2>2, <2>3
<1>3. Above(trackers[r], S) \subseteq S
  BY DEF Above
<1>4. Tracked(r)'
  BY <1>1, <1>3 DEF Tracked, HasGrows
<1> QED
  BY <1>1, <1>2, <1>4

LEMMA TrackedFinishes ==
  ASSUME NEW r \in Rules, TypeOK, TrackersSound, Tracked(r), HasGrows,
         NEW S \in SUBSET Ids, trackers'[r] = TerminalAll(trackers[r], S),
         settled'[r] = settled[r] \cup S, \A x \in S : 1 .. x - 1 \subseteq Has(r)
  PROVE  Tracked(r)' /\ trackers'[r].cursor >= trackers[r].cursor
<1> DEFINE t == TerminalAll(trackers[r], S)
<1>1. trackers[r] \in Trackers(Ids) /\ Sound(trackers[r])
  BY DEF TypeOK, TrackersSound
<1>2. /\ t.cursor >= trackers[r].cursor /\ t \in Trackers(Ids)
      /\ t.cursor \in {trackers[r].cursor} \cup trackers[r].terminals \cup Above(trackers[r], S)
      /\ t.unresolved = trackers[r].unresolved \ Above(trackers[r], S)
      /\ t.terminals \subseteq trackers[r].terminals \cup Above(trackers[r], S)
  BY <1>1, IdsBounded, TerminalAllFacts
<1> HIDE DEF t
<1>3. Above(trackers[r], S) \subseteq S
  BY DEF Above
<1>4. t.terminals \subseteq settled'[r]
  BY <1>2, <1>3 DEF Tracked
<1>5. \A x \in t.unresolved \cup t.terminals : 1 .. x - 1 \subseteq Has(r)'
  BY <1>2, <1>3 DEF Tracked, HasGrows
<1>6. 1 .. t.cursor \subseteq Has(r)'
  <2>1. CASE t.cursor = trackers[r].cursor
    BY <2>1 DEF Tracked, HasGrows
  <2>2. CASE t.cursor \in trackers[r].terminals \cup S
    <3>1. t.cursor \in settled'[r] /\ t.cursor \in Nat
      BY <1>2, <2>2 DEF Tracked, Trackers
    <3>2. 1 .. t.cursor - 1 \subseteq Has(r)'
      BY <2>2 DEF Tracked, HasGrows
    <3>3. t.cursor \in Has(r)'
      BY <3>1 DEF Has
    <3>4. \A m \in 1 .. t.cursor : m \in 1 .. t.cursor - 1 \/ m = t.cursor
      BY <3>1
    <3> QED
      BY <3>2, <3>3, <3>4
  <2> QED
    BY <1>2, <1>3, <2>1, <2>2
<1> QED
  BY <1>2, <1>4, <1>5, <1>6 DEF Tracked, t

-----------------------------------------------------------------------------
(* What the two assumptions give, and the steps of the handlers. *)

LEMMA AloneFacts ==
  ASSUME Alone
  PROVE  /\ Albums = {} /\ \A r, p \in Rules : r = p
         /\ \A q \in Groups : \A x, y \in ToSet(q) : x = y
<1>1. Albums = {}
  BY DEF Alone, Albums
<1>2. \A r, p \in Rules : r = p
  <2>1. RuleOrder \in Seq(Rules) /\ Len(RuleOrder) = 1
    BY ConstantTypes DEF Alone
  <2>2. DOMAIN RuleOrder = {1}
    BY <2>1
  <2> QED
    BY <2>2 DEF Rules, ToSet
<1>3. \A q \in Groups : \A x, y \in ToSet(q) : x = y
  <2> SUFFICES ASSUME NEW q \in Groups, NEW x \in ToSet(q), NEW y \in ToSet(q) PROVE x = y
    OBVIOUS
  <2>1. x \in Ids /\ y \in Mates(x)
    BY GroupType
  <2> QED
    BY <2>1 DEF Alone, Mates
<1> QED
  BY <1>1, <1>2, <1>3

LEMMA EmptyHand ==
  ASSUME NEW s, s.groups = <<>>
  PROVE  Current(s) = {} /\ Hand(s) = ToSet(s.feed) /\ \A i \in DOMAIN s.groups : i = 1
BY DEF Current, Hand

LEMMA WaitingHand ==
  ASSUME NEW s \in HandlerStates, s.pc \in Waits
  PROVE  Hand(s) = {} /\ Current(s) = {} /\ s.groups = <<>> /\ s.feed = <<>>
<1>1. s.groups = <<>> /\ s.feed = <<>>
  BY HandlerType
<1> QED
  BY <1>1, EmptyHand, NoElement DEF Hand

\* A handler that waits stands in line.
LEMMA WaitingLine ==
  ASSUME NEW s \in HandlerStates, s.pc \in Waits, NEW H, NEW c, s.pc = "fetch" => s.adv <= c
  PROVE  Line(s, H, c)
<1>1. /\ Hand(s) = {} /\ Current(s) = {} /\ s.groups = <<>> /\ s.feed = <<>>
      /\ \A i \in DOMAIN s.groups : i = 1
  BY WaitingHand, EmptyHand
<1> QED
  BY <1>1 DEF Line, Waits, InRule

\* The steps that leave trackers, queue and consumer alone.
LEMMA OrderedQuiet ==
  ASSUME TypeOK, Ordered, UNCHANGED <<trackers, settled, queue, consumer>>,
         unwritten \subseteq unwritten', aside \subseteq aside',
         NEW h \in Handlers, NEW s, Moves(h, s),
         \A r \in Rules : Line(s, Has(r)', trackers[r].cursor),
         \A r \in Rules : Hand(handlers[h]) \subseteq Hand(s) \cup Has(r)',
         1 .. delivered' \subseteq 1 .. delivered \cup (IF h = "live" THEN Hand(s) ELSE {})
  PROVE  Ordered'
<1>1. HasGrows
  BY DEF HasGrows, Has
<1>2. \A r \in Rules : /\ trackers'[r].cursor >= trackers[r].cursor
                       /\ trackers'[r].cursor \in Nat /\ trackers'[r].cursor = trackers[r].cursor
  BY DEF TypeOK, Trackers
<1>3. \A r \in Rules : Tracked(r)' /\ Waiting(r)'
  BY <1>1, TrackedStays, WaitingStays DEF Ordered
<1>4. \A r \in Rules : Line(s, Has(r)', trackers'[r].cursor)
  BY <1>2
<1> QED
  BY <1>1, <1>2, <1>3, <1>4, OrderedMoves

\* Messages handed to a free handler: in order, and nothing is left out below.
LEMMA FedLine ==
  ASSUME NEW s, s.groups = <<>>, s.pc \notin InRule \cup {"fetch"}, NEW H, NEW c,
         \A i, j \in DOMAIN s.feed : i < j => s.feed[i] < s.feed[j],
         \A x \in ToSet(s.feed) : 1 .. x - 1 \subseteq H \cup ToSet(s.feed)
  PROVE  Line(s, H, c)
<1>1. Current(s) = {} /\ Hand(s) = ToSet(s.feed) /\ \A i \in DOMAIN s.groups : i = 1
  BY EmptyHand
<1> QED
  BY <1>1 DEF Line

LEMMA DeliverOrdered ==
  ASSUME TypeOK, Ordered, Deliver
  PROVE  Ordered'
<1>1. PICK n \in Nat, fd \in Seq(Ids) :
        /\ delivered \in Nat /\ n > delivered /\ delivered' = n /\ ToSet(fd) = delivered + 1 .. n
        /\ \A i, j \in DOMAIN fd : i < j => fd[i] < fd[j]
        /\ Feed("live", fd, "idle", n - delivered) /\ n - delivered \in Nat
  BY DeliverFacts
<1>2. "live" \in Handlers /\ handlers["live"].pc \in Waits /\ handlers["live"] \in HandlerStates
  BY DEF Handlers, Waits, Deliver, Free, TypeOK
<1>3. PICK s : Moves("live", s) /\ s.pc \notin InRule \cup {"fetch"} /\ s.groups = <<>> /\ s.feed = fd
  BY <1>1, <1>2, FeedSteps
<1>4. UNCHANGED <<trackers, settled, queue, consumer, unwritten, aside>>
  BY DEF Deliver, history, ends
<1>5. Hand(handlers["live"]) = {}
  BY <1>2, WaitingHand
<1>6. ASSUME NEW r \in Rules PROVE Line(s, Has(r)', trackers[r].cursor)
  <2>1. 1 .. delivered \subseteq Has(r)
    BY <1>5 DEF Ordered, Streamed
  <2>2. Has(r)' = Has(r)
    BY <1>4 DEF Has
  <2>3. ASSUME NEW x \in ToSet(s.feed) PROVE 1 .. x - 1 \subseteq Has(r) \cup ToSet(s.feed)
    <3>1. x \in delivered + 1 .. n /\ ToSet(s.feed) = delivered + 1 .. n
      BY <1>1, <1>3
    <3>2. \A y \in 1 .. x - 1 : y \in 1 .. delivered \/ y \in delivered + 1 .. n
      BY <1>1, <3>1
    <3> QED
      BY <2>1, <3>1, <3>2
  <2>4. Line(s, Has(r), trackers[r].cursor)
    BY <1>1, <1>3, <2>3, FedLine
  <2> QED
    BY <2>2, <2>4
<1>7. 1 .. delivered' \subseteq 1 .. delivered \cup Hand(s)
  <2>1. Hand(s) = delivered + 1 .. n
    BY <1>1, <1>3, EmptyHand
  <2>2. \A y \in 1 .. n : y \in 1 .. delivered \/ y \in delivered + 1 .. n
    BY <1>1
  <2> QED
    BY <1>1, <2>1, <2>2
<1> QED
  BY <1>2, <1>3, <1>4, <1>5, <1>6, <1>7, OrderedQuiet

\* A batch that fails is dropped as a whole: nothing of it is left to meet.
LEMMA BatchFailsOrdered ==
  ASSUME TypeOK, Ordered, BatchFails
  PROVE  Ordered'
<1>1. /\ "live" \in Handlers /\ handlers["live"].groups = <<>>
      /\ handlers' = [handlers EXCEPT !["live"] = Continue(@, <<>>, <<>>)]
      /\ unwritten' = unwritten \cup ToSet(handlers["live"].feed)
      /\ UNCHANGED <<delivered, trackers, settled, queue, consumer, aside>>
  BY DEF BatchFails, Handlers, NextMessage, env, ends
<1>2. PICK s : /\ Moves("live", s) /\ s.pc \notin InRule \cup {"fetch"}
               /\ s.groups = <<>> /\ s.feed = <<>>
  BY <1>1, EmptiedMoves
<1>3. ToSet(s.feed) = {} /\ DOMAIN s.feed = {} /\ Hand(s) = {}
  BY <1>2, EmptyHand, NoElement
<1>4. ASSUME NEW r \in Rules
      PROVE  /\ Line(s, Has(r)', trackers[r].cursor)
             /\ Hand(handlers["live"]) \subseteq Hand(s) \cup Has(r)'
  <2>1. Line(s, Has(r)', trackers[r].cursor)
    BY <1>2, <1>3, FedLine
  <2>2. Hand(handlers["live"]) = ToSet(handlers["live"].feed)
    BY <1>1, EmptyHand
  <2> QED
    BY <1>1, <2>1, <2>2 DEF Has
<1> QED
  BY <1>1, <1>2, <1>4, OrderedQuiet

\* The page a backfill gets: ascending, from the cursor on.
LEMMA NewestOrder ==
  ASSUME NEW from \in Nat \ {0}, NEW to \in Nat, NEW n \in Nat
  PROVE  LET page == Newest(from, to, n)
         IN  /\ \A i, j \in DOMAIN page : i < j => page[i] < page[j]
             /\ \A x \in ToSet(page) : x \in from .. to
<1> DEFINE first == Max({from, to - n + 1})
           k == to - first + 1
           page == Newest(from, to, n)
<1>1. first \in {from, to - n + 1} /\ first >= from
  <2>1. \E x \in {from, to - n + 1} : \A y \in {from, to - n + 1} : x >= y
    OBVIOUS
  <2>2. /\ Max({from, to - n + 1}) \in {from, to - n + 1}
        /\ \A y \in {from, to - n + 1} : Max({from, to - n + 1}) >= y
    BY <2>1, Zenon DEF Max
  <2> QED
    BY <2>2
<1>2. page = [i \in 1 .. k |-> first + i - 1]
  BY DEF Newest
<1> HIDE DEF first
<1>3. first \in Int
  BY <1>1
<1>4. \A i \in 1 .. k : first + i - 1 \in from .. to
  BY <1>1, <1>3
<1>5. \A i, j \in 1 .. k : i < j => first + i - 1 < first + j - 1
  BY <1>3
<1> HIDE DEF k, page
<1> QED
  BY <1>2, <1>4, <1>5 DEF ToSet, page

LEMMA FetchHistoryOrdered ==
  ASSUME TypeOK, Ordered, NEW b \in Backfillers, FetchHistory(b)
  PROVE  Ordered'
<1>1. b \in Handlers /\ handlers[b] \in HandlerStates /\ handlers[b].pc = "fetch"
  BY DEF FetchHistory, At, Handlers, TypeOK
<1>2. PICK c \in Nat : c = handlers[b].adv
  BY <1>1, HandlerType
<1>3. PICK from \in Nat \ {0} : from = c + 1
  OBVIOUS
<1>4. published \in Nat /\ published <= MaxId /\ BackfillLimit \in Nat
  BY ConstantTypes DEF TypeOK
<1>5. PICK fd \in Seq(Ids) :
        /\ fd = Newest(from, published, BackfillLimit)
        /\ \A i, j \in DOMAIN fd : i < j => fd[i] < fd[j]
        /\ \A x \in ToSet(fd) : x \in from .. published
  BY <1>4, NewestFacts, NewestOrder
<1>6. /\ Feed(b, fd, "drain", 0)
      /\ aside' = aside \cup ((from .. published) \ ToSet(fd))
      /\ UNCHANGED <<delivered, trackers, settled, queue, consumer, unwritten>>
  BY <1>2, <1>3, <1>5 DEF FetchHistory, env, ends
<1>7. PICK s : Moves(b, s) /\ s.pc \notin InRule \cup {"fetch"} /\ s.groups = <<>> /\ s.feed = fd
  BY <1>1, <1>6, FeedSteps
<1>8. Hand(handlers[b]) = {}
  BY <1>1, WaitingHand DEF Waits
<1>9. ASSUME NEW r \in Rules PROVE Line(s, Has(r)', trackers[r].cursor)
  <2>1. c <= trackers[r].cursor /\ trackers[r].cursor \in Nat /\ 1 .. trackers[r].cursor \subseteq Has(r)
    BY <1>1, <1>2 DEF Ordered, Lines, Line, Tracked, TypeOK, Trackers
  <2>2. Has(r) \subseteq Has(r)' /\ aside' \subseteq Has(r)'
    BY <1>6 DEF Has
  <2>3. ASSUME NEW x \in ToSet(fd), NEW m \in 1 .. x - 1 PROVE m \in Has(r)' \cup ToSet(fd)
    <3>1. x \in Nat /\ x <= published /\ m \in Nat /\ m >= 1 /\ m <= x - 1
      BY <1>4, <1>5
    <3>2. CASE m <= c
      BY <2>1, <2>2, <3>1, <3>2
    <3>3. CASE m > c
      <4>1. m \in from .. published
        BY <1>3, <1>4, <3>1, <3>3
      <4> QED
        BY <1>6, <2>2, <4>1
    <3> QED
      BY <3>1, <3>2, <3>3
  <2>4. \A x \in ToSet(s.feed) : 1 .. x - 1 \subseteq Has(r)' \cup ToSet(s.feed)
    BY <1>7, <2>3
  <2> QED
    BY <1>5, <1>7, <2>4, FedLine
<1> QED
  BY <1>1, <1>6, <1>7, <1>8, <1>9, OrderedQuiet

\* A backfill changes stage.
LEMMA StageOrdered ==
  ASSUME TypeOK, Ordered, NEW b \in Backfillers, handlers[b].pc \in Waits,
         NEW s \in HandlerStates, s.pc \in Waits, handlers' = [handlers EXCEPT ![b] = s],
         \A r \in Rules : s.pc = "fetch" => s.adv <= trackers[r].cursor,
         UNCHANGED <<delivered, trackers, queue, consumer, settled, unwritten, aside>>
  PROVE  Ordered'
<1>1. b \in Handlers /\ Moves(b, s) /\ handlers[b] \in HandlerStates
  BY DEF Handlers, Moves, TypeOK
<1>2. Hand(handlers[b]) = {}
  BY <1>1, WaitingHand
<1>3. \A r \in Rules : Line(s, Has(r)', trackers[r].cursor)
  BY WaitingLine
<1> QED
  BY <1>1, <1>2, <1>3, OrderedQuiet

LEMMA BackfillOrdered ==
  ASSUME TypeOK, Ordered, Alone, NEW b \in Backfillers,
         \/ \E r \in Rules : StartBackfill(b, r)
         \/ DrainDone(b) \/ DrainAgain(b) \/ BackfillFails(b)
  PROVE  Ordered'
<1>1. handlers[b] \in HandlerStates
  BY DEF TypeOK, Handlers
<1>2. CASE \E r \in Rules : StartBackfill(b, r)
  <2>1. PICK r \in Rules : StartBackfill(b, r)
    BY <1>2
  <2>2. PICK c \in Nat : c = trackers[r].cursor
    BY DEF TypeOK, Trackers
  <2> DEFINE s == [handlers[b] EXCEPT !.pc = "fetch", !.adv = c]
  <2>3. handlers[b].pc = "idle" /\ handlers' = [handlers EXCEPT ![b] = s]
    BY <2>1, <2>2 DEF StartBackfill, Free, TypeOK
  <2>4. s \in HandlerStates /\ s.pc = "fetch" /\ s.adv = c
    BY <1>1, <2>3 DEF HandlerStates, Waits, InRule
  <2> HIDE DEF s
  <2>5. \A p \in Rules : s.adv <= trackers[p].cursor
    BY <2>2, <2>4, AloneFacts
  <2>6. UNCHANGED <<delivered, trackers, queue, consumer, settled, unwritten, aside>>
    BY <2>1 DEF StartBackfill, env, history, ends
  <2> QED
    BY <2>3, <2>4, <2>5, <2>6, StageOrdered DEF Waits
<1>3. CASE DrainDone(b) \/ BackfillFails(b)
  <2>1. Idle \in HandlerStates /\ Idle.pc = "idle"
    BY IdleState
  <2>2. /\ handlers[b].pc \in Waits /\ handlers' = [handlers EXCEPT ![b] = Idle]
        /\ UNCHANGED <<delivered, trackers, queue, consumer, settled, unwritten, aside>>
    BY <1>3 DEF DrainDone, BackfillFails, At, Waits, env, history, ends
  <2> QED
    BY <2>1, <2>2, StageOrdered DEF Waits
<1>4. CASE DrainAgain(b)
  <2> DEFINE s == [handlers[b] EXCEPT !.pc = "drain"]
  <2>1. handlers[b].pc = "settle" /\ handlers' = [handlers EXCEPT ![b] = s]
        /\ UNCHANGED <<delivered, trackers, queue, consumer, settled, unwritten, aside>>
    BY <1>4 DEF DrainAgain, At, Goto, TypeOK, env, history, ends
  <2>2. s \in HandlerStates /\ s.pc = "drain"
    BY <1>1, <2>1 DEF HandlerStates, Waits, InRule
  <2> HIDE DEF s
  <2> QED
    BY <2>1, <2>2, StageOrdered DEF Waits
<1> QED
  BY <1>2, <1>3, <1>4

\* HandleNew took the next message, into a group or because the rules have it.
LEMMA HandOverOrdered ==
  ASSUME TypeOK, Ordered, NEW h \in Handlers, NextMessage(h), NEW gs \in Seq(Groups),
         HandOver(h, gs), NEW m0 \in Ids, m0 = Head(handlers[h].feed),
         \/ gs = <<>> /\ \A r \in Rules : m0 \in Has(r)'
         \/ gs = << <<m0>> >>,
         UNCHANGED <<delivered, trackers, settled, queue, consumer>>,
         unwritten \subseteq unwritten', aside \subseteq aside'
  PROVE  Ordered'
<1>1. handlers[h] \in HandlerStates /\ handlers[h].groups = <<>>
  BY DEF TypeOK, NextMessage
<1>2. PICK fd \in Seq(Ids), tl \in Seq(Ids) :
        /\ fd = handlers[h].feed /\ tl = Tail(fd) /\ ToSet(fd) = {m0} \cup ToSet(tl)
        /\ fd # <<>> /\ m0 = Head(fd)
  <2>1. handlers[h].feed \in Seq(Ids) /\ handlers[h].feed # <<>>
    BY <1>1, HandlerType DEF NextMessage, At
  <2> QED
    BY <2>1, HeadTail
<1>3. PICK s : /\ Moves(h, s) /\ s.pc \notin InRule \cup {"fetch"}
               /\ s.groups = gs /\ s.feed = tl
  BY <1>2, HandOverMoves
<1>4. /\ Hand(handlers[h]) = ToSet(fd)
      /\ \A r \in Rules : Line(handlers[h], Has(r), trackers[r].cursor)
  BY <1>1, <1>2, EmptyHand DEF Ordered, Lines
<1>5. \A r \in Rules : Has(r) \subseteq Has(r)'
  BY DEF Has
<1>6. /\ \A i, j \in DOMAIN tl : i < j => tl[i] < tl[j]
      /\ \A y \in ToSet(tl) : m0 < y
  <2>1. /\ DOMAIN fd = 1 .. Len(fd) /\ Len(fd) \in Nat \ {0} /\ DOMAIN tl = 1 .. Len(tl)
        /\ m0 = fd[1]
        /\ \A i \in DOMAIN tl : i + 1 \in DOMAIN fd /\ tl[i] = fd[i + 1]
    BY <1>2, HeadTail
  <2>2. ASSUME Rules # {} PROVE \A i, j \in DOMAIN fd : i < j => fd[i] < fd[j]
    BY <1>2, <1>4, <2>2 DEF Line
  <2>3. Rules # {}
    BY ConstantTypes, HeadTail DEF Rules
  <2>4. ASSUME NEW i \in DOMAIN tl PROVE 1 \in DOMAIN fd /\ i + 1 \in DOMAIN fd /\ 1 < i + 1
    BY <2>1
  <2>5. ASSUME NEW i \in DOMAIN tl PROVE m0 < tl[i]
    <3>1. PICK k \in DOMAIN fd : k = i + 1 /\ 1 < k /\ tl[i] = fd[k] /\ 1 \in DOMAIN fd
      BY <2>1, <2>4
    <3> QED
      BY <2>1, <2>2, <2>3, <3>1
  <2>6. ASSUME NEW i \in DOMAIN tl, NEW j \in DOMAIN tl, i < j PROVE tl[i] < tl[j]
    <3>1. PICK k \in DOMAIN fd, l \in DOMAIN fd : k < l /\ tl[i] = fd[k] /\ tl[j] = fd[l]
      <4>1. i + 1 \in DOMAIN fd /\ j + 1 \in DOMAIN fd /\ i + 1 < j + 1
        BY <2>1, <2>6
      <4> QED
        BY <2>1, <4>1
    <3> QED
      BY <2>2, <2>3, <3>1
  <2> QED
    BY <2>5, <2>6 DEF ToSet
<1>7. ASSUME NEW r \in Rules
      PROVE  Line(s, Has(r)', trackers[r].cursor) /\ Hand(handlers[h]) \subseteq Hand(s) \cup Has(r)'
  <2>1. \A x \in ToSet(fd) : 1 .. x - 1 \subseteq Has(r)' \cup {m0} \cup ToSet(tl)
    BY <1>2, <1>4, <1>5 DEF Line
  <2>2. CASE gs = <<>> /\ m0 \in Has(r)'
    <3>1. \A x \in ToSet(s.feed) : 1 .. x - 1 \subseteq Has(r)' \cup ToSet(s.feed)
      BY <1>2, <1>3, <2>1, <2>2
    <3>2. Hand(s) = ToSet(tl)
      BY <1>3, <2>2, EmptyHand
    <3> QED
      BY ZenonT(60), <1>2, <1>3, <1>4, <1>6, <2>2, <3>1, <3>2, FedLine
  <2>3. CASE gs = << <<m0>> >>
    <3>1. Current(s) = {m0} /\ \A i \in DOMAIN s.groups : i = 1
      <4>1. DOMAIN gs = {1} /\ gs[1] = <<m0>> /\ ToSet(<<m0>>) = {m0}
        BY <2>3, OneElement
      <4> QED
        BY <1>3, <4>1 DEF Current
    <3>2. Hand(s) = {m0} \cup ToSet(tl)
      BY <1>3, <3>1 DEF Hand
    <3>3. \A x \in Hand(s) : 1 .. x - 1 \subseteq Has(r)' \cup Hand(s)
      BY <1>2, <2>1, <3>2
    <3> QED
      BY <1>2, <1>3, <1>4, <1>6, <3>1, <3>2, <3>3 DEF Line
  <2> QED
    BY <2>2, <2>3
<1> QED
  BY <1>3, <1>7, OrderedQuiet

LEMMA HandleNewOrdered ==
  ASSUME TypeOK, Ordered, Alone, NEW h \in Handlers,
         HandleNew(h) \/ (h = "live" /\ WriteNewFails)
  PROVE  Ordered'
<1>1. NextMessage(h)
  BY DEF HandleNew, HandleNewPaused, HandleNewSingle, HandleNewAlbum, WriteNewFails
<1>2. PICK m0 \in Ids : m0 = Head(handlers[h].feed)
  <2>1. handlers[h] \in HandlerStates
    BY DEF TypeOK
  <2>2. handlers[h].feed \in Seq(Ids) /\ handlers[h].feed # <<>>
    BY <1>1, <2>1, HandlerType DEF NextMessage, At
  <2> QED
    BY <2>2, HeadTail
<1>3. PICK gs \in Seq(Groups) : gs = <<>>
  BY NoGroup
<1>4. CASE h = "live" /\ WriteNewFails
  <2>1. /\ HandOver(h, gs) /\ unwritten' = unwritten \cup {m0}
        /\ UNCHANGED <<delivered, trackers, settled, queue, consumer, aside>>
    BY <1>2, <1>3, <1>4 DEF WriteNewFails, env, ends
  <2>2. \A r \in Rules : m0 \in Has(r)'
    BY <2>1 DEF Has
  <2> QED
    BY <1>1, <1>2, <1>3, <2>1, <2>2, HandOverOrdered
<1>5. CASE HandleNewPaused(h)
  <2>1. /\ HandOver(h, gs) /\ aside' = aside \cup {m0}
        /\ UNCHANGED <<delivered, trackers, settled, queue, consumer, unwritten>>
    BY <1>2, <1>3, <1>5 DEF HandleNewPaused, env, ends
  <2>2. \A r \in Rules : m0 \in Has(r)'
    BY <2>1 DEF Has
  <2> QED
    BY <1>1, <1>2, <1>3, <2>1, <2>2, HandOverOrdered
<1>6. CASE HandleNewSingle(h)
  <2>1. /\ HandOver(h, << <<m0>> >>)
        /\ UNCHANGED <<delivered, trackers, settled, queue, consumer, unwritten, aside>>
    BY <1>2, <1>6 DEF HandleNewSingle, env, history, ends
  <2>2. PICK gs1 \in Seq(Groups) : gs1 = << <<m0>> >>
    BY <1>2, SingleGroup, OneElement
  <2> QED
    BY <1>1, <1>2, <2>1, <2>2, HandOverOrdered
<1>7. ~ HandleNewAlbum(h)
  BY <1>2 DEF Alone, HandleNewAlbum
<1> QED
  BY <1>4, <1>5, <1>6, <1>7 DEF HandleNew

\* Without albums there is nothing to flush.
LEMMA FlushOrdered ==
  ASSUME TypeOK, Ordered, Alone, NEW b \in Backfillers, DrainFlush(b)
  PROVE  Ordered'
<1>1. b \in Handlers /\ handlers[b].pc \in Waits /\ FlushTo(b, Collected, "settle")
  BY DEF DrainFlush, At, Handlers, Waits
<1>2. Collected = {}
  BY AloneFacts DEF Collected
<1>3. PICK order \in SetToSeqs({}) :
        handlers' = [handlers EXCEPT ![b] =
          Continue([@ EXCEPT !.then = "settle"], [i \in DOMAIN order |-> album[order[i]]], <<>>)]
  BY <1>1, <1>2 DEF FlushTo
<1>4. order \in Seq({})
  BY OrderCovers, FS_EmptySet
<1>5. PICK gs \in Seq(Groups), fd \in Seq(Ids) :
        gs = [i \in DOMAIN order |-> album[order[i]]] /\ gs = <<>> /\ fd = <<>>
  <2>1. order = <<>>
    BY <1>4
  <2>2. [i \in DOMAIN order |-> album[order[i]]] = <<>>
    BY <2>1
  <2> QED
    BY <2>2, NoElement
<1>6. handlers' = [handlers EXCEPT ![b] = Continue([@ EXCEPT !.then = "settle"], gs, fd)]
  BY <1>3, <1>5
<1>7. PICK s : Moves(b, s) /\ s.pc \notin InRule \cup {"fetch"} /\ s.groups = gs /\ s.feed = fd
  <2> DEFINE t == [handlers[b] EXCEPT !.then = "settle"]
             d == Continue(t, gs, fd)
  <2>1. handlers[b] \in HandlerStates /\ handlers' = [handlers EXCEPT ![b] = d]
    BY <1>1, <1>6 DEF TypeOK
  <2>2. t \in HandlerStates
    BY <2>1, ThenState
  <2> HIDE DEF t
  <2>3. d \in HandlerStates /\ d.pc \notin InRule \cup {"fetch"} /\ d.groups = gs /\ d.feed = fd
    BY <2>2, ContinueState
  <2> QED
    BY <2>1, <2>3 DEF Moves
<1>8. UNCHANGED <<delivered, trackers, settled, queue, consumer, unwritten, aside>>
  BY <1>1 DEF FlushTo, env, history, ends
<1>9. Hand(handlers[b]) = {}
  BY <1>1, WaitingHand DEF TypeOK
<1>10. \A r \in Rules : Line(s, Has(r)', trackers[r].cursor)
  <2>1. ToSet(s.feed) = {} /\ DOMAIN s.feed = {}
    BY <1>5, <1>7, NoElement
  <2> QED
    BY <1>5, <1>7, <2>1, FedLine
<1> QED
  BY <1>1, <1>7, <1>8, <1>9, <1>10, OrderedQuiet

\* What lies below the group that a rule is at, the rule has.
LEMMA GroupLined ==
  ASSUME NEW s \in HandlerStates, s.pc \in InRule, NEW H, NEW c, Line(s, H, c),
         NEW grp, ToSet(grp) \subseteq Current(s)
  PROVE  Lined(grp, H)
<1> SUFFICES ASSUME NEW x \in ToSet(grp), NEW m \in 1 .. x - 1 PROVE m \in H
  BY DEF Lined
<1>1. x \in Current(s) /\ m \in H \cup Current(s) \cup ToSet(s.feed)
  BY DEF Line, Hand
<1>2. x \in Int
  <2>1. PICK i \in DOMAIN s.groups : x \in ToSet(s.groups[i])
    BY <1>1 DEF Current
  <2>2. s.groups[i] \in Groups
    BY <2>1, HandlerType
  <2> QED
    BY <2>1, <2>2, GroupType, ConstantTypes
<1>3. m \notin ToSet(s.feed)
  BY <1>1, <1>2 DEF Line
<1> QED
  BY <1>1, <1>3 DEF Line

\* A handler inside processRule goes on.
LEMMA GoesLine ==
  ASSUME TypeOK, NEW h \in Handlers, handlers[h].pc \in InRule, NEW s, Goes(h, s),
         NEW H, NEW H2, H \subseteq H2, NEW c, NEW c2,
         Line(handlers[h], H, c)
  PROVE  Line(s, H2, c2) /\ Hand(handlers[h]) \subseteq Hand(s) \cup H2
<1>1. handlers[h] \in HandlerStates /\ handlers[h].groups \in Seq(Groups) /\ handlers[h].groups # <<>>
  BY HandlerType DEF TypeOK
<1>2. /\ Current(handlers[h]) \subseteq H2
      /\ \A i \in DOMAIN handlers[h].groups : i = 1
  BY DEF Line
<1>3. CASE s.groups = handlers[h].groups /\ s.feed = handlers[h].feed /\ s.pc # "fetch"
  <2>1. Current(s) = Current(handlers[h]) /\ Hand(s) = Hand(handlers[h])
    BY <1>3 DEF Current, Hand
  <2> QED
    BY <1>2, <1>3, <2>1 DEF Line
<1>4. CASE OneGroupLess(h, s)
  <2>1. PICK gs \in Seq(Groups), tl \in Seq(Groups) :
          gs = handlers[h].groups /\ tl = Tail(gs) /\ s.groups = tl
    BY <1>1, <1>4, HeadTail DEF OneGroupLess
  <2>2. \A i \in DOMAIN tl : FALSE
    <3>1. SUFFICES ASSUME NEW i \in DOMAIN tl PROVE FALSE
      OBVIOUS
    <3>2. i \in Nat \ {0}
      BY <2>1
    <3>3. i + 1 \in DOMAIN gs
      BY <1>1, <2>1, HeadTail
    <3>4. i + 1 = 1
      BY <1>2, <2>1, <3>3
    <3> QED
      BY <3>2, <3>4
  <2>3. Current(s) = {} /\ Hand(s) = ToSet(s.feed) /\ \A i \in DOMAIN s.groups : i = 1
    BY <2>1, <2>2 DEF Current, Hand
  <2>4. s.feed = handlers[h].feed /\ s.pc \notin InRule \cup {"fetch"}
    BY <1>4 DEF OneGroupLess
  <2>5. Hand(handlers[h]) \subseteq Hand(s) \cup H2
    BY <1>2, <2>3, <2>4 DEF Hand
  <2>6. \A x \in Hand(s) : 1 .. x - 1 \subseteq H2 \cup Hand(s)
    BY <2>3, <2>4, <2>5 DEF Line, Hand
  <2> QED
    BY <2>3, <2>4, <2>5, <2>6 DEF Line
<1> QED
  BY <1>3, <1>4 DEF Goes, InPlace, OneRuleLess, InRule

\* The steps of processRule that leave trackers and consumer alone.
LEMMA RuleOrdered ==
  ASSUME TypeOK, Ordered, NEW h \in Handlers, handlers[h].pc \in InRule,
         NEW s, Moves(h, s), Goes(h, s),
         UNCHANGED <<delivered, trackers, consumer, settled, unwritten, aside>>,
         \/ UNCHANGED queue
         \/ \E t \in Tasks : queue' = Append(queue, t) /\ t.msgs = Grp(h)
  PROVE  Ordered'
<1>1. /\ \A r \in Rules : Has(r)' = Has(r)
      /\ \A r \in Rules : trackers'[r].cursor = trackers[r].cursor /\ trackers[r].cursor \in Nat
  BY DEF Has, TypeOK, Trackers
<1>2. HasGrows
  BY <1>1 DEF HasGrows
<1>3. handlers[h].groups # <<>> /\ handlers[h] \in HandlerStates
  BY InRuleGroups DEF TypeOK
<1>4. ASSUME NEW r \in Rules PROVE Line(s, Has(r), trackers[r].cursor) /\ Lined(Grp(h), Has(r))
                                   /\ Hand(handlers[h]) \subseteq Hand(s) \cup Has(r)
  <2>1. Line(handlers[h], Has(r), trackers[r].cursor)
    BY DEF Ordered, Lines
  <2>2. ToSet(Grp(h)) \subseteq Current(handlers[h])
    <3>1. PICK gs \in Seq(Groups) : gs = handlers[h].groups
      BY <1>3, HandlerType
    <3>2. Head(gs) = gs[1] /\ 1 \in DOMAIN gs
      BY <1>3, <3>1, HeadTail
    <3> QED
      BY <3>1, <3>2 DEF Current, Grp
  <2>3. Lined(Grp(h), Has(r))
    BY <1>3, <2>1, <2>2, GroupLined
  <2>4. /\ Line(s, Has(r), trackers[r].cursor)
        /\ Hand(handlers[h]) \subseteq Hand(s) \cup Has(r)
    <3>1. PICK H, c : H = Has(r) /\ c = trackers[r].cursor
      OBVIOUS
    <3>2. Line(handlers[h], H, c) /\ H \subseteq H
      BY <2>1, <3>1
    <3>3. Line(s, H, c) /\ Hand(handlers[h]) \subseteq Hand(s) \cup H
      BY <3>2, GoesLine, Zenon
    <3> QED
      BY <3>1, <3>3
  <2> QED
    BY <2>3, <2>4
<1>5. ASSUME NEW r \in Rules PROVE Waiting(r)'
  <2>1. CASE UNCHANGED queue
    BY <1>2, <2>1, WaitingStays DEF Ordered
  <2>2. ASSUME NEW t \in Tasks, queue' = Append(queue, t), t.msgs = Grp(h) PROVE Waiting(r)'
    <3>1. \A i \in DOMAIN queue' : (i \in DOMAIN queue /\ queue'[i] = queue[i]) \/ queue'[i] = t
      BY <2>2, AppendOne DEF TypeOK
    <3> QED
      BY <1>1, <1>4, <2>2, <3>1 DEF Waiting, Ordered
  <2> QED
    BY <2>1, <2>2
<1>6. \A r \in Rules : Tracked(r)' /\ Waiting(r)'
  BY <1>2, <1>5, TrackedStays DEF Ordered
<1> QED
  BY <1>1, <1>2, <1>4, <1>6, OrderedMoves

\* What a handler is at is one group, of one message.
LEMMA OneAtHand ==
  ASSUME TypeOK, Alone, NEW h \in Handlers, handlers[h].groups # <<>>,
         \A i \in DOMAIN handlers[h].groups : i = 1
  PROVE  /\ Current(handlers[h]) = ToSet(Grp(h))
         /\ \A x, y \in Current(handlers[h]) : x = y
<1>1. PICK gs \in Seq(Groups) : gs = handlers[h].groups /\ gs # <<>>
  BY HandlerType DEF TypeOK
<1>2. Head(gs) = gs[1] /\ 1 \in DOMAIN gs /\ Head(gs) \in Groups
  BY <1>1, HeadTail
<1>3. Current(handlers[h]) = ToSet(gs[1])
  BY <1>1, <1>2 DEF Current
<1>4. PICK q \in Groups : q = Grp(h) /\ q = gs[1]
  BY <1>1, <1>2 DEF Grp
<1> QED
  BY <1>3, <1>4, AloneFacts

LEMMA ObserveOrdered ==
  ASSUME TypeOK, Ordered, Alone, NEW h \in Handlers, Observe(h)
  PROVE  Ordered'
<1>1. /\ handlers[h].groups # <<>> /\ handlers[h] \in HandlerStates
      /\ handlers[h].pc = "next" /\ Goto(h, "check")
      /\ UNCHANGED <<delivered, queue, consumer, settled, unwritten, aside>>
  BY DEF Observe, At, TypeOK, env, ends
<1>2. PICK R \in Rules, grp \in Groups, S \in SUBSET Ids :
        R = Rule(h) /\ grp = Grp(h) /\ S = ToSet(grp)
  BY <1>1, InHandType
<1>3. /\ trackers' = [trackers EXCEPT ![R] = ObserveAll(@, S)]
      /\ trackers'[R] = ObserveAll(trackers[R], S)
  BY <1>2 DEF Observe, TypeOK
<1>4. PICK s : Moves(h, s) /\ s.pc = "check" /\ InPlace(h, s)
  BY <1>1, GotoMoves DEF InRule
<1>5. /\ Line(handlers[h], Has(R), trackers[R].cursor) /\ Tracked(R)
      /\ \A r \in Rules : r = R
  BY AloneFacts DEF Ordered, Lines
<1>6. Current(handlers[h]) = S /\ \A x, y \in S : x = y
  BY <1>1, <1>2, <1>5, OneAtHand DEF Line
<1>7. ASSUME NEW x \in S PROVE 1 .. x - 1 \subseteq Has(R)
  <2> SUFFICES ASSUME NEW m \in 1 .. x - 1 PROVE m \in Has(R)
    OBVIOUS
  <2>1. x \in Int /\ m \in Int /\ m < x
    BY ConstantTypes
  <2>2. m \in Has(R) \cup S \cup ToSet(handlers[h].feed)
    BY <1>5, <1>6 DEF Line, Hand
  <2>3. m \notin S
    BY <1>6, <2>1
  <2>4. m \notin ToSet(handlers[h].feed)
    BY <1>5, <1>6, <2>1 DEF Line
  <2> QED
    BY <2>2, <2>3, <2>4
<1>8. HasGrows
  <2>1. trackers[R].unresolved \subseteq trackers'[R].unresolved
    BY <1>3 DEF ObserveAll, TypeOK, Trackers
  <2> QED
    BY <1>1, <1>5, <2>1 DEF HasGrows, Has
<1>9. Tracked(R)' /\ trackers'[R].cursor = trackers[R].cursor /\ S \subseteq Has(R)'
  BY <1>1, <1>3, <1>5, <1>7, <1>8, TrackedObserves
<1>10. ASSUME NEW r \in Rules
       PROVE  /\ trackers'[r].cursor >= trackers[r].cursor /\ trackers'[r].cursor \in Nat
              /\ Tracked(r)'
              /\ Waiting(r)'
  <2>1. Waiting(r)'
    BY <1>1, <1>8, WaitingStays DEF Ordered
  <2>2. trackers[r].cursor \in Nat
    BY DEF TypeOK, Trackers
  <2> QED
    BY <1>5, <1>9, <2>1, <2>2
<1>11. ASSUME NEW r \in Rules
       PROVE  /\ Line(s, Has(r)', trackers'[r].cursor)
              /\ Hand(handlers[h]) \subseteq Hand(s) \cup Has(r)'
  <2>1. Current(s) = S /\ Hand(s) = Hand(handlers[h]) /\ s.feed = handlers[h].feed
        /\ s.groups = handlers[h].groups
    BY <1>4, <1>6 DEF InPlace, Current, Hand
  <2>2. Has(r) \subseteq Has(r)' /\ r = R
    BY <1>5, <1>8 DEF HasGrows
  <2> QED
    BY <1>4, <1>5, <1>6, <1>9, <2>1, <2>2 DEF Line
<1> QED
  BY <1>1, <1>4, <1>8, <1>10, <1>11, OrderedMoves

\* finishTerminals for messages with nothing left out below them.
LEMMA FinishOrders ==
  ASSUME TypeOK, TrackersSound, Ordered, Alone, NEW R \in Rules, NEW grp \in Groups,
         Finish(R, grp), Lined(grp, Has(R))
  PROVE  /\ HasGrows
         /\ \A r \in Rules : /\ Tracked(r)' /\ trackers'[r].cursor \in Nat
                             /\ trackers'[r].cursor >= trackers[r].cursor
<1>1. PICK S \in SUBSET Ids : S = ToSet(grp)
  BY GroupType
<1>2. /\ trackers'[R] = TerminalAll(trackers[R], S) /\ settled'[R] = settled[R] \cup S
      /\ trackers' \in [Rules -> Trackers(Ids)] /\ UNCHANGED <<unwritten, aside>>
      /\ trackers[R].unresolved \subseteq trackers'[R].unresolved \cup S
  BY <1>1, FinishFacts
<1>3. Tracked(R) /\ \A r \in Rules : r = R
  BY AloneFacts DEF Ordered
<1>4. HasGrows
  BY <1>2, <1>3 DEF HasGrows, Has
<1>5. \A x \in S : 1 .. x - 1 \subseteq Has(R)
  BY <1>1 DEF Lined
<1>6. Tracked(R)' /\ trackers'[R].cursor >= trackers[R].cursor
  BY <1>2, <1>3, <1>4, <1>5, TrackedFinishes
<1>7. trackers'[R].cursor \in Nat
  BY <1>2 DEF Trackers
<1> QED
  BY <1>3, <1>4, <1>6, <1>7

LEMMA FinishSkippedOrdered ==
  ASSUME TypeOK, TrackersSound, Ordered, Alone, NEW h \in Handlers, FinishSkipped(h)
  PROVE  Ordered'
<1>1. /\ handlers[h].pc = "finish" /\ Finish(Rule(h), Grp(h))
      /\ UNCHANGED <<delivered, queue, consumer>>
  BY DEF FinishSkipped, At, env
<1>2. handlers[h].pc \in InRule /\ handlers[h].groups # <<>> /\ handlers[h] \in HandlerStates
  BY <1>1, InRuleGroups DEF InRule, TypeOK
<1>3. PICK R \in Rules, grp \in Groups : R = Rule(h) /\ grp = Grp(h)
  BY <1>2, InHandType
<1>4. PICK c : c = Captured(R, grp)
  OBVIOUS
<1>5. PICK s : Moves(h, s) /\ Goes(h, s)
  BY <1>3, <1>4, FinishSkippedMoves
<1>6. /\ Line(handlers[h], Has(R), trackers[R].cursor)
      /\ \A r \in Rules : r = R
  BY AloneFacts DEF Ordered, Lines
<1>7. Lined(grp, Has(R))
  <2>1. Current(handlers[h]) = ToSet(grp)
    BY <1>2, <1>3, <1>6, OneAtHand DEF Line
  <2> QED
    BY <1>2, <1>6, <2>1, GroupLined
<1>8. /\ HasGrows
      /\ \A r \in Rules : /\ Tracked(r)' /\ trackers'[r].cursor \in Nat
                          /\ trackers'[r].cursor >= trackers[r].cursor
  BY <1>1, <1>3, <1>7, FinishOrders
<1>9. ASSUME NEW r \in Rules
      PROVE  /\ Line(s, Has(r)', trackers'[r].cursor)
             /\ Hand(handlers[h]) \subseteq Hand(s) \cup Has(r)'
  <2>1. PICK H, H2, c1, c2 : /\ H = Has(r) /\ H2 = Has(r)'
                             /\ c1 = trackers[r].cursor /\ c2 = trackers'[r].cursor
    OBVIOUS
  <2>2. Line(handlers[h], H, c1) /\ H \subseteq H2
    BY <1>6, <1>8, <2>1 DEF HasGrows
  <2>3. Line(s, H2, c2) /\ Hand(handlers[h]) \subseteq Hand(s) \cup H2
    BY <1>2, <1>5, <2>2, GoesLine, Zenon
  <2> QED
    BY <2>1, <2>3
<1>10. \A r \in Rules : Tracked(r)' /\ Waiting(r)'
  BY <1>1, <1>8, WaitingStays DEF Ordered
<1> QED
  BY <1>1, <1>5, <1>8, <1>9, <1>10, OrderedMoves

\* The other steps of processRule.
LEMMA ProcessOrdered ==
  ASSUME TypeOK, Ordered, NEW h \in Handlers,
         \/ Skip(h) \/ Pass(h) \/ Push(h)
         \/ CheckFails(h) \/ CountEnqueued(h) \/ PersistSkipped(h)
         \/ h \in Backfillers /\ PushCancelled(h)
  PROVE  Ordered'
<1>1. /\ handlers[h].pc \in InRule /\ handlers[h].groups # <<>>
      /\ UNCHANGED <<delivered, trackers, consumer, settled, unwritten, aside>>
  <2>1. handlers[h].pc \in InRule
    BY DEF Skip, Pass, Push, CheckFails, CountEnqueued, PersistSkipped, PushCancelled, At, InRule
  <2> QED
    BY <2>1, InRuleGroups DEF Skip, Pass, Push, CheckFails, CountEnqueued, PersistSkipped,
       PushCancelled, env, history, ends
<1>2. CASE CheckFails(h) \/ CountEnqueued(h) \/ PersistSkipped(h) \/ PushCancelled(h)
  <2>1. RuleDone(h) /\ UNCHANGED queue
    BY <1>2 DEF CheckFails, CountEnqueued, PersistSkipped, PushCancelled
  <2>2. PICK s : Moves(h, s) /\ (OneRuleLess(h, s) \/ OneGroupLess(h, s))
    BY <1>1, <2>1, RuleDoneMoves
  <2> QED
    BY <1>1, <2>1, <2>2, RuleOrdered DEF Goes
<1>3. CASE Skip(h) \/ Pass(h) \/ Push(h)
  <2>1. PICK pc \in {"finish", "push", "count"} : Goto(h, pc)
    BY <1>3 DEF Skip, Pass, Push
  <2>2. PICK s : Moves(h, s) /\ s.pc = pc /\ InPlace(h, s)
    BY <1>1, <2>1, GotoMoves DEF InRule
  <2>3. Goes(h, s)
    BY <2>1, <2>2 DEF Goes, InRule
  <2>4. \/ UNCHANGED queue
        \/ \E t \in Tasks : queue' = Append(queue, t) /\ t.msgs = Grp(h)
    <3>1. CASE Push(h)
      <4>1. PICK R \in Rules, grp \in Groups : R = Rule(h) /\ grp = Grp(h)
        BY <1>1, InHandType
      <4> DEFINE t == [rule |-> R, msgs |-> grp]
      <4>2. t \in Tasks /\ t.msgs = grp
        BY DEF Tasks
      <4>3. queue' = Append(queue, t)
        BY <3>1, <4>1 DEF Push
      <4> HIDE DEF t
      <4> QED
        BY <4>1, <4>2, <4>3
    <3>2. CASE Skip(h) \/ Pass(h)
      BY <3>2 DEF Skip, Pass
    <3> QED
      BY <1>3, <3>1, <3>2
  <2> QED
    BY <1>1, <2>2, <2>3, <2>4, RuleOrdered
<1> QED
  BY <1>2, <1>3
-----------------------------------------------------------------------------
(* The consumer, the operator and the process. *)

LEMMA OrderedStill ==
  ASSUME TypeOK, Ordered,
         UNCHANGED <<delivered, handlers, trackers, settled, unwritten, aside>>,
         \A r \in Rules : Waiting(r)'
  PROVE  Ordered'
<1>1. HasGrows
  BY DEF HasGrows, Has
<1>2. \A r \in Rules : trackers'[r].cursor >= trackers[r].cursor /\ trackers'[r].cursor \in Nat
  BY DEF TypeOK, Trackers
<1>3. \A r \in Rules : Tracked(r)'
  BY <1>1, TrackedStays DEF Ordered
<1> QED
  BY <1>1, <1>2, <1>3, OrderedRests

LEMMA WaitingGoesOn ==
  ASSUME NEW r \in Rules, Waiting(r), HasGrows, UNCHANGED queue,
         consumer'.pc # "idle" => consumer.pc # "idle" /\ UNCHANGED Task.msgs
  PROVE  Waiting(r)'
BY DEF Waiting, Lined, HasGrows, Task

LEMMA ConsumerOrdered ==
  ASSUME TypeOK, Ordered,
         \/ Publish \/ Pause \/ Resume
         \/ Take \/ SendOK \/ SendFails \/ SendRejected \/ RecordMember \/ PersistSent
         \/ UNCHANGED vars
  PROVE  Ordered'
<1>1. UNCHANGED <<delivered, handlers, trackers, settled, unwritten, aside>>
  BY DEF Publish, Pause, Resume, Take, SendOK, SendFails, SendRejected, RecordMember, PersistSent,
     vars, env, history, ends
<1>2. HasGrows
  BY <1>1 DEF HasGrows, Has
<1>3. ASSUME NEW r \in Rules PROVE Waiting(r)'
  <2>1. CASE Take
    <3>1. PICK q \in Seq(Tasks), tl \in Seq(Tasks), task \in Tasks :
            /\ q = queue /\ q # <<>> /\ tl = Tail(q) /\ task = Head(q)
      BY <2>1, HeadTail DEF Take, TypeOK
    <3>2. /\ task = q[1] /\ 1 \in DOMAIN q
          /\ \A i \in DOMAIN tl : i + 1 \in DOMAIN q /\ tl[i] = q[i + 1]
      BY <3>1, HeadTail
    <3>3. queue' = tl /\ consumer'.task = task
      BY <2>1, <3>1 DEF Take
    <3>4. Lined(task.msgs, Has(r)) /\ \A i \in DOMAIN tl : Lined(tl[i].msgs, Has(r))
      BY <3>1, <3>2 DEF Ordered, Waiting
    <3> QED
      BY <1>2, <3>3, <3>4 DEF Waiting, Lined, HasGrows
  <2>2. CASE ~ Take
    <3>1. UNCHANGED queue /\ (consumer'.pc # "idle" => consumer.pc # "idle" /\ UNCHANGED Task.msgs)
      <4>1. CASE Publish \/ Pause \/ Resume \/ UNCHANGED vars
        BY <4>1 DEF Publish, Pause, Resume, vars, Task
      <4>2. CASE PersistSent
        BY <4>2, IdleConsumerState DEF PersistSent, Settle
      <4>3. CASE SendOK \/ SendFails \/ SendRejected \/ RecordMember
        <5>1. consumer.pc # "idle" /\ UNCHANGED queue
          BY <4>3 DEF SendOK, SendFails, SendRejected, RecordMember, ConsumerAt
        <5>2. \/ consumer' = IdleConsumer
              \/ \E p : consumer' = [consumer EXCEPT !.pc = p]
              \/ consumer' = [consumer EXCEPT !.tries = @ + 1]
              \/ consumer' = [consumer EXCEPT !.left = Tail(@)]
          BY <4>3 DEF SendOK, SendFails, SendRejected, RecordMember, Settle
        <5>3. consumer \in [pc : {"send", "record", "finish", "persist"}, task : Tasks,
                            tries : Nat, left : Seq(Ids), adv : Nat]
          BY <5>1 DEF TypeOK, ConsumerStates, IdleConsumer
        <5>4. consumer' = IdleConsumer \/ consumer'.task = consumer.task
          BY <5>2, <5>3
        <5> QED
          BY <5>1, <5>4, IdleConsumerState DEF Task
      <4> QED
        BY <2>2, <4>1, <4>2, <4>3
    <3> QED
      BY <1>2, <3>1, WaitingGoesOn DEF Ordered
  <2> QED
    BY <2>1, <2>2
<1> QED
  BY <1>1, <1>3, OrderedStill

LEMMA FinishSentOrdered ==
  ASSUME TypeOK, TrackersSound, Ordered, Alone, FinishSent
  PROVE  Ordered'
<1>1. /\ consumer.pc # "idle" /\ Finish(Task.rule, Task.msgs)
      /\ UNCHANGED <<delivered, queue, handlers>>
  BY DEF FinishSent, ConsumerAt, env
<1>2. PICK R \in Rules, grp \in Groups : R = Task.rule /\ grp = Task.msgs
  BY <1>1, ConsumerType
<1>3. Lined(grp, Has(R))
  BY <1>1, <1>2 DEF Ordered, Waiting, Task
<1>4. /\ HasGrows
      /\ \A r \in Rules : /\ Tracked(r)' /\ trackers'[r].cursor \in Nat
                          /\ trackers'[r].cursor >= trackers[r].cursor
  BY <1>1, <1>2, <1>3, FinishOrders
<1>5. consumer'.pc # "idle" => UNCHANGED Task.msgs
  <2>1. \/ consumer' = IdleConsumer
        \/ \E c : consumer' = [consumer EXCEPT !.pc = "persist", !.adv = c]
    BY DEF FinishSent, Settle
  <2>2. consumer \in [pc : {"send", "record", "finish", "persist"}, task : Tasks,
                      tries : Nat, left : Seq(Ids), adv : Nat]
    BY <1>1 DEF TypeOK, ConsumerStates, IdleConsumer
  <2>3. consumer' = IdleConsumer \/ consumer'.task = consumer.task
    BY <2>1, <2>2
  <2> QED
    BY <2>3, IdleConsumerState DEF Task
<1>6. \A r \in Rules : Waiting(r)'
  BY <1>1, <1>4, <1>5, WaitingGoesOn DEF Ordered
<1> QED
  BY <1>1, <1>4, <1>6, OrderedRests

\* A process ended: what was in progress is set aside, the cursors start from
\* the persisted ones.
LEMMA EndOrdered ==
  ASSUME IInv, Ordered, Crash \/ Shutdown
  PROVE  Ordered'
<1>1. /\ UNCHANGED <<settled, unwritten>>
      /\ aside' = aside \cup {m \in 1 .. delivered' : \E r \in Rules : m \notin settled[r]}
      /\ trackers' = NewTrackers(dbCursor) /\ queue' = <<>>
      /\ handlers' = AllIdle /\ consumer' = IdleConsumer
  BY DEF Crash, Shutdown, ProcessEnds
<1>2. Idle \in HandlerStates /\ Idle.pc = "idle" /\ IdleConsumer.pc = "idle"
  BY IdleState, IdleConsumerState
<1>3. ASSUME NEW r \in Rules PROVE Tracked(r)' /\ Streamed(r)' /\ Waiting(r)' /\ Lines(r)'
  <2>1. /\ trackers'[r].cursor = dbCursor[r] /\ trackers'[r].terminals = {}
        /\ trackers'[r].unresolved = {}
    BY <1>1 DEF NewTrackers, newCursorTracker
  <2>2. ASSUME NEW m \in 1 .. dbCursor[r] PROVE m \in Has(r)'
    <3>1. /\ dbCursor[r] \in Nat /\ trackers[r].cursor \in Nat
          /\ dbCursor[r] <= trackers[r].cursor /\ Sound(trackers[r])
      BY DEF IInv, TypeOK, TrackersSound, Behind, Trackers
    <3>2. m \in 1 .. trackers[r].cursor /\ m <= trackers[r].cursor
      BY <3>1
    <3>3. m \in Has(r) /\ m \notin trackers[r].unresolved
      <4>1. m \in Has(r)
        BY <3>2 DEF Ordered, Tracked
      <4>2. \A x \in trackers[r].unresolved : x > trackers[r].cursor
        BY <3>1 DEF Sound
      <4> QED
        BY <3>1, <3>2, <4>1, <4>2
    <3> QED
      BY <1>1, <3>3 DEF Has
  <2>3. Tracked(r)'
    BY <2>1, <2>2 DEF Tracked
  <2>4. Streamed(r)'
    BY <1>1 DEF Streamed, Has
  <2>5. Waiting(r)'
    BY <1>1, <1>2, NoElement DEF Waiting
  <2>6. \A h \in Handlers : Line(handlers'[h], Has(r)', trackers'[r].cursor)
    BY <1>1, <1>2, WaitingLine DEF AllIdle, Waits
  <2> QED
    BY <2>3, <2>4, <2>5, <2>6 DEF Lines
<1> QED
  BY <1>3 DEF Ordered

LEMMA InitOrdered ==
  ASSUME Init PROVE UsedOK /\ Ordered
<1>1. /\ delivered = 0 /\ trackers = [r \in Rules |-> newCursorTracker(0)]
      /\ handlers = [h \in Handlers |-> Idle] /\ queue = <<>> /\ consumer = IdleConsumer
  BY DEF Init, NewTrackers, AllIdle
<1>2. Idle \in HandlerStates /\ Idle.pc = "idle" /\ IdleConsumer.pc = "idle"
  BY IdleState, IdleConsumerState
<1>3. ASSUME NEW r \in Rules PROVE Tracked(r) /\ Streamed(r) /\ Waiting(r) /\ Lines(r)
  <2>1. Tracked(r) /\ Streamed(r)
    BY <1>1 DEF Tracked, Streamed, newCursorTracker
  <2>2. Waiting(r)
    BY <1>1, <1>2, NoElement DEF Waiting
  <2>3. \A h \in Handlers : Line(handlers[h], Has(r), trackers[r].cursor)
    BY <1>1, <1>2, WaitingLine DEF Waits
  <2> QED
    BY <2>1, <2>2, <2>3 DEF Lines
<1>4. UsedOK
  BY DEF Init, UsedOK
<1> QED
  BY <1>3, <1>4 DEF Ordered

LEMMA NextOrdered ==
  ASSUME IInv, UsedOK, Alone, Ordered, [Next]_vars, used'["gaps"] = 0
  PROVE  Ordered'
<1>1. TypeOK /\ TrackersSound
  BY DEF IInv
<1>2. CASE \/ Publish \/ Deliver \/ ChannelGap \/ ChannelGapFails \/ FlushDue
           \/ BatchFails \/ WriteNewFails
  <2>1. ~ ChannelGap /\ ~ ChannelGapFails
    BY LimitNames, SpendUses DEF ChannelGap, ChannelGapFails
  <2>2. ~ FlushDue
    BY AloneFacts DEF FlushDue, Collected
  <2>3. WriteNewFails => Ordered'
    <3>1. PICK h \in Handlers : h = "live"
      BY DEF Handlers
    <3> QED
      BY <1>1, <3>1, HandleNewOrdered
  <2> QED
    BY <1>1, <1>2, <2>1, <2>2, <2>3, ConsumerOrdered, DeliverOrdered, BatchFailsOrdered
<1>3. ASSUME NEW h \in Handlers, HandleNew(h) \/ ProcessRule(h) \/ CheckFails(h)
      PROVE  Ordered'
  <2>1. CASE HandleNew(h)
    BY <1>1, <2>1, HandleNewOrdered
  <2>2. CASE Observe(h) \/ FinishSkipped(h)
    BY <1>1, <2>2, ObserveOrdered, FinishSkippedOrdered
  <2>3. CASE Skip(h) \/ Pass(h) \/ PersistSkipped(h) \/ Push(h) \/ CountEnqueued(h) \/ CheckFails(h)
    BY <1>1, <2>3, ProcessOrdered
  <2> QED
    BY <1>3, <2>1, <2>2, <2>3 DEF ProcessRule
<1>4. ASSUME NEW b \in Backfillers,
             \/ \E r \in Rules : StartBackfill(b, r)
             \/ Drain(b) \/ BackfillFails(b) \/ PushCancelled(b)
      PROVE  Ordered'
  <2>1. b \in Handlers
    BY DEF Handlers
  <2>2. CASE FetchHistory(b)
    BY <1>1, <2>2, FetchHistoryOrdered
  <2>3. CASE DrainFlush(b)
    BY <1>1, <2>3, FlushOrdered
  <2>4. CASE PushCancelled(b)
    BY <1>1, <2>1, <2>4, ProcessOrdered
  <2>5. CASE (\E r \in Rules : StartBackfill(b, r)) \/ DrainDone(b) \/ DrainAgain(b) \/ BackfillFails(b)
    BY <1>1, <2>5, BackfillOrdered
  <2> QED
    BY <1>4, <2>2, <2>3, <2>4, <2>5 DEF Drain
<1>5. CASE Consume \/ SendFails \/ SendRejected
  BY <1>1, <1>5, ConsumerOrdered, FinishSentOrdered DEF Consume
<1>6. CASE Pause \/ Resume \/ Crash \/ Shutdown
  BY <1>1, <1>6, ConsumerOrdered, EndOrdered
<1>7. CASE UNCHANGED vars
  BY <1>1, <1>7, ConsumerOrdered
<1> QED
  BY <1>2, <1>3, <1>4, <1>5, <1>6, <1>7 DEF Next

InOrder == UsedOK /\ (Alone /\ used["gaps"] = 0 => Ordered)

LEMMA StepInOrder ==
  ASSUME IInv, InOrder, [Next]_vars PROVE InOrder'
<1>1. UsedGrows
  BY StepUses DEF InOrder
<1>2. ASSUME Alone, used'["gaps"] = 0 PROVE Ordered'
  <2>1. used["gaps"] = 0
    BY <1>1, <1>2, LimitNames DEF UsedGrows
  <2> QED
    BY <1>2, <2>1, NextOrdered DEF InOrder
<1> QED
  BY <1>1, <1>2 DEF InOrder, UsedGrows, Alone

LEMMA InOrderHolds == Spec => []InOrder
<1>1. Init => InOrder
  BY InitOrdered DEF InOrder
<1>2. IInv /\ InOrder /\ [Next]_vars => InOrder'
  BY StepInOrder
<1> QED
  BY <1>1, <1>2, Invariance, PTL DEF Spec

\* With one rule, single messages and no gap of the updates stream, the
\* persisted cursor covers only messages that ended or were lost for a cause
\* outside the forwarding itself (finishTerminals, engine.go:801, and Backfill).
THEOREM NothingSkipped == Spec => []NoSkippedMessage
<1>1. IInv /\ InOrder => NoSkippedMessage
  <2> SUFFICES ASSUME IInv, Ordered, NEW r \in Rules, NEW m \in 1 .. published, m <= dbCursor[r]
               PROVE  m \in settled[r] \cup unwritten \cup aside
    BY DEF InOrder, NoSkippedMessage
  <2>1. dbCursor[r] <= trackers[r].cursor /\ Sound(trackers[r])
    BY DEF IInv, TrackersSound, Behind
  <2>2. dbCursor[r] \in Nat /\ trackers[r].cursor \in Nat /\ m \in Nat /\ m >= 1
    BY DEF IInv, TypeOK, Trackers
  <2>3. m \in 1 .. trackers[r].cursor
    BY <2>1, <2>2
  <2>4. m \in Has(r)
    BY <2>3 DEF Ordered, Tracked
  <2>5. m \notin trackers[r].unresolved
    BY <2>1, <2>2 DEF Sound
  <2> QED
    BY <2>4, <2>5 DEF Has
<1> QED
  BY <1>1, InOrderHolds, Invariance, PTL
-----------------------------------------------------------------------------
(***************************************************************************)
(* Undisturbed, a message is at one place at a time: coming, in an album,  *)
(* in the hands of one handler, or past them; and past them it is queued,  *)
(* being sent or posted for a rule at most once.                           *)
(***************************************************************************)
Undisturbed ==
  OneRulePerTarget /\ Backfillers = {} /\ \A b \in DOMAIN used \ {"pauses"} : used[b] = 0

\* The rules that a handler has not yet asked for the first of its groups.
Ahead(s) == ToSet(IF s.pc = "count" THEN Tail(s.todo) ELSE s.todo)

Whole(s) ==
  /\ \A i \in DOMAIN s.groups : IsInjective(s.groups[i])
  /\ \A i, j \in DOMAIN s.groups : i # j => ToSet(s.groups[i]) \cap ToSet(s.groups[j]) = {}
  /\ IsInjective(s.feed)
  /\ ToSet(s.feed) \cap Current(s) = {}
  /\ IsInjective(s.todo)

AllAlbums == UNION {ToSet(album[g]) : g \in Albums}

Apart ==
  /\ \A h \in Handlers : /\ Whole(handlers[h])
                         /\ Hand(handlers[h]) \cap AllAlbums = {}
                         /\ Hand(handlers[h]) \subseteq 1 .. delivered
  /\ \A h, k \in Handlers : h # k => Hand(handlers[h]) \cap Hand(handlers[k]) = {}
  /\ \A g \in Albums : IsInjective(album[g])
  /\ AllAlbums \subseteq 1 .. delivered

\* What went past the handlers for rule r: queued, being sent, or posted.
Sending == IF consumer.pc = "send" THEN {consumer.task} ELSE {}
Queued(r) == UNION {ToSet(queue[i].msgs) : i \in {j \in DOMAIN queue : queue[j].rule = r}}
Going(r) == UNION {ToSet(t.msgs) : t \in {x \in Sending : x.rule = r}}
Posts(r) == {m \in Ids : sent[Target[r]][m] > 0}
Out(r) == Queued(r) \cup Going(r) \cup Posts(r)

Flying ==
  /\ \A i \in DOMAIN queue : IsInjective(queue[i].msgs)
  /\ \A i, j \in DOMAIN queue : i # j /\ queue[i].rule = queue[j].rule
       => ToSet(queue[i].msgs) \cap ToSet(queue[j].msgs) = {}
  /\ \A r \in Rules : \A i \in DOMAIN queue :
       queue[i].rule = r => ToSet(queue[i].msgs) \cap (Going(r) \cup Posts(r)) = {}
  /\ \A x \in Sending : IsInjective(x.msgs)
  /\ \A r \in Rules : Going(r) \cap Posts(r) = {}

\* What is out for rule r has left the handler in state s, for r.
Fresh(s, r, O) ==
  /\ ToSet(s.feed) \cap O = {}
  /\ \A i \in DOMAIN s.groups : i # 1 \/ r \in Ahead(s) => ToSet(s.groups[i]) \cap O = {}

Past ==
  \A r \in Rules : /\ Out(r) \subseteq 1 .. delivered /\ Out(r) \cap AllAlbums = {}
                   /\ \A h \in Handlers : Fresh(handlers[h], r, Out(r))

OnceInv == Apart /\ Flying /\ Past /\ AtMostOnce

LEMMA OneRuleFacts ==
  ASSUME OneRulePerTarget
  PROVE  IsInjective(RuleOrder) /\ \A r, p \in Rules : Target[r] = Target[p] => r = p
BY DEF OneRulePerTarget, IsInjective, Rules, ToSet

\* Handler h moves, and takes only what it had, what was collected, or what is new.
LEMMA ApartMoves ==
  ASSUME TypeOK, Apart, NEW h \in Handlers, NEW s, Moves(h, s), Whole(s),
         delivered' \in Nat, delivered' >= delivered,
         Hand(s) \cup AllAlbums'
           \subseteq Hand(handlers[h]) \cup AllAlbums \cup (delivered + 1 .. delivered'),
         Hand(s) \cap AllAlbums' = {}, \A g \in Albums : IsInjective(album'[g])
  PROVE  Apart'
<1>1. handlers'[h] = s /\ \A k \in Handlers \ {h} : handlers'[k] = handlers[k]
  BY DEF Moves, TypeOK
<1>2. PICK d \in Nat, e \in Nat : d = delivered /\ e = delivered' /\ d <= e
  BY DeliveredType
<1>3. /\ \A m \in 1 .. d : m \in 1 .. e /\ m \notin d + 1 .. e
      /\ \A m \in d + 1 .. e : m \in 1 .. e
  BY <1>2
<1>4. Hand(s) \subseteq 1 .. e /\ AllAlbums' \subseteq 1 .. e
  <2>1. Hand(handlers[h]) \subseteq 1 .. d /\ AllAlbums \subseteq 1 .. d
    BY <1>2 DEF Apart
  <2>2. Hand(s) \cup AllAlbums' \subseteq Hand(handlers[h]) \cup AllAlbums \cup (d + 1 .. e)
    BY <1>2
  <2> QED
    BY <1>3, <2>1, <2>2
<1>5. ASSUME NEW k \in Handlers \ {h}
      PROVE  /\ Hand(handlers[k]) \cap Hand(s) = {} /\ Hand(handlers[k]) \cap AllAlbums' = {}
             /\ Hand(handlers[k]) \subseteq 1 .. e
  BY <1>2, <1>3 DEF Apart
<1>6. ASSUME NEW k \in Handlers
      PROVE  /\ Whole(handlers'[k]) /\ Hand(handlers'[k]) \cap AllAlbums' = {}
             /\ Hand(handlers'[k]) \subseteq 1 .. delivered'
  BY <1>1, <1>2, <1>4, <1>5 DEF Apart
<1>7. ASSUME NEW k \in Handlers, NEW l \in Handlers, k # l
      PROVE  Hand(handlers'[k]) \cap Hand(handlers'[l]) = {}
  BY <1>1, <1>5, <1>7 DEF Apart
<1> QED
  BY <1>2, <1>4, <1>6, <1>7 DEF Apart

LEMMA OutOfTypes ==
  ASSUME UNCHANGED <<queue, consumer, sent>>, NEW r
  PROVE  Out(r)' = Out(r)
BY DEF Out, Queued, Going, Posts, Sending

LEMMA FlyingRests ==
  ASSUME UNCHANGED <<queue, consumer, sent>>, Flying, AtMostOnce
  PROVE  Flying' /\ AtMostOnce'
BY DEF Flying, Going, Posts, Sending, AtMostOnce

\* Messages come to a handler that has no groups.
LEMMA IntakeOnce ==
  ASSUME TypeOK, OnceInv, NEW h \in Handlers, handlers[h].groups = <<>>,
         NEW s, Moves(h, s), Whole(s),
         UNCHANGED <<queue, consumer, sent>>,
         delivered' \in Nat, delivered' >= delivered,
         Hand(s) \cup AllAlbums'
           \subseteq Hand(handlers[h]) \cup AllAlbums \cup (delivered + 1 .. delivered'),
         Hand(s) \cap AllAlbums' = {}, \A g \in Albums : IsInjective(album'[g])
  PROVE  OnceInv'
<1>1. handlers'[h] = s /\ \A k \in Handlers \ {h} : handlers'[k] = handlers[k]
  BY DEF Moves, TypeOK
<1>2. Apart' /\ Flying' /\ AtMostOnce'
  BY ApartMoves, FlyingRests DEF OnceInv
<1>3. ASSUME NEW r \in Rules
      PROVE  /\ Out(r)' \subseteq 1 .. delivered' /\ Out(r)' \cap AllAlbums' = {}
             /\ \A k \in Handlers : Fresh(handlers'[k], r, Out(r)')
  <2>1. PICK O : O = Out(r) /\ O = Out(r)'
    BY OutOfTypes
  <2>2. PICK d \in Nat, e \in Nat : d = delivered /\ e = delivered' /\ d <= e
    BY DeliveredType
  <2>3. O \subseteq 1 .. d /\ O \cap AllAlbums = {} /\ \A k \in Handlers : Fresh(handlers[k], r, O)
    BY <2>1, <2>2 DEF OnceInv, Past
  <2>4. Hand(handlers[h]) \cap O = {}
    BY <2>3, EmptyHand DEF Fresh
  <2>5. (Hand(s) \cup AllAlbums') \cap O = {} /\ O \subseteq 1 .. e
    <3>1. (d + 1 .. e) \cap (1 .. d) = {} /\ 1 .. d \subseteq 1 .. e
      BY <2>2
    <3> QED
      BY <2>2, <2>3, <2>4, <3>1
  <2>6. Fresh(s, r, O)
    BY <2>5 DEF Fresh, Hand, Current
  <2> QED
    BY <1>1, <2>1, <2>2, <2>3, <2>5, <2>6
<1> QED
  BY <1>2, <1>3 DEF OnceInv, Past

LEMMA WholeFed ==
  ASSUME OneRulePerTarget, NEW s, s.groups = <<>>, IsInjective(s.feed),
         s.todo = RuleOrder
  PROVE  Whole(s) /\ Hand(s) = ToSet(s.feed)
<1>1. Current(s) = {} /\ Hand(s) = ToSet(s.feed)
  BY EmptyHand
<1>2. DOMAIN s.groups = {}
  OBVIOUS
<1> QED
  BY <1>1, <1>2, OneRuleFacts DEF Whole

LEMMA DeliverOnce ==
  ASSUME TypeOK, OnceInv, OneRulePerTarget, Deliver
  PROVE  OnceInv'
<1>1. PICK n \in Nat, fd \in Seq(Ids) :
        /\ delivered \in Nat /\ n > delivered /\ delivered' = n /\ ToSet(fd) = delivered + 1 .. n
        /\ IsInjective(fd) /\ Feed("live", fd, "idle", n - delivered) /\ n - delivered \in Nat
  BY DeliverFacts
<1>2. "live" \in Handlers /\ handlers["live"].pc \in Waits /\ handlers["live"] \in HandlerStates
  BY DEF Handlers, Waits, Deliver, Free, TypeOK
<1>3. UNCHANGED <<album, queue, consumer, sent>>
  BY DEF Deliver
<1>4. PICK s : Moves("live", s) /\ s.todo = RuleOrder /\ s.groups = <<>> /\ s.feed = fd
  BY <1>1, <1>2, FeedSteps
<1>5. Whole(s) /\ Hand(s) = delivered + 1 .. delivered'
  BY <1>1, <1>4, WholeFed
<1>6. AllAlbums' = AllAlbums /\ AllAlbums \subseteq 1 .. delivered /\ \A g \in Albums : IsInjective(album'[g])
  BY <1>3 DEF AllAlbums, OnceInv, Apart
<1>7. /\ delivered' \in Nat /\ delivered' >= delivered
      /\ (delivered + 1 .. delivered') \cap (1 .. delivered) = {}
  BY <1>1
<1>8. handlers["live"].groups = <<>>
  BY <1>2, WaitingHand
<1>9. Hand(s) \cap AllAlbums' = {}
  BY <1>5, <1>6, <1>7
<1>10. Hand(s) \cup AllAlbums'
         \subseteq Hand(handlers["live"]) \cup AllAlbums \cup (delivered + 1 .. delivered')
  BY <1>5, <1>6, <1>7
<1> QED
  BY <1>2, <1>3, <1>4, <1>5, <1>6, <1>7, <1>8, <1>9, <1>10, IntakeOnce

Gathered(gs) == UNION {ToSet(gs[i]) : i \in DOMAIN gs}

\* HandleNew took the message in hand, into a group, an album, or nowhere.
LEMMA HandOverOnce ==
  ASSUME TypeOK, OnceInv, OneRulePerTarget, NEW h \in Handlers, NextMessage(h),
         NEW gs \in Seq(Groups), HandOver(h, gs), UNCHANGED <<delivered, queue, consumer, sent>>,
         \A i \in DOMAIN gs : i = 1 /\ IsInjective(gs[i]),
         NEW C, C = Gathered(gs),
         C \cup AllAlbums' \subseteq {Head(handlers[h].feed)} \cup AllAlbums,
         C \cap AllAlbums' = {}, \A g \in Albums : IsInjective(album'[g])
  PROVE  OnceInv'
<1>1. handlers[h] \in HandlerStates /\ handlers[h].groups = <<>>
  BY DEF TypeOK, NextMessage
<1>2. PICK fd \in Seq(Ids), tl \in Seq(Ids) :
        /\ fd = handlers[h].feed /\ tl = Tail(fd) /\ ToSet(fd) = {Head(fd)} \cup ToSet(tl)
        /\ fd # <<>>
  <2>1. handlers[h].feed \in Seq(Ids) /\ handlers[h].feed # <<>>
    BY <1>1, HandlerType DEF NextMessage, At
  <2>2. PICK fd \in Seq(Ids) : fd = handlers[h].feed /\ fd # <<>>
    BY <2>1
  <2>3. Tail(fd) \in Seq(Ids) /\ ToSet(fd) = {Head(fd)} \cup ToSet(Tail(fd))
    BY <2>2, HeadTail
  <2> QED
    BY <2>2, <2>3
<1>3. PICK s : Moves(h, s) /\ s.todo = RuleOrder /\ s.groups = gs /\ s.feed = tl
  BY <1>2, HandOverMoves
<1>4. IsInjective(tl) /\ Head(fd) \notin ToSet(tl)
  <2>1. /\ 1 \in DOMAIN fd /\ Head(fd) = fd[1]
        /\ \A i \in DOMAIN tl : i \in Nat \ {0} /\ i + 1 \in DOMAIN fd /\ tl[i] = fd[i + 1]
    BY <1>2, HeadTail
  <2>2. \A i, j \in DOMAIN fd : fd[i] = fd[j] => i = j
    BY <1>2 DEF OnceInv, Apart, Whole, IsInjective
  <2>3. ASSUME NEW i \in DOMAIN tl PROVE tl[i] # Head(fd)
    <3>1. i + 1 # 1 /\ i + 1 \in DOMAIN fd /\ tl[i] = fd[i + 1]
      BY <2>1
    <3> QED
      BY <2>1, <2>2, <3>1
  <2>4. ASSUME NEW i \in DOMAIN tl, NEW j \in DOMAIN tl, tl[i] = tl[j] PROVE i = j
    <3>1. i + 1 = j + 1
      BY <2>1, <2>2, <2>4
    <3> QED
      BY <2>1, <3>1
  <2> QED
    BY <2>3, <2>4 DEF ToSet, IsInjective
<1>5. ToSet(s.feed) = ToSet(tl) /\ Current(s) = C /\ Hand(s) = C \cup ToSet(tl)
  BY <1>3 DEF Current, Hand, Gathered
<1>6. /\ Hand(handlers[h]) = ToSet(fd) /\ ToSet(fd) \cap AllAlbums = {}
      /\ Head(handlers[h].feed) = Head(fd)
  BY <1>1, <1>2, EmptyHand DEF OnceInv, Apart
<1>7. ToSet(tl) \cap C = {} /\ ToSet(tl) \cap AllAlbums' = {}
  BY <1>2, <1>4, <1>6
<1>8. Whole(s)
  BY <1>3, <1>4, <1>5, <1>7, OneRuleFacts DEF Whole
<1>9. delivered' \in Nat /\ delivered' >= delivered
  BY DeliveredType
<1>10. Hand(s) \cup AllAlbums'
         \subseteq Hand(handlers[h]) \cup AllAlbums \cup (delivered + 1 .. delivered')
  BY <1>2, <1>5, <1>6
<1>11. Hand(s) \cap AllAlbums' = {}
  BY <1>5, <1>7
<1> QED
  BY <1>1, <1>3, <1>8, <1>9, <1>10, <1>11, IntakeOnce

LEMMA HandleNewOnce ==
  ASSUME TypeOK, OnceInv, OneRulePerTarget, NEW h \in Handlers, HandleNew(h)
  PROVE  OnceInv'
<1>1. /\ NextMessage(h) /\ UNCHANGED <<delivered, queue, consumer, sent>>
      /\ \A g \in Albums : IsInjective(album[g])
  BY DEF HandleNew, HandleNewPaused, HandleNewSingle, HandleNewAlbum, env, OnceInv, Apart
<1>2. PICK m0 \in Ids : m0 = Head(handlers[h].feed) /\ m0 \notin AllAlbums
  <2>1. handlers[h] \in HandlerStates
    BY DEF TypeOK
  <2>2. PICK fd \in Seq(Ids) : fd = handlers[h].feed /\ fd # <<>>
    BY <1>1, <2>1, HandlerType DEF NextMessage, At
  <2>3. Head(fd) \in Ids /\ Head(fd) \in ToSet(fd)
    BY <2>2, HeadTail
  <2> QED
    BY <2>2, <2>3 DEF OnceInv, Apart, Hand
<1>3. PICK none \in Seq(Groups) : none = <<>> /\ DOMAIN none = {}
  BY NoElement
<1>4. PICK one \in Seq(Groups) : /\ one = << <<m0>> >> /\ DOMAIN one = {1}
                                 /\ one[1] = <<m0>> /\ ToSet(one[1]) = {m0}
                                 /\ IsInjective(one[1])
  <2>1. IsInjective(<<m0>>)
    BY OneElement DEF IsInjective
  <2> QED
    BY <2>1, SingleGroup, OneElement
<1>5. CASE HandleNewPaused(h)
  <2>1. HandOver(h, none) /\ UNCHANGED album
    BY <1>3, <1>5 DEF HandleNewPaused
  <2>2. AllAlbums' = AllAlbums
    BY <2>1 DEF AllAlbums
  <2>3. PICK C : C = Gathered(none) /\ C = {}
    BY <1>3 DEF Gathered
  <2> QED
    BY <1>1, <1>3, <2>1, <2>2, <2>3, HandOverOnce
<1>6. CASE HandleNewSingle(h)
  <2>1. HandOver(h, one) /\ UNCHANGED album
    BY <1>2, <1>4, <1>6 DEF HandleNewSingle
  <2>2. AllAlbums' = AllAlbums
    BY <2>1 DEF AllAlbums
  <2>3. PICK C : C = Gathered(one) /\ C = {m0}
    BY <1>4 DEF Gathered
  <2>4. /\ C \cup AllAlbums' \subseteq {Head(handlers[h].feed)} \cup AllAlbums
        /\ C \cap AllAlbums' = {} /\ \A g \in Albums : IsInjective(album'[g])
    BY <1>1, <1>2, <2>1, <2>2, <2>3
  <2>5. \A i \in DOMAIN one : i = 1 /\ IsInjective(one[i])
    BY <1>4
  <2> QED
    BY <1>1, <2>1, <2>3, <2>4, <2>5, HandOverOnce
<1>7. CASE HandleNewAlbum(h)
  <2>1. PICK g \in Albums : g = GroupedID[m0] /\ g # 0
    BY <1>2, <1>7, ConstantTypes DEF HandleNewAlbum
  <2>2. PICK q \in Seq(Ids) : q = album[g] /\ ToSet(q) \subseteq AllAlbums /\ IsInjective(q)
    BY <1>1, <2>1 DEF TypeOK, AllAlbums
  <2>3. PICK all \in Seq(Ids) :
          /\ all = Append(q, m0) /\ ToSet(all) = ToSet(q) \cup {m0} /\ all # <<>>
          /\ IsInjective(all) /\ \A i \in DOMAIN all : GroupedID[all[i]] = g
    <3>1. PICK n \in Nat : /\ DOMAIN q = 1 .. n /\ DOMAIN Append(q, m0) = 1 .. n + 1
                           /\ \A i \in 1 .. n : Append(q, m0)[i] = q[i]
                           /\ Append(q, m0)[n + 1] = m0
      <4>1. Len(q) \in Nat /\ DOMAIN q = 1 .. Len(q)
        OBVIOUS
      <4>2. /\ DOMAIN Append(q, m0) = 1 .. Len(q) + 1 /\ Append(q, m0)[Len(q) + 1] = m0
            /\ \A i \in 1 .. Len(q) : Append(q, m0)[i] = q[i]
        OBVIOUS
      <4> QED
        BY <4>1, <4>2
    <3>2. PICK w : w = Append(q, m0)
      OBVIOUS
    <3>3. \A i \in 1 .. n + 1 : i \in 1 .. n \/ i = n + 1
      OBVIOUS
    <3>4. \A i \in 1 .. n : q[i] # m0
      BY <1>2, <2>2, <3>1 DEF ToSet
    <3>5. IsInjective(w)
      BY <2>2, <3>1, <3>2, <3>3, <3>4 DEF IsInjective
    <3>6. \A i \in DOMAIN w : GroupedID[w[i]] = g
      BY <2>1, <2>2, <3>1, <3>2, <3>3 DEF TypeOK
    <3>7. w \in Seq(Ids) /\ ToSet(w) = ToSet(q) \cup {m0} /\ w # <<>>
      BY <3>2, AppendOne
    <3> QED
      BY <3>2, <3>5, <3>6, <3>7
  <2>4. \A x \in Albums \ {g} : ToSet(all) \cap ToSet(album[x]) = {}
    <3>1. \A m \in ToSet(all) : GroupedID[m] = g
      BY <2>3 DEF ToSet
    <3>2. \A x \in Albums : \A m \in ToSet(album[x]) : GroupedID[m] = x
      BY DEF ToSet, TypeOK
    <3> QED
      BY <3>1, <3>2
  <2>5. CASE album' = [album EXCEPT ![g] = all] /\ HandOver(h, <<>>)
    <3>1. album'[g] = all /\ \A x \in Albums \ {g} : album'[x] = album[x]
      BY <2>5 DEF TypeOK
    <3>2. AllAlbums' \subseteq {m0} \cup AllAlbums
      <4>1. SUFFICES ASSUME NEW x \in Albums, NEW m \in ToSet(album'[x])
                     PROVE  m \in {m0} \cup AllAlbums
        BY DEF AllAlbums
      <4>2. CASE x = g
        BY <2>2, <2>3, <3>1, <4>2
      <4>3. CASE x # g
        BY <3>1, <4>3 DEF AllAlbums
      <4> QED
        BY <4>2, <4>3
    <3>3. \A x \in Albums : IsInjective(album'[x])
      BY <1>1, <2>3, <3>1
    <3>4. PICK C : C = Gathered(none) /\ C = {}
      BY <1>3 DEF Gathered
    <3>5. HandOver(h, none)
      BY <1>3, <2>5
    <3> QED
      BY <1>1, <1>2, <1>3, <3>2, <3>3, <3>4, <3>5, HandOverOnce
  <2>6. CASE album' = [album EXCEPT ![g] = <<>>] /\ HandOver(h, <<all>>)
    <3>1. /\ album'[g] = <<>> /\ \A x \in Albums \ {g} : album'[x] = album[x]
          /\ ToSet(album'[g]) = {} /\ IsInjective(album'[g])
      <4>1. album'[g] = <<>> /\ \A x \in Albums \ {g} : album'[x] = album[x]
        BY <2>6 DEF TypeOK
      <4> QED
        BY <4>1, NoElement DEF IsInjective
    <3>2. PICK gs \in Seq(Groups) : gs = <<all>> /\ DOMAIN gs = {1} /\ gs[1] = all
      BY <2>1, <2>3, AlbumGroup, OneElement
    <3>3. PICK C : C = Gathered(gs) /\ C = ToSet(all)
      BY <3>2 DEF Gathered
    <3>4. /\ AllAlbums' \subseteq AllAlbums
          /\ \A m \in AllAlbums' : m \notin C
      <4>1. SUFFICES ASSUME NEW x \in Albums, NEW m \in ToSet(album'[x])
                     PROVE  m \in AllAlbums /\ m \notin C
        BY DEF AllAlbums
      <4>2. x # g /\ m \in ToSet(album[x])
        BY <3>1
      <4> QED
        BY <2>4, <3>3, <4>2 DEF AllAlbums
    <3>5. C \cap AllAlbums' = {} /\ C \cup AllAlbums' \subseteq {m0} \cup AllAlbums
      BY <2>2, <2>3, <3>3, <3>4
    <3>6. \A x \in Albums : IsInjective(album'[x])
      BY <1>1, <3>1
    <3>7. HandOver(h, gs) /\ \A i \in DOMAIN gs : i = 1 /\ IsInjective(gs[i])
      BY <2>3, <2>6, <3>2
    <3> QED
      BY <1>1, <1>2, <3>3, <3>4, <3>5, <3>6, <3>7, HandOverOnce
  <2> QED
    BY <1>2, <1>7, <2>1, <2>2, <2>3, <2>5, <2>6 DEF HandleNewAlbum
<1> QED
  BY <1>5, <1>6, <1>7 DEF HandleNew

LEMMA FlushOnce ==
  ASSUME TypeOK, OnceInv, OneRulePerTarget, FlushDue
  PROVE  OnceInv'
<1>1. PICK h \in Handlers : h = "loop" /\ handlers[h].pc \in Waits /\ handlers[h] \in HandlerStates
  BY DEF FlushDue, Free, Handlers, Waits, TypeOK
<1>2. PICK S \in SUBSET Collected : FlushTo(h, S, "idle")
  BY <1>1 DEF FlushDue
<1>3. PICK order \in SetToSeqs(S) :
        handlers' = [handlers EXCEPT ![h] =
          Continue([@ EXCEPT !.then = "idle"], [i \in DOMAIN order |-> album[order[i]]], <<>>)]
  BY <1>2 DEF FlushTo
<1>4. /\ album' = [g \in Albums |-> IF g \in S THEN <<>> ELSE album[g]]
      /\ UNCHANGED <<delivered, queue, consumer, sent>>
  BY <1>2 DEF FlushTo, env
<1>5. IsFiniteSet(S) /\ S \subseteq Albums /\ \A g \in S : album[g] \in Groups
  <2>1. S \subseteq Albums /\ IsFiniteSet(S)
    BY AlbumsFinite, FS_Subset DEF Collected
  <2>2. \A g \in S : /\ g \in Albums /\ album[g] \in Seq(Ids) /\ album[g] # <<>>
                     /\ \A i \in DOMAIN album[g] : GroupedID[album[g][i]] = g
    BY <2>1 DEF TypeOK, Collected
  <2> QED
    BY <2>1, <2>2, AlbumGroup
<1>6. order \in Seq(S) /\ \A i, j \in DOMAIN order : i # j => order[i] # order[j]
  BY <1>5, OrderCovers DEF SetToSeqs
<1>7. PICK gs \in Seq(Groups), fd \in Seq(Ids) :
        gs = [i \in DOMAIN order |-> album[order[i]]] /\ fd = <<>>
  <2>1. PICK n \in Nat : DOMAIN order = 1 .. n /\ \A i \in 1 .. n : order[i] \in S
    BY <1>6
  <2>2. \A i \in 1 .. n : album[order[i]] \in Groups
    BY <1>5, <2>1
  <2> DEFINE f == [i \in 1 .. n |-> album[order[i]]]
  <2>3. f \in Seq(Groups)
    BY <2>2
  <2>4. f = [i \in DOMAIN order |-> album[order[i]]]
    BY <2>1
  <2> HIDE DEF f
  <2> QED
    BY <2>3, <2>4, NoElement
<1>8. PICK s : Moves(h, s) /\ s.todo = RuleOrder /\ s.groups = gs /\ s.feed = fd
  <2> DEFINE t == [handlers[h] EXCEPT !.then = "idle"]
             d == Continue(t, gs, fd)
  <2>1. handlers' = [handlers EXCEPT ![h] = d]
    BY <1>3, <1>7 DEF TypeOK
  <2>2. t \in HandlerStates
    BY <1>1, ThenState
  <2> HIDE DEF t
  <2>3. d \in HandlerStates /\ d.groups = gs /\ d.feed = fd /\ d.todo = RuleOrder
    BY <2>2, ContinueState
  <2> QED
    BY <2>1, <2>3 DEF Moves
<1>9. /\ DOMAIN gs = DOMAIN order
      /\ \A i \in DOMAIN gs : gs[i] = album[order[i]] /\ order[i] \in S
      /\ \A i, j \in DOMAIN gs : i # j => order[i] # order[j]
  <2>1. \A i \in DOMAIN order : order[i] \in S
    BY <1>6
  <2> QED
    BY <1>6, <1>7, <2>1
<1>10. \A g \in Albums : \A m \in ToSet(album[g]) : GroupedID[m] = g
  BY DEF ToSet, TypeOK
<1>11. ToSet(s.feed) = {} /\ DOMAIN s.feed = {} /\ Hand(s) = Current(s)
  BY <1>7, <1>8, NoElement DEF Hand
<1>12. ASSUME NEW m \in Current(s) PROVE \E g \in S : m \in ToSet(album[g])
  BY <1>8, <1>9 DEF Current
<1>13. Whole(s)
  <2>1. ASSUME NEW i \in DOMAIN gs PROVE IsInjective(gs[i])
    BY <1>5, <1>9 DEF OnceInv, Apart
  <2>2. ASSUME NEW i \in DOMAIN gs, NEW j \in DOMAIN gs, i # j
        PROVE  ToSet(gs[i]) \cap ToSet(gs[j]) = {}
    <3>1. PICK x \in Albums, y \in Albums : x = order[i] /\ y = order[j] /\ x # y
      BY <1>5, <1>9, <2>2
    <3>2. gs[i] = album[x] /\ gs[j] = album[y]
      BY <1>9, <3>1
    <3>3. SUFFICES ASSUME NEW m \in ToSet(gs[i]), m \in ToSet(gs[j]) PROVE FALSE
      OBVIOUS
    <3>4. m \in ToSet(album[x]) /\ m \in ToSet(album[y])
      BY <3>2, <3>3
    <3> QED
      BY ZenonT(60), <1>10, <3>1, <3>4
  <2>3. IsInjective(s.feed)
    BY <1>11 DEF IsInjective
  <2> QED
    BY <1>8, <1>11, <2>1, <2>2, <2>3, OneRuleFacts DEF Whole
<1>14. ASSUME NEW g \in Albums, NEW m \in ToSet(album'[g])
       PROVE  g \notin S /\ m \in ToSet(album[g])
  <2>1. album'[g] = IF g \in S THEN <<>> ELSE album[g]
    BY <1>4
  <2> QED
    BY <1>14, <2>1, NoElement
<1>15. /\ Hand(s) \subseteq AllAlbums /\ AllAlbums' \subseteq AllAlbums
       /\ Hand(s) \cap AllAlbums' = {}
  <2>1. Hand(s) \subseteq AllAlbums /\ AllAlbums' \subseteq AllAlbums
    BY <1>5, <1>11, <1>12, <1>14 DEF AllAlbums
  <2>2. ASSUME NEW m \in Hand(s), m \in AllAlbums' PROVE FALSE
    <3>1. PICK g \in S : m \in ToSet(album[g])
      BY <1>11, <1>12
    <3>2. PICK x \in Albums : m \in ToSet(album'[x])
      BY <2>2 DEF AllAlbums
    <3>3. x \notin S /\ m \in ToSet(album[x])
      BY <1>14, <3>2
    <3> QED
      BY <1>5, <1>10, <3>1, <3>3
  <2> QED
    BY <2>1, <2>2
<1>16. \A g \in Albums : IsInjective(album'[g])
  <2>1. IsInjective(<<>>)
    BY NoElement DEF IsInjective
  <2> QED
    BY <1>4, <2>1 DEF OnceInv, Apart
<1>17. handlers[h].groups = <<>> /\ delivered' \in Nat /\ delivered' >= delivered
  BY <1>1, <1>4, WaitingHand, DeliveredType
<1> QED
  BY <1>4, <1>8, <1>13, <1>15, <1>16, <1>17, IntakeOnce

\* A handler inside processRule goes on, or observed a group.
LEMMA InRuleOnce ==
  ASSUME TypeOK, OnceInv, OneRulePerTarget, NEW h \in Handlers, handlers[h].groups # <<>>,
         NEW s, Moves(h, s),
         \/ InPlace(h, s) /\ s.pc # "count" /\ handlers[h].pc # "count"
         \/ OneRuleLess(h, s) \/ OneGroupLess(h, s),
         UNCHANGED <<delivered, album, sent, queue, consumer>>
  PROVE  OnceInv'
<1> DEFINE t == handlers[h]
<1>1. handlers'[h] = s /\ \A k \in Handlers \ {h} : handlers'[k] = handlers[k]
  BY DEF Moves, TypeOK
<1>2. t \in HandlerStates /\ Whole(t) /\ s \in HandlerStates
  BY DEF TypeOK, OnceInv, Apart, Moves
<1> HIDE DEF t
<1>3. PICK td \in Seq(Rules), tl \in Seq(Rules) :
        /\ td = t.todo /\ td # <<>> /\ tl = Tail(td) /\ ToSet(tl) \subseteq ToSet(td)
        /\ IsInjective(tl)
  <2>1. PICK td \in Seq(Rules) : td = t.todo /\ td # <<>> /\ IsInjective(td)
    BY <1>2, HandlerType DEF Whole
  <2>2. PICK tl \in Seq(Rules) :
          /\ tl = Tail(td) /\ ToSet(td) = {Head(td)} \cup ToSet(tl)
          /\ \A i \in DOMAIN tl : i + 1 \in DOMAIN td /\ tl[i] = td[i + 1] /\ i \in Nat
    <3>1. Tail(td) \in Seq(Rules) /\ ToSet(td) = {Head(td)} \cup ToSet(Tail(td))
      BY <2>1, HeadTail
    <3>2. \A i \in DOMAIN Tail(td) : i + 1 \in DOMAIN td /\ Tail(td)[i] = td[i + 1]
      BY <2>1, HeadTail
    <3>3. \A i \in DOMAIN Tail(td) : i \in Nat
      BY <3>1
    <3> QED
      BY <3>1, <3>2, <3>3
  <2>3. IsInjective(tl)
    <3>1. SUFFICES ASSUME NEW i \in DOMAIN tl, NEW j \in DOMAIN tl, tl[i] = tl[j] PROVE i = j
      BY DEF IsInjective
    <3>2. i + 1 = j + 1
      BY <2>1, <2>2, <3>1 DEF IsInjective
    <3> QED
      BY <2>2, <3>2
  <2> QED
    BY <2>1, <2>2, <2>3
<1>4. s.feed = t.feed
  BY DEF InPlace, OneRuleLess, OneGroupLess, t
<1>5. ASSUME s.groups = t.groups, Ahead(s) \subseteq Ahead(t), IsInjective(s.todo)
      PROVE  /\ Whole(s) /\ Hand(s) \subseteq Hand(t)
             /\ \A r, O : Fresh(t, r, O) => Fresh(s, r, O)
  <2>1. Current(s) = Current(t)
    BY <1>5 DEF Current
  <2> QED
    BY <1>2, <1>4, <1>5, <2>1 DEF Whole, Hand, Fresh
<1>6. /\ Whole(s) /\ Hand(s) \subseteq Hand(t)
      /\ \A r, O : Fresh(t, r, O) => Fresh(s, r, O)
  <2>1. CASE InPlace(h, s) /\ s.pc # "count" /\ t.pc # "count"
    <3>1. s.groups = t.groups /\ Ahead(s) = Ahead(t) /\ IsInjective(s.todo)
      BY <1>2, <2>1 DEF InPlace, Ahead, Whole, t
    <3> QED
      BY <1>5, <3>1
  <2>2. CASE OneRuleLess(h, s)
    <3>1. s.groups = t.groups /\ s.todo = tl /\ s.pc # "count"
      BY <1>3, <2>2 DEF OneRuleLess, t
    <3>2. Ahead(s) \subseteq Ahead(t)
      BY <1>3, <3>1 DEF Ahead
    <3> QED
      BY <1>3, <1>5, <3>1, <3>2
  <2>3. CASE OneGroupLess(h, s)
    <3>1. PICK gs \in Seq(Groups), gl \in Seq(Groups) :
            /\ gs = t.groups /\ gl = s.groups
            /\ \A i \in DOMAIN gl : i + 1 \in DOMAIN gs /\ gl[i] = gs[i + 1] /\ i \in Nat \ {0}
      <4>1. PICK gs \in Seq(Groups) : gs = t.groups /\ gs # <<>>
        BY <1>2, HandlerType DEF t
      <4>2. Tail(gs) \in Seq(Groups)
        BY <4>1, HeadTail
      <4>3. \A i \in DOMAIN Tail(gs) : i + 1 \in DOMAIN gs /\ Tail(gs)[i] = gs[i + 1]
        BY <4>1, HeadTail
      <4>4. \A i \in DOMAIN Tail(gs) : i \in Nat \ {0}
        BY <4>2
      <4>5. s.groups = Tail(gs)
        BY <2>3, <4>1 DEF OneGroupLess, t
      <4> QED
        BY <4>1, <4>2, <4>3, <4>4, <4>5
    <3>2. Current(s) \subseteq Current(t) /\ Hand(s) \subseteq Hand(t)
      BY <1>4, <3>1 DEF Current, Hand
    <3>3. ASSUME NEW i \in DOMAIN gl, NEW j \in DOMAIN gl, i # j
          PROVE  ToSet(gl[i]) \cap ToSet(gl[j]) = {}
      <4>1. PICK k \in DOMAIN gs, l \in DOMAIN gs : k = i + 1 /\ l = j + 1 /\ gl[i] = gs[k] /\ gl[j] = gs[l]
        BY <3>1
      <4>2. k # l
        BY <3>1, <3>3, <4>1
      <4> QED
        BY <1>2, <3>1, <4>1, <4>2 DEF Whole
    <3>4. s.todo = RuleOrder
      BY <2>3 DEF OneGroupLess
    <3>5. Whole(s)
      BY <1>2, <1>4, <3>1, <3>2, <3>3, <3>4, OneRuleFacts DEF Whole
    <3>6. ASSUME NEW r, NEW O, Fresh(t, r, O) PROVE Fresh(s, r, O)
      <4>1. ASSUME NEW i \in DOMAIN gl PROVE ToSet(gl[i]) \cap O = {}
        <5>1. PICK k \in DOMAIN gs : k = i + 1 /\ gl[i] = gs[k]
          BY <3>1
        <5>2. k # 1
          BY <3>1, <5>1
        <5> QED
          BY <3>1, <3>6, <5>1, <5>2 DEF Fresh
      <4> QED
        BY <1>4, <3>1, <3>6, <4>1 DEF Fresh
    <3> QED
      BY <3>2, <3>5, <3>6
  <2> QED
    BY <2>1, <2>2, <2>3 DEF t
<1>7. AllAlbums' = AllAlbums
  BY DEF AllAlbums
<1>8. Apart'
  <2>1. /\ Hand(s) \cup AllAlbums' \subseteq Hand(handlers[h]) \cup AllAlbums \cup (delivered + 1 .. delivered')
        /\ Hand(s) \cap AllAlbums' = {}
    BY <1>6, <1>7 DEF OnceInv, Apart, t
  <2>2. delivered' \in Nat /\ delivered' >= delivered /\ \A g \in Albums : IsInjective(album'[g])
    BY DeliveredType DEF OnceInv, Apart
  <2> QED
    BY <1>6, <2>1, <2>2, ApartMoves DEF OnceInv
<1>9. ASSUME NEW r \in Rules
      PROVE  /\ Out(r)' \subseteq 1 .. delivered' /\ Out(r)' \cap AllAlbums' = {}
             /\ \A k \in Handlers : Fresh(handlers'[k], r, Out(r)')
  <2>1. PICK O : O = Out(r) /\ O = Out(r)'
    BY OutOfTypes
  <2>2. O \subseteq 1 .. delivered /\ O \cap AllAlbums = {} /\ \A k \in Handlers : Fresh(handlers[k], r, O)
    BY <2>1 DEF OnceInv, Past
  <2>3. Fresh(s, r, O)
    BY <1>6, <2>2 DEF t
  <2> QED
    BY <1>1, <1>7, <2>1, <2>2, <2>3
<1> QED
  BY <1>8, <1>9, FlyingRests DEF OnceInv, Past

LEMMA ProcessOnce ==
  ASSUME TypeOK, TrackersSound, OnceInv, OneRulePerTarget, NEW h \in Handlers,
         \/ Observe(h) \/ Skip(h) \/ Pass(h) \/ FinishSkipped(h) \/ PersistSkipped(h)
         \/ CountEnqueued(h)
  PROVE  OnceInv'
<1>1. UNCHANGED <<delivered, album, sent, queue, consumer>>
  BY DEF Observe, Skip, Pass, FinishSkipped, PersistSkipped, CountEnqueued, env
<1>2. handlers[h] \in HandlerStates /\ handlers[h].groups # <<>>
  BY InRuleGroups DEF TypeOK, Observe, Skip, Pass, FinishSkipped, PersistSkipped, CountEnqueued,
     At, InRule
<1>3. CASE Observe(h) \/ Skip(h) \/ Pass(h)
  <2>1. PICK pc \in {"check", "finish", "push"} : Goto(h, pc)
    BY <1>3 DEF Observe, Skip, Pass
  <2>2. PICK s : Moves(h, s) /\ s.pc = pc /\ InPlace(h, s)
    BY <1>2, <2>1, GotoMoves DEF InRule
  <2>3. handlers[h].pc # "count"
    BY <1>3 DEF Observe, Skip, Pass, At
  <2> QED
    BY <1>1, <1>2, <2>2, <2>3, InRuleOnce
<1>4. CASE RuleDone(h)
  BY <1>1, <1>2, <1>4, RuleDoneMoves, InRuleOnce
<1>5. CASE FinishSkipped(h) /\ ~ RuleDone(h)
  <2>1. PICK R \in Rules, grp \in Groups : R = Rule(h) /\ grp = Grp(h)
    BY <1>2, InHandType
  <2>2. PICK c : c = Captured(R, grp) /\ c # 0
    BY <1>5, <2>1 DEF FinishSkipped
  <2>3. PICK s : Moves(h, s) /\ Goes(h, s) /\ s.pc = "persist"
    BY <1>5, <2>1, <2>2, FinishSkippedMoves
  <2>4. InPlace(h, s) /\ handlers[h].pc # "count"
    BY <1>5, <2>3 DEF Goes, OneRuleLess, OneGroupLess, InRule, FinishSkipped, At
  <2> QED
    BY <1>1, <1>2, <2>3, <2>4, InRuleOnce
<1> QED
  BY <1>3, <1>4, <1>5 DEF PersistSkipped, CountEnqueued

\* A group goes to the queue, for one rule.
LEMMA PushOnce ==
  ASSUME TypeOK, OnceInv, NEW h \in Handlers, Push(h)
  PROVE  OnceInv'
<1>1. /\ handlers[h].pc = "push" /\ Goto(h, "count")
      /\ queue' = Append(queue, [rule |-> Rule(h), msgs |-> Grp(h)])
      /\ UNCHANGED <<delivered, album, sent, consumer>>
  BY DEF Push, At, env
<1>2. handlers[h].groups # <<>> /\ handlers[h] \in HandlerStates
  BY <1>1, InRuleGroups DEF InRule, TypeOK
<1>3. PICK s : Moves(h, s) /\ s.pc = "count" /\ InPlace(h, s)
  BY <1>1, <1>2, GotoMoves DEF InRule
<1>4. PICK t : t = handlers[h] /\ t \in HandlerStates
  BY <1>2
<1>5. PICK R \in Rules, grp \in Groups : R = Rule(h) /\ grp = Grp(h)
  BY <1>2, InHandType
<1>6. PICK task \in Tasks : task = [rule |-> R, msgs |-> grp] /\ task.rule = R /\ task.msgs = grp
  <2>1. [rule |-> R, msgs |-> grp] \in Tasks
    BY DEF Tasks
  <2> QED
    BY <2>1
<1>7. PICK q, n : /\ q = queue /\ n \in Nat /\ DOMAIN q = 1 .. n /\ DOMAIN queue' = 1 .. n + 1
                  /\ \A i \in 1 .. n : queue'[i] = q[i]
                  /\ queue'[n + 1] = task
  <2>1. PICK q \in Seq(Tasks) : q = queue /\ queue' = Append(q, task)
    BY <1>1, <1>5, <1>6 DEF TypeOK
  <2>2. /\ Len(q) \in Nat /\ DOMAIN q = 1 .. Len(q) /\ DOMAIN Append(q, task) = 1 .. Len(q) + 1
        /\ \A i \in 1 .. Len(q) : Append(q, task)[i] = q[i]
        /\ Append(q, task)[Len(q) + 1] = task
    OBVIOUS
  <2> QED
    BY <2>1, <2>2
<1>8. \A i \in 1 .. n + 1 : i \in 1 .. n \/ i = n + 1
  BY <1>7
<1>9. 1 \in DOMAIN t.groups /\ t.groups[1] = grp /\ s.groups = t.groups /\ s.feed = t.feed /\ s.todo = t.todo
  <2>1. PICK gs \in Seq(Groups) : gs = t.groups /\ gs # <<>>
    BY <1>2, <1>4, HandlerType
  <2>2. 1 \in DOMAIN gs /\ gs[1] = Head(gs)
    BY <2>1, HeadTail
  <2> QED
    BY <1>3, <1>4, <1>5, <2>1, <2>2 DEF InPlace, Grp
<1>10. R \in Ahead(t) /\ R \notin Ahead(s) /\ Ahead(s) \subseteq Ahead(t)
  <2>1. PICK td \in Seq(Rules) : td = t.todo /\ td # <<>> /\ IsInjective(td)
    BY <1>4, HandlerType DEF OnceInv, Apart, Whole
  <2>2. /\ ToSet(td) = {R} \cup ToSet(Tail(td)) /\ td[1] = R /\ 1 \in DOMAIN td
        /\ \A i \in DOMAIN Tail(td) : i + 1 \in DOMAIN td /\ Tail(td)[i] = td[i + 1]
    BY <1>4, <1>5, <2>1, HeadTail DEF Rule
  <2>3. Tail(td) \in Seq(Rules)
    BY <2>1, HeadTail
  <2>4. \A i \in DOMAIN Tail(td) : i \in Nat \ {0}
    BY <2>3
  <2>5. R \notin ToSet(Tail(td))
    <3>1. SUFFICES ASSUME NEW i \in DOMAIN Tail(td), Tail(td)[i] = R PROVE FALSE
      BY DEF ToSet
    <3>2. i + 1 = 1
      BY <2>1, <2>2, <3>1 DEF IsInjective
    <3> QED
      BY <2>4, <3>2
  <2>6. Ahead(t) = ToSet(td) /\ Ahead(s) = ToSet(Tail(td))
    BY <1>1, <1>3, <1>4, <1>9, <2>1 DEF Ahead
  <2> QED
    BY <2>2, <2>5, <2>6
<1>11. PICK G : G = ToSet(grp) /\ G \subseteq Current(t) /\ IsInjective(grp) /\ G \cap Out(R) = {}
  <2>1. Whole(t) /\ Fresh(t, R, Out(R))
    BY <1>4 DEF OnceInv, Apart, Past
  <2> QED
    BY <1>9, <1>10, <2>1 DEF Current, Whole, Fresh
<1>12. \A r \in Rules : Going(r)' = Going(r) /\ Posts(r)' = Posts(r)
  BY <1>1 DEF Going, Posts, Sending
<1>13. Queued(R)' = Queued(R) \cup G /\ \A r \in Rules \ {R} : Queued(r)' = Queued(r)
  <2>1. ASSUME NEW r \in Rules, NEW m
        PROVE  m \in Queued(r)' <=> m \in Queued(r) \/ (r = R /\ m \in G)
    <3>1. m \in Queued(r)' <=> \E i \in 1 .. n + 1 : queue'[i].rule = r /\ m \in ToSet(queue'[i].msgs)
      BY <1>7 DEF Queued
    <3>2. m \in Queued(r) <=> \E i \in 1 .. n : q[i].rule = r /\ m \in ToSet(q[i].msgs)
      BY <1>7 DEF Queued
    <3>3. n + 1 \in 1 .. n + 1 /\ \A i \in 1 .. n : i \in 1 .. n + 1
      BY <1>7
    <3> QED
      BY <1>6, <1>7, <1>8, <1>11, <3>1, <3>2, <3>3
  <2> QED
    BY <2>1
<1>14. Out(R)' = Out(R) \cup G /\ \A r \in Rules \ {R} : Out(r)' = Out(r)
  BY <1>12, <1>13 DEF Out
<1>15. /\ \A i \in 1 .. n : /\ IsInjective(q[i].msgs)
                           /\ ToSet(q[i].msgs) \cap (Going(q[i].rule) \cup Posts(q[i].rule)) = {}
                           /\ q[i].rule \in Rules /\ ToSet(q[i].msgs) \subseteq Queued(q[i].rule)
      /\ \A i, j \in 1 .. n : i # j /\ q[i].rule = q[j].rule
            => ToSet(q[i].msgs) \cap ToSet(q[j].msgs) = {}
  <2>1. \A i \in 1 .. n : q[i] \in Tasks
    BY <1>7 DEF TypeOK
  <2> QED
    BY <1>7, <2>1 DEF OnceInv, Flying, Queued, Tasks
<1>16. Flying'
  <2>1. \A i \in 1 .. n + 1 :
          /\ IsInjective(queue'[i].msgs) /\ queue'[i].rule \in Rules
          /\ ToSet(queue'[i].msgs) \cap (Going(queue'[i].rule) \cup Posts(queue'[i].rule)) = {}
    <3>1. G \cap (Going(R) \cup Posts(R)) = {}
      BY <1>11 DEF Out
    <3> QED
      BY <1>6, <1>7, <1>8, <1>11, <1>15, <3>1
  <2>2. ASSUME NEW i \in 1 .. n + 1, NEW j \in 1 .. n + 1, i # j, queue'[i].rule = queue'[j].rule
        PROVE  ToSet(queue'[i].msgs) \cap ToSet(queue'[j].msgs) = {}
    <3>1. ASSUME NEW k \in 1 .. n, q[k].rule = R PROVE ToSet(q[k].msgs) \cap G = {}
      BY <1>11, <1>15, <3>1 DEF Out
    <3>2. CASE i \in 1 .. n /\ j \in 1 .. n
      BY <1>7, <1>15, <2>2, <3>2
    <3>3. CASE i \in 1 .. n /\ j = n + 1
      BY <1>6, <1>7, <1>11, <2>2, <3>1, <3>3
    <3>4. CASE i = n + 1 /\ j \in 1 .. n
      BY <1>6, <1>7, <1>11, <2>2, <3>1, <3>4
    <3> QED
      BY <1>8, <2>2, <3>2, <3>3, <3>4
  <2>3. sent' = sent /\ consumer' = consumer
    BY <1>1
  <2>4. (\A i \in DOMAIN queue : IsInjective(queue[i].msgs))'
    BY <1>7, <2>1
  <2>5. (\A i, j \in DOMAIN queue : i # j /\ queue[i].rule = queue[j].rule
           => ToSet(queue[i].msgs) \cap ToSet(queue[j].msgs) = {})'
    BY <1>7, <2>2
  <2>6. \A r \in Rules : \A i \in DOMAIN queue' :
          queue'[i].rule = r => ToSet(queue'[i].msgs) \cap (Going(r)' \cup Posts(r)') = {}
    BY <1>7, <1>12, <2>1
  <2>7. (\A x \in Sending : IsInjective(x.msgs))' /\ \A r \in Rules : Going(r)' \cap Posts(r)' = {}
    BY <1>12, <2>3 DEF OnceInv, Flying, Sending
  <2> QED
    BY <2>4, <2>5, <2>6, <2>7 DEF Flying
<1>17. handlers'[h] = s /\ \A k \in Handlers \ {h} : handlers'[k] = handlers[k]
  BY <1>3 DEF Moves, TypeOK
<1>18. Current(s) = Current(t) /\ Hand(s) = Hand(t) /\ Whole(s) /\ Whole(t)
  <2>1. Current(s) = Current(t) /\ Hand(s) = Hand(t)
    BY <1>9 DEF Current, Hand
  <2>2. Whole(t)
    BY <1>4 DEF OnceInv, Apart
  <2> QED
    BY <1>9, <2>1, <2>2 DEF Whole
<1>19. AllAlbums' = AllAlbums
  BY <1>1 DEF AllAlbums
<1>20. Apart'
  <2>1. \A k \in Handlers : Hand(handlers'[k]) = Hand(handlers[k]) /\ Whole(handlers'[k])
    BY <1>4, <1>17, <1>18 DEF OnceInv, Apart
  <2> QED
    BY <1>1, <1>19, <2>1 DEF OnceInv, Apart
<1>21. ASSUME NEW r \in Rules
       PROVE  /\ Out(r)' \subseteq 1 .. delivered /\ Out(r)' \cap AllAlbums = {}
              /\ \A k \in Handlers : Fresh(handlers'[k], r, Out(r)')
  <2>1. /\ Out(r) \subseteq 1 .. delivered /\ Out(r) \cap AllAlbums = {}
        /\ \A k \in Handlers : Fresh(handlers[k], r, Out(r))
    BY DEF OnceInv, Past
  <2>2. CASE r # R
    <3>1. Fresh(s, r, Out(r))
      BY <1>4, <1>9, <1>10, <2>1 DEF Fresh
    <3> QED
      BY <1>14, <1>17, <2>1, <2>2, <3>1
  <2>3. CASE r = R
    <3>1. G \subseteq Hand(t) /\ Hand(t) \subseteq 1 .. delivered /\ Hand(t) \cap AllAlbums = {}
      BY <1>4, <1>11 DEF Hand, OnceInv, Apart
    <3>2. Fresh(s, R, Out(R) \cup G)
      <4>1. ToSet(s.feed) \cap (Out(R) \cup G) = {}
        BY <1>4, <1>9, <1>11, <1>18, <2>1, <2>3 DEF Fresh, Whole
      <4>2. ASSUME NEW i \in DOMAIN s.groups, i # 1
            PROVE  ToSet(s.groups[i]) \cap (Out(R) \cup G) = {}
        <5>1. ToSet(s.groups[i]) \cap G = {}
          BY <1>9, <1>11, <1>18, <4>2 DEF Whole
        <5>2. ToSet(s.groups[i]) \cap Out(R) = {}
          BY <1>4, <1>9, <2>1, <2>3, <4>2 DEF Fresh
        <5> QED
          BY <5>1, <5>2
      <4> QED
        BY <1>10, <4>1, <4>2 DEF Fresh
    <3>3. ASSUME NEW k \in Handlers \ {h} PROVE Fresh(handlers[k], R, Out(R) \cup G)
      <4>1. Hand(handlers[k]) \cap G = {}
        BY <1>4, <3>1 DEF OnceInv, Apart
      <4> QED
        BY <2>1, <2>3, <4>1 DEF Fresh, Hand, Current
    <3> QED
      BY <1>14, <1>17, <2>1, <2>3, <3>1, <3>2, <3>3
  <2> QED
    BY <2>2, <2>3
<1>22. AtMostOnce'
  BY <1>1 DEF OnceInv, AtMostOnce
<1> QED
  BY <1>1, <1>16, <1>19, <1>20, <1>21, <1>22 DEF OnceInv, Past

\* What is out for a rule only gets less, and nothing else moves.
LEMMA PastShrinks ==
  ASSUME Apart, Past, UNCHANGED <<handlers, album, delivered>>,
         \A r \in Rules : Out(r)' \subseteq Out(r)
  PROVE  Apart' /\ Past'
<1>1. AllAlbums' = AllAlbums
  BY DEF AllAlbums
<1>2. Apart'
  BY <1>1 DEF Apart
<1>3. ASSUME NEW r \in Rules
      PROVE  /\ Out(r)' \subseteq 1 .. delivered' /\ Out(r)' \cap AllAlbums' = {}
             /\ \A h \in Handlers : Fresh(handlers'[h], r, Out(r)')
  <2>1. PICK O, P : O = Out(r) /\ P = Out(r)' /\ P \subseteq O
    OBVIOUS
  <2>2. \A s : Fresh(s, r, O) => Fresh(s, r, P)
    BY <2>1 DEF Fresh
  <2> QED
    BY <1>1, <2>1, <2>2 DEF Past
<1> QED
  BY <1>2, <1>3 DEF Past

LEMMA OnceRests ==
  ASSUME OnceInv, UNCHANGED <<handlers, album, delivered, queue, sent>>, Sending' = Sending
  PROVE  OnceInv'
<1>1. \A r \in Rules : Going(r)' = Going(r) /\ Posts(r)' = Posts(r) /\ Queued(r)' = Queued(r)
  BY DEF Going, Posts, Queued
<1>2. \A r \in Rules : Out(r)' = Out(r)
  BY <1>1 DEF Out
<1>3. Flying' /\ AtMostOnce'
  BY <1>1 DEF OnceInv, Flying, AtMostOnce
<1> QED
  BY <1>2, <1>3, PastShrinks DEF OnceInv

LEMMA TakeOnce ==
  ASSUME TypeOK, OnceInv, Take
  PROVE  OnceInv'
<1>1. PICK q \in Seq(Tasks), tl \in Seq(Tasks), task \in Tasks :
        /\ q = queue /\ q # <<>> /\ tl = Tail(q) /\ task = Head(q)
  BY HeadTail DEF Take, TypeOK
<1>2. /\ task = q[1] /\ 1 \in DOMAIN q
      /\ \A i \in DOMAIN tl : i + 1 \in DOMAIN q /\ tl[i] = q[i + 1]
  BY <1>1, HeadTail
<1>3. \A i \in DOMAIN tl : i \in Nat \ {0}
  BY <1>1
<1>4. /\ queue' = tl /\ Sending = {} /\ Sending' = {task}
      /\ UNCHANGED <<handlers, album, delivered, sent>>
  BY <1>1 DEF Take, Sending, ConsumerAt, env
<1>5. ASSUME NEW r \in Rules
      PROVE  /\ Queued(r)' \subseteq Queued(r) /\ Posts(r)' = Posts(r)
             /\ Going(r)' = IF task.rule = r THEN ToSet(task.msgs) ELSE {}
  <2>1. Posts(r)' = Posts(r)
    BY <1>4 DEF Posts
  <2>2. Going(r)' = IF task.rule = r THEN ToSet(task.msgs) ELSE {}
    BY <1>4 DEF Going
  <2>3. ASSUME NEW m \in Queued(r)' PROVE m \in Queued(r)
    <3>1. PICK i \in DOMAIN tl : tl[i].rule = r /\ m \in ToSet(tl[i].msgs)
      BY <1>4, <2>3 DEF Queued
    <3>2. PICK j \in DOMAIN q : q[j] = tl[i]
      BY <1>2
    <3> QED
      BY <1>1, <3>1, <3>2 DEF Queued
  <2> QED
    BY <2>1, <2>2, <2>3
<1>6. \A r \in Rules : Going(r)' \subseteq Queued(r) /\ Going(r)' \cap Posts(r) = {}
  <2>1. ASSUME NEW r \in Rules, task.rule = r
        PROVE  ToSet(task.msgs) \subseteq Queued(r) /\ ToSet(task.msgs) \cap Posts(r) = {}
    BY <1>1, <1>2, <2>1 DEF OnceInv, Flying, Queued
  <2> QED
    BY <1>5, <2>1
<1>7. \A r \in Rules : Out(r)' \subseteq Out(r)
  BY <1>5, <1>6 DEF Out
<1>8. Flying'
  <2>1. ASSUME NEW i \in DOMAIN tl
        PROVE  /\ IsInjective(tl[i].msgs)
               /\ \A j \in DOMAIN tl : i # j /\ tl[i].rule = tl[j].rule
                    => ToSet(tl[i].msgs) \cap ToSet(tl[j].msgs) = {}
               /\ \A r \in Rules : tl[i].rule = r => ToSet(tl[i].msgs) \cap (Going(r)' \cup Posts(r)') = {}
    <3>1. PICK k \in DOMAIN q : k = i + 1 /\ tl[i] = q[k]
      BY <1>2
    <3>2. k # 1
      BY <1>3, <3>1
    <3>3. IsInjective(tl[i].msgs)
      BY <1>1, <3>1 DEF OnceInv, Flying
    <3>4. ASSUME NEW j \in DOMAIN tl, i # j, tl[i].rule = tl[j].rule
          PROVE  ToSet(tl[i].msgs) \cap ToSet(tl[j].msgs) = {}
      <4>1. PICK l \in DOMAIN q : l = j + 1 /\ tl[j] = q[l]
        BY <1>2
      <4>2. k # l
        BY <1>3, <3>1, <3>4, <4>1
      <4> QED
        BY <1>1, <3>1, <3>4, <4>1, <4>2 DEF OnceInv, Flying
    <3>5. ASSUME NEW r \in Rules, tl[i].rule = r
          PROVE  ToSet(tl[i].msgs) \cap (Going(r)' \cup Posts(r)') = {}
      <4>1. ToSet(tl[i].msgs) \cap Posts(r) = {}
        BY <1>1, <3>1, <3>5 DEF OnceInv, Flying
      <4>2. task.rule = r => ToSet(tl[i].msgs) \cap ToSet(task.msgs) = {}
        BY ZenonT(60), <1>1, <1>2, <3>1, <3>2, <3>5 DEF OnceInv, Flying
      <4> QED
        BY <1>5, <4>1, <4>2
    <3> QED
      BY <3>3, <3>4, <3>5
  <2>2. IsInjective(task.msgs)
    BY <1>1, <1>2 DEF OnceInv, Flying
  <2>3. \A r \in Rules : Going(r)' \cap Posts(r)' = {}
    BY <1>5, <1>6
  <2> QED
    BY <1>4, <2>1, <2>2, <2>3 DEF Flying
<1>9. AtMostOnce'
  BY <1>4 DEF OnceInv, AtMostOnce
<1> QED
  BY <1>4, <1>7, <1>8, <1>9, PastShrinks DEF OnceInv

\* Sending posts every member of the task once, and none was posted before.
LEMMA PostOnce ==
  ASSUME TypeOK, NEW R \in Rules, NEW grp \in Groups, R = Task.rule, grp = Task.msgs,
         IsInjective(grp), Posted
  PROVE  /\ \A t \in Targets \ {Target[R]} : sent'[t] = sent[t]
         /\ \A m \in Ids : /\ m \in ToSet(grp) => sent'[Target[R]][m] = sent[Target[R]][m] + 1
                           /\ m \notin ToSet(grp) => sent'[Target[R]][m] = sent[Target[R]][m]
<1>1. PICK T \in Targets : T = Target[R]
  BY ConstantTypes
<1> DEFINE I(m) == {i \in DOMAIN grp : grp[i] = m}
<1>2. sent' = [sent EXCEPT ![T] = [m \in Ids |-> @[m] + Cardinality(I(m))]]
  BY <1>1 DEF Posted
<1>3. sent \in [Targets -> [Ids -> Nat]]
  BY DEF TypeOK
<1>4. ASSUME NEW m
      PROVE  Cardinality(I(m)) = IF m \in ToSet(grp) THEN 1 ELSE 0
  <2>1. CASE m \in ToSet(grp)
    <3>1. PICK i \in DOMAIN grp : grp[i] = m
      BY <2>1 DEF ToSet
    <3>2. I(m) = {i}
      BY <3>1 DEF IsInjective
    <3> HIDE DEF I
    <3> QED
      BY <2>1, <3>2, FS_Singleton
  <2>2. CASE m \notin ToSet(grp)
    <3>1. I(m) = {}
      BY <2>2 DEF ToSet
    <3> HIDE DEF I
    <3> QED
      BY <2>2, <3>1, FS_EmptySet
  <2> QED
    BY <2>1, <2>2
<1> HIDE DEF I
<1>5. /\ sent'[T] = [m \in Ids |-> sent[T][m] + Cardinality(I(m))]
      /\ \A t \in Targets \ {T} : sent'[t] = sent[t]
  BY <1>2, <1>3
<1>6. \A m \in Ids : sent'[T][m] = sent[T][m] + Cardinality(I(m)) /\ sent[T][m] \in Nat
  BY <1>3, <1>5
<1> QED
  BY <1>1, <1>4, <1>5, <1>6

LEMMA SendOnce ==
  ASSUME TypeOK, OnceInv, OneRulePerTarget, SendOK
  PROVE  OnceInv'
<1>1. /\ consumer.pc = "send" /\ Posted /\ consumer' = [consumer EXCEPT !.pc = "record"]
      /\ UNCHANGED <<delivered, album, handlers, queue>>
  BY DEF SendOK, ConsumerAt, env
<1>2. PICK R \in Rules, grp \in Groups : R = Task.rule /\ grp = Task.msgs
  BY <1>1, ConsumerType
<1>3. PICK T \in Targets : T = Target[R] /\ \A r \in Rules : Target[r] \in Targets /\ (Target[r] = T => r = R)
  BY ConstantTypes, OneRuleFacts
<1>4. Sending = {Task} /\ Sending' = {}
  <2>1. consumer \in ConsumerStates /\ consumer.pc # "idle"
    BY <1>1 DEF TypeOK
  <2>2. LET d == [consumer EXCEPT !.pc = "record"] IN d.pc = "record"
    BY <2>1, ConsumerEdits
  <2> QED
    BY <1>1, <2>2 DEF Sending, Task
<1>5. IsInjective(grp)
  BY <1>2, <1>4 DEF OnceInv, Flying
<1>6. /\ \A t \in Targets \ {T} : sent'[t] = sent[t]
      /\ \A m \in Ids : /\ m \in ToSet(grp) => sent'[T][m] = sent[T][m] + 1
                        /\ m \notin ToSet(grp) => sent'[T][m] = sent[T][m]
                        /\ sent[T][m] \in Nat
  BY <1>1, <1>2, <1>3, <1>5, PostOnce DEF TypeOK
<1>7. PICK G : G = ToSet(grp) /\ G \subseteq Ids /\ Going(R) = G
  <2>1. ToSet(grp) \subseteq Ids
    BY GroupType
  <2> QED
    BY <1>2, <1>4, <2>1 DEF Going
<1>8. \A m \in G : sent[T][m] = 0
  <2>1. \A m \in G : m \notin Posts(R)
    BY <1>7 DEF OnceInv, Flying
  <2> QED
    BY <1>3, <1>6, <1>7, <2>1 DEF Posts
<1>9. ASSUME NEW r \in Rules
      PROVE  /\ Going(r)' = {} /\ Queued(r)' = Queued(r)
             /\ Posts(r)' \subseteq Posts(r) \cup Going(r)
  <2>1. Going(r)' = {} /\ Queued(r)' = Queued(r)
    BY <1>1, <1>4 DEF Going, Queued
  <2>2. ASSUME NEW m \in Ids, sent'[Target[r]][m] > 0
        PROVE  m \in Posts(r) \cup Going(r)
    <3>1. CASE r = R
      BY <1>3, <1>6, <1>7, <2>2, <3>1 DEF Posts
    <3>2. CASE r # R
      BY <1>3, <1>6, <2>2, <3>2 DEF Posts
    <3> QED
      BY <3>1, <3>2
  <2>3. Posts(r)' \subseteq Posts(r) \cup Going(r)
    BY <2>2 DEF Posts
  <2> QED
    BY <2>1, <2>3
<1>10. \A r \in Rules : Out(r)' \subseteq Out(r)
  BY <1>9 DEF Out
<1>11. Flying'
  BY <1>1, <1>4, <1>9 DEF OnceInv, Flying
<1>12. AtMostOnce'
  <2>1. ASSUME NEW t \in Targets, NEW m \in Ids PROVE sent'[t][m] <= 1
    <3>1. sent[t][m] <= 1
      BY DEF OnceInv, AtMostOnce
    <3> QED
      BY <1>6, <1>7, <1>8, <3>1
  <2> QED
    BY <2>1 DEF AtMostOnce
<1> QED
  BY <1>1, <1>10, <1>11, <1>12, PastShrinks DEF OnceInv

\* The bookkeeping after a send, the source channel, the operator.
LEMMA BookkeepingOnce ==
  ASSUME TypeOK, OnceInv,
         \/ RecordMember \/ FinishSent \/ PersistSent
         \/ Publish \/ Pause \/ Resume \/ UNCHANGED vars
  PROVE  OnceInv'
<1>1. UNCHANGED <<handlers, album, delivered, queue, sent>>
  BY DEF RecordMember, FinishSent, PersistSent, Publish, Pause, Resume, vars, env
<1>2. CASE UNCHANGED consumer
  BY <1>1, <1>2, OnceRests DEF Sending
<1>3. CASE RecordMember \/ FinishSent \/ PersistSent
  <2>1. consumer.pc \notin {"idle", "send"} /\ consumer \in ConsumerStates
    BY <1>3 DEF RecordMember, FinishSent, PersistSent, ConsumerAt, TypeOK
  <2>2. consumer \in [pc : {"send", "record", "finish", "persist"}, task : Tasks,
                      tries : Nat, left : Seq(Ids), adv : Nat]
    BY <2>1 DEF ConsumerStates, IdleConsumer
  <2>3. \/ consumer' = IdleConsumer
        \/ \E q : consumer' = [consumer EXCEPT !.left = q]
        \/ \E c : consumer' = [consumer EXCEPT !.pc = "persist", !.adv = c]
    BY <1>3 DEF RecordMember, FinishSent, PersistSent, Settle
  <2>4. consumer'.pc # "send"
    BY <2>1, <2>2, <2>3, IdleConsumerState
  <2> QED
    BY <1>1, <2>1, <2>4, OnceRests DEF Sending
<1> QED
  BY <1>2, <1>3 DEF Publish, Pause, Resume, vars

LEMMA InitOnce ==
  ASSUME Init, OneRulePerTarget PROVE OnceInv
<1>1. /\ delivered = 0 /\ album = [g \in Albums |-> <<>>]
      /\ handlers = [h \in Handlers |-> Idle] /\ queue = <<>> /\ consumer = IdleConsumer
      /\ sent = [t \in Targets |-> [m \in Ids |-> 0]]
  BY DEF Init, NoAlbum, AllIdle
<1>2. /\ Whole(Idle) /\ Hand(Idle) = {}
  <2>1. Idle.groups = <<>> /\ Idle.feed = <<>> /\ Idle.todo = RuleOrder
    BY DEF Idle
  <2>2. IsInjective(Idle.feed)
    BY <2>1, NoElement DEF IsInjective
  <2> QED
    BY <2>1, <2>2, WholeFed, NoElement
<1>3. AllAlbums = {} /\ \A g \in Albums : IsInjective(album[g])
  <2>1. \A g \in Albums : album[g] = <<>>
    BY <1>1
  <2> QED
    BY <2>1, NoElement DEF AllAlbums, IsInjective
<1>4. Apart
  BY <1>1, <1>2, <1>3 DEF Apart
<1>5. /\ Sending = {} /\ DOMAIN queue = {}
      /\ \A r \in Rules : Queued(r) = {} /\ Going(r) = {} /\ Posts(r) = {}
  <2>1. Sending = {} /\ DOMAIN queue = {}
    BY <1>1, IdleConsumerState, NoElement DEF Sending
  <2>2. ASSUME NEW r \in Rules PROVE Posts(r) = {}
    <3>1. \A m \in Ids : sent[Target[r]][m] = 0
      BY <1>1, ConstantTypes
    <3> QED
      BY <3>1 DEF Posts
  <2> QED
    BY <2>1, <2>2 DEF Queued, Going
<1>6. Flying /\ AtMostOnce
  <2>1. AtMostOnce
    BY <1>1 DEF AtMostOnce
  <2> QED
    BY <1>5, <2>1 DEF Flying
<1>7. \A r \in Rules : Out(r) = {}
  BY <1>5 DEF Out
<1>8. \A r, s : Fresh(s, r, {})
  BY DEF Fresh
<1> QED
  BY <1>3, <1>4, <1>6, <1>7, <1>8 DEF OnceInv, Past

LEMMA NextOnce ==
  ASSUME IInv, UsedOK, OnceInv, Undisturbed', [Next]_vars
  PROVE  OnceInv'
<1>1. /\ OneRulePerTarget /\ Backfillers = {} /\ TypeOK /\ TrackersSound
      /\ used'["faults"] = 0 /\ used'["gaps"] = 0 /\ used'["ends"] = 0
  <2>1. UsedOK'
    BY StepUses DEF UsedGrows
  <2>2. {"faults", "gaps", "ends"} \subseteq DOMAIN used' \ {"pauses"}
    BY <2>1, LimitNames DEF UsedOK
  <2>3. "faults" \in DOMAIN used' \ {"pauses"} /\ "gaps" \in DOMAIN used' \ {"pauses"} /\ "ends" \in DOMAIN used' \ {"pauses"}
    BY <2>2
  <2> QED
    BY <2>3 DEF Undisturbed, OneRulePerTarget, IInv
<1>2. ~ Spend("faults") /\ ~ Spend("gaps") /\ ~ Spend("ends")
  BY <1>1, LimitNames, SpendUses
<1>3. CASE \/ Publish \/ Deliver \/ ChannelGap \/ ChannelGapFails \/ FlushDue
           \/ BatchFails \/ WriteNewFails
  BY <1>1, <1>2, <1>3, BookkeepingOnce, DeliverOnce, FlushOnce
     DEF ChannelGap, ChannelGapFails, BatchFails, WriteNewFails
<1>4. ASSUME NEW h \in Handlers, HandleNew(h) \/ ProcessRule(h) \/ CheckFails(h)
      PROVE  OnceInv'
  <2>1. CASE HandleNew(h)
    BY <1>1, <2>1, HandleNewOnce
  <2>2. CASE Push(h)
    BY <1>1, <2>2, PushOnce
  <2> QED
    BY <1>1, <1>2, <1>4, <2>1, <2>2, ProcessOnce DEF ProcessRule, CheckFails
<1>5. CASE Consume \/ SendFails \/ SendRejected
  BY <1>1, <1>2, <1>5, TakeOnce, SendOnce, BookkeepingOnce DEF Consume, SendFails, SendRejected
<1>6. CASE Pause \/ Resume \/ Crash \/ Shutdown
  BY <1>1, <1>2, <1>6, BookkeepingOnce DEF Crash, Shutdown
<1>7. CASE UNCHANGED vars
  BY <1>1, <1>7, BookkeepingOnce
<1> QED
  BY <1>1, <1>3, <1>4, <1>5, <1>6, <1>7 DEF Next

PostedApart == UsedOK /\ (Undisturbed => OnceInv)

LEMMA StepPostedApart ==
  ASSUME IInv, PostedApart, [Next]_vars PROVE PostedApart'
<1>1. UsedGrows
  BY StepUses DEF PostedApart
<1>2. Undisturbed' => Undisturbed
  <2>1. DOMAIN used = DOMAIN used' /\ DOMAIN used = DOMAIN Limit
    BY <1>1 DEF PostedApart, UsedOK, UsedGrows
  <2> QED
    BY <1>1, <2>1 DEF Undisturbed, UsedGrows, OneRulePerTarget
<1> QED
  BY <1>1, <1>2, NextOnce DEF PostedApart, UsedGrows

\* The updates stream and the album loop by themselves never post a message twice,
\* whatever the rules, as long as no two share a target (processRule, engine.go:485,
\* and execute, engine.go:543).
THEOREM PostedOnce == Spec => []OnceWhenUndisturbed
<1>1. Init => PostedApart
  BY InitOrdered, InitOnce DEF PostedApart, Undisturbed
<1>2. IInv /\ PostedApart /\ [Next]_vars => PostedApart'
  BY StepPostedApart
<1>3. PostedApart => OnceWhenUndisturbed
  BY DEF PostedApart, OnceInv, OnceWhenUndisturbed, Undisturbed
<1> QED
  BY <1>1, <1>2, <1>3, Invariance, PTL DEF Spec
=============================================================================
