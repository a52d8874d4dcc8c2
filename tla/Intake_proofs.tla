---------------------------- MODULE Intake_proofs ----------------------------
(***************************************************************************)
(* What decides which messages reach which rule, proved for any messages,  *)
(* windows, rules, channels and requests: the album aggregator and the     *)
(* engine's list of the rules.  What the runs album and rule_admin check   *)
(* on small instances.                                                     *)
(***************************************************************************)
EXTENDS AlbumAggregator, RuleAdmin, FiniteSetTheorems, WellFoundedInduction, TLAPS

(* The album aggregator.                                                   *)

GroupType == [msgs : Seq(Messages), quiet : Nat, hard : Nat]

AlbumTyped ==
  /\ cfg \in ConfigType /\ Valid(cfg) /\ cfg.hard <= MaxTime
  /\ Collected \subseteq Albums
  /\ groups \in [Collected -> GroupType]
  /\ idle \in [Collected -> 0 .. MaxTime]
  /\ added \in [Messages -> Nat]
  /\ out \in [Messages -> Nat]
  /\ dropped \in [Messages -> Nat]

(* What is left of an album's quiet timer and the silence so far make up   *)
(* the quiet window, unless the hard deadline comes no later.              *)
TimerRight(window, st, silence) ==
  st.quiet + silence >= window \/ st.quiet >= st.hard

TimersRight == \A g \in Collected : TimerRight(cfg.quiet, groups[g], idle[g])

(* No message lies in an album it does not belong to.                      *)
MembersOwn ==
  \A g \in Collected, x \in Messages :
    GroupedID[x] # g => Times(groups[g].msgs, x) = 0

AlbumIInv == AlbumTyped /\ MembersOwn /\ TimersRight /\ Conservation
-----------------------------------------------------------------------------
(* The operators.                                                          *)

LEMMA MinMaxOfTwo ==
  ASSUME NEW a \in Int, NEW b \in Int
  PROVE  /\ Min({a, b}) = IF a <= b THEN a ELSE b
         /\ Max({a, b}) = IF a >= b THEN a ELSE b
<1>1. Min({a, b}) = IF a <= b THEN a ELSE b
  <2> DEFINE low == IF a <= b THEN a ELSE b
  <2>1. low \in {a, b} /\ \A y \in {a, b} : low <= y
    OBVIOUS
  <2>2. \A x \in {a, b} : (\A y \in {a, b} : x <= y) => x = low
    OBVIOUS
  <2> QED
    BY <2>1, <2>2 DEF Min
<1>2. Max({a, b}) = IF a >= b THEN a ELSE b
  <2> DEFINE high == IF a >= b THEN a ELSE b
  <2>1. high \in {a, b} /\ \A y \in {a, b} : high >= y
    OBVIOUS
  <2>2. \A x \in {a, b} : (\A y \in {a, b} : x >= y) => x = high
    OBVIOUS
  <2> QED
    BY <2>1, <2>2 DEF Max
<1> QED
  BY <1>1, <1>2

LEMMA TimesGrow ==
  ASSUME NEW S, NEW s \in Seq(S), NEW x, NEW m \in S
  PROVE  /\ Times(s, x) \in Nat /\ Times(<<>>, x) = 0
         /\ Times(Append(s, m), x) = Times(s, x) + (IF x = m THEN 1 ELSE 0)
<1> DEFINE Places(q) == {i \in DOMAIN q : q[i] = x}
<1>1. /\ DOMAIN Append(s, m) = 1 .. Len(s) + 1 /\ DOMAIN s = 1 .. Len(s) /\ Append(s, m)[Len(s) + 1] = m
      /\ Len(s) \in Nat /\ \A k \in 1 .. Len(s) : Append(s, m)[k] = s[k]
  OBVIOUS
<1>2. IsFiniteSet(Places(s))
  <2>1. IsFiniteSet(1 .. Len(s)) /\ Places(s) \subseteq 1 .. Len(s)
    BY <1>1, FS_Interval
  <2> QED
    BY <2>1, FS_Subset
<1>3. Cardinality(Places(s)) \in Nat
  BY <1>2, FS_CardinalityType
<1>4. Len(s) + 1 \notin Places(s)
  BY <1>1
<1>5. Places(Append(s, m)) = IF x = m THEN Places(s) \cup {Len(s) + 1} ELSE Places(s)
  BY <1>1
<1>6. Cardinality(Places(Append(s, m))) = Cardinality(Places(s)) + (IF x = m THEN 1 ELSE 0)
  <2> HIDE DEF Places
  <2>1. CASE x = m
    BY <1>2, <1>3, <1>4, <1>5, <2>1, FS_AddElement
  <2>2. CASE x # m
    BY <1>3, <1>5, <2>2
  <2> QED
    BY <2>1, <2>2
<1>7. Places(<<>>) = {} /\ Cardinality({}) = 0
  BY FS_EmptySet
<1> QED
  BY <1>3, <1>6, <1>7 DEF Times

(* A new window is valid, or the default replaces it.                      *)
LEMMA WindowIsValid ==
  ASSUME NEW c \in Windows
  PROVE  /\ NewAlbumAggregator(c) \in ConfigType
         /\ Valid(NewAlbumAggregator(c)) /\ NewAlbumAggregator(c).hard <= MaxTime
  BY AlbumAssumption DEF NewAlbumAggregator

(* The timer of a stored member: as long as the deadline is ahead, the     *)
(* quiet window or what the deadline leaves of it.                         *)
LEMMA ResetTimer ==
  ASSUME AlbumTyped, NEW st \in GroupType
  PROVE  /\ resetTimer(st) \in GroupType
         /\ resetTimer(st).msgs = st.msgs /\ resetTimer(st).hard = st.hard
         /\ st.hard > 0 => TimerRight(cfg.quiet, resetTimer(st), 0)
<1>1. cfg.quiet \in Int /\ cfg.quiet > 0 /\ st.hard \in Nat /\ st.quiet \in Nat
  BY DEF AlbumTyped, ConfigType, Valid, GroupType
<1> DEFINE d == Min({cfg.quiet, st.hard})
<1>2. d = IF cfg.quiet <= st.hard THEN cfg.quiet ELSE st.hard
  BY <1>1, MinMaxOfTwo
<1>3. d \in Nat /\ d <= st.hard /\ (st.hard > 0 => d > 0) /\ (d = cfg.quiet \/ d = st.hard)
  BY <1>1, <1>2
<1>4. PICK n \in Nat : n = d
  BY <1>3
<1>5. CASE n <= 0
  <2>1. resetTimer(st) = st
    BY <1>4, <1>5 DEF resetTimer
  <2>2. ~ (st.hard > 0)
    BY <1>3, <1>4, <1>5
  <2> QED
    BY <2>1, <2>2
<1>6. CASE ~ (n <= 0)
  <2>1. resetTimer(st) = [st EXCEPT !.quiet = n]
    BY <1>4, <1>6 DEF resetTimer
  <2>2. [st EXCEPT !.quiet = n] \in GroupType
    BY DEF GroupType
  <2>3. /\ [st EXCEPT !.quiet = n].msgs = st.msgs /\ [st EXCEPT !.quiet = n].hard = st.hard
        /\ [st EXCEPT !.quiet = n].quiet = n
    BY DEF GroupType
  <2>4. TimerRight(cfg.quiet, resetTimer(st), 0)
    BY <1>1, <1>3, <1>4, <2>1, <2>3 DEF TimerRight
  <2> QED
    BY <2>1, <2>2, <2>3, <2>4
<1> QED
  BY <1>5, <1>6

(* The album a message is in after Add.                                    *)
LEMMA AppendedIsRight ==
  ASSUME AlbumTyped, MembersOwn, NEW m \in Messages
  PROVE  /\ Appended(m) \in GroupType
         /\ ~ ReadyNow(m) => TimerRight(cfg.quiet, Appended(m), 0)
         /\ \A x \in Messages : GroupedID[x] = GroupedID[m] =>
              Times(Appended(m).msgs, x) = Occurrences(Collected, x) + (IF x = m THEN 1 ELSE 0)
         /\ \A x \in Messages : GroupedID[x] # GroupedID[m] => Times(Appended(m).msgs, x) = 0
<1> DEFINE g   == GroupedID[m]
           old == IF g \in Collected THEN groups[g]
                  ELSE [msgs |-> <<>>, quiet |-> 0, hard |-> cfg.hard]
<1>1. cfg.hard \in Nat /\ cfg.hard > 0
  BY DEF AlbumTyped, ConfigType, Valid
<1>2. old \in GroupType
  BY <1>1 DEF AlbumTyped, GroupType
<1>3. PICK w \in GroupType : w = old
  BY <1>2
<1>4. PICK st \in GroupType : st = [w EXCEPT !.msgs = Append(w.msgs, m)]
  <2>1. [w EXCEPT !.msgs = Append(w.msgs, m)] \in GroupType
    BY DEF GroupType
  <2> QED
    BY <2>1
<1>5. st.msgs = Append(w.msgs, m) /\ st.hard = w.hard /\ w.msgs \in Seq(Messages) /\ w.hard \in Nat
  BY <1>4 DEF GroupType
<1>6. Appended(m) = resetTimer(st)
  BY <1>3, <1>4 DEF Appended
<1>7. Appended(m) \in GroupType /\ Appended(m).msgs = st.msgs /\ Appended(m).hard = st.hard
  BY <1>6, ResetTimer
<1>8. ASSUME ~ ReadyNow(m) PROVE TimerRight(cfg.quiet, Appended(m), 0)
  <2>1. g \in Collected => ~ (st.hard <= 0)
    BY <1>7, <1>8 DEF ReadyNow
  <2>2. g \notin Collected => st.hard = cfg.hard
    BY <1>3, <1>5
  <2>3. st.hard > 0
    BY <1>1, <1>5, <2>1, <2>2
  <2> QED
    BY <1>6, <2>3, ResetTimer
<1>9. ASSUME NEW x \in Messages
      PROVE  /\ Times(Appended(m).msgs, x) = Times(w.msgs, x) + (IF x = m THEN 1 ELSE 0)
             /\ Times(w.msgs, x) \in Nat
  <2>1. Times(Append(w.msgs, m), x) = Times(w.msgs, x) + (IF x = m THEN 1 ELSE 0) /\ Times(w.msgs, x) \in Nat
    BY <1>5, TimesGrow
  <2> QED
    BY <1>5, <1>7, <2>1
<1>10. ASSUME NEW x \in Messages, GroupedID[x] = g
       PROVE  Times(w.msgs, x) = Occurrences(Collected, x)
  <2>1. CASE g \in Collected
    BY <1>3, <1>10, <2>1 DEF Occurrences
  <2>2. CASE g \notin Collected
    <3>1. w.msgs = <<>>
      BY <1>3, <2>2
    <3>2. Times(<<>>, x) = 0
      BY <1>5, TimesGrow
    <3> QED
      BY <1>10, <2>2, <3>1, <3>2 DEF Occurrences
  <2> QED
    BY <2>1, <2>2
<1>11. ASSUME NEW x \in Messages, GroupedID[x] # g
       PROVE  Times(w.msgs, x) = 0
  <2>1. CASE g \in Collected
    BY <1>3, <1>11, <2>1 DEF MembersOwn
  <2>2. CASE g \notin Collected
    <3>1. w.msgs = <<>>
      BY <1>3, <2>2
    <3>2. Times(<<>>, x) = 0
      BY <1>5, TimesGrow
    <3> QED
      BY <3>1, <3>2
  <2> QED
    BY <2>1, <2>2
<1>12. ASSUME NEW x \in Messages, GroupedID[x] = GroupedID[m]
       PROVE  Times(Appended(m).msgs, x) = Occurrences(Collected, x) + (IF x = m THEN 1 ELSE 0)
  BY <1>9, <1>10, <1>12
<1>13. ASSUME NEW x \in Messages, GroupedID[x] # GroupedID[m]
       PROVE  Times(Appended(m).msgs, x) = 0
  BY <1>9, <1>11, <1>13
<1> QED
  BY <1>7, <1>8, <1>12, <1>13

(* How often a message is collected.                                       *)
LEMMA OccurrencesAreCounts ==
  ASSUME AlbumTyped, NEW x \in Messages, NEW S \in SUBSET Collected
  PROVE  /\ Occurrences(S, x) \in Nat
         /\ Occurrences(Collected, x) = Occurrences(S, x) + Occurrences(Collected \ S, x)
<1>1. ASSUME GroupedID[x] \in Collected PROVE Times(groups[GroupedID[x]].msgs, x) \in Nat
  <2>1. groups[GroupedID[x]].msgs \in Seq(Messages)
    BY <1>1 DEF AlbumTyped, GroupType
  <2> QED
    BY <2>1, TimesGrow
<1> QED
  BY <1>1 DEF Occurrences
-----------------------------------------------------------------------------
(* The steps.                                                              *)

LEMMA AlbumInitInv == AlbumInit => AlbumIInv
<1> SUFFICES ASSUME AlbumInit PROVE AlbumIInv
  OBVIOUS
<1>1. Collected = {}
  BY DEF AlbumInit, Collected
<1>2. cfg \in ConfigType /\ Valid(cfg) /\ cfg.hard <= MaxTime
  BY WindowIsValid DEF AlbumInit
<1>3. groups \in [Collected -> GroupType] /\ idle \in [Collected -> 0 .. MaxTime]
  BY <1>1 DEF AlbumInit
<1>4. added \in [Messages -> Nat] /\ out \in [Messages -> Nat] /\ dropped \in [Messages -> Nat]
  BY DEF AlbumInit
<1>5. AlbumTyped /\ MembersOwn /\ TimersRight
  BY <1>1, <1>2, <1>3, <1>4 DEF AlbumTyped, MembersOwn, TimersRight
<1>6. Conservation
  BY <1>1 DEF AlbumInit, Conservation, Occurrences
<1> QED
  BY <1>5, <1>6 DEF AlbumIInv

LEMMA AddStoreInv ==
  ASSUME AlbumIInv, NEW m \in Messages, AddStore(m)
  PROVE  AlbumIInv'
<1> DEFINE g == GroupedID[m]
<1> USE DEF AlbumIInv
<1>1. PICK st \in GroupType : st = Appended(m)
  BY AppendedIsRight
<1>2. /\ TimerRight(cfg.quiet, st, 0)
      /\ \A x \in Messages : GroupedID[x] = g =>
           Times(st.msgs, x) = Occurrences(Collected, x) + (IF x = m THEN 1 ELSE 0)
      /\ \A x \in Messages : GroupedID[x] # g => Times(st.msgs, x) = 0
  BY <1>1, AppendedIsRight DEF AddStore
<1>3. g \in Albums
  BY DEF Albums
<1>4. /\ Collected' = Collected \cup {g}
      /\ groups'[g] = st /\ idle'[g] = 0
      /\ \A h \in Collected : h # g => groups'[h] = groups[h] /\ idle'[h] = idle[h]
  BY <1>1 DEF AddStore, Collected
<1>5. groups' \in [Collected' -> GroupType] /\ idle' \in [Collected' -> 0 .. MaxTime]
  <2>1. \A h \in Collected : groups[h] \in GroupType /\ idle[h] \in 0 .. MaxTime
    BY DEF AlbumTyped
  <2>2. 0 \in 0 .. MaxTime
    BY AlbumAssumption
  <2>3. \A h \in Collected' : groups'[h] \in GroupType /\ idle'[h] \in 0 .. MaxTime
    BY <1>4, <2>1, <2>2
  <2>4. /\ groups' = [h \in Collected' |-> groups'[h]]
        /\ idle' = [h \in Collected' |-> idle'[h]]
    BY <1>4 DEF AddStore
  <2> QED
    BY <2>3, <2>4
<1>6. AlbumTyped'
  <2>1. Collected' \subseteq Albums
    BY <1>3, <1>4 DEF AlbumTyped
  <2>2. added' \in [Messages -> Nat]
    BY DEF AlbumTyped, AddStore
  <2> QED
    BY <1>5, <2>1, <2>2 DEF AlbumTyped, AddStore, ConfigType, Valid
<1>7. MembersOwn'
  <2> SUFFICES ASSUME NEW h \in Collected', NEW x \in Messages, GroupedID[x] # h
               PROVE  Times(groups'[h].msgs, x) = 0
    BY DEF MembersOwn, Times
  <2> QED
    BY <1>2, <1>4 DEF MembersOwn
<1>8. TimersRight'
  <2>1. cfg' = cfg
    BY DEF AddStore
  <2>2. ASSUME NEW h \in Collected' PROVE TimerRight(cfg.quiet, groups'[h], idle'[h])
    BY <1>2, <1>4 DEF TimersRight
  <2> QED
    BY <2>1, <2>2 DEF TimersRight
<1>9. Conservation'
  <2> SUFFICES ASSUME NEW x \in Messages
               PROVE  added'[x] = out'[x] + dropped'[x] + Occurrences(Collected, x)'
    BY DEF Conservation
  <2>1. /\ added'[x] = added[x] + (IF x = m THEN 1 ELSE 0)
        /\ out' = out /\ dropped' = dropped
    BY DEF AddStore, AlbumTyped
  <2>2. Occurrences(Collected, x)' = Occurrences(Collected, x) + (IF x = m THEN 1 ELSE 0)
    <3>1. CASE GroupedID[x] = g
      <4>1. GroupedID[x] \in Collected' /\ groups'[GroupedID[x]] = st
        BY <1>4, <3>1
      <4>2. Occurrences(Collected, x)' = Times(st.msgs, x)
        BY <4>1 DEF Occurrences, Times
      <4> QED
        BY <1>2, <3>1, <4>2
    <3>2. CASE GroupedID[x] # g
      <4>1. GroupedID[x] \in Collected' <=> GroupedID[x] \in Collected
        BY <1>4, <3>2
      <4>2. GroupedID[x] \in Collected => groups'[GroupedID[x]] = groups[GroupedID[x]]
        BY <1>4, <3>2
      <4>3. Occurrences(Collected, x)' = Occurrences(Collected, x)
        BY <4>1, <4>2 DEF Occurrences, Times
      <4>4. x # m
        BY <3>2
      <4>5. Occurrences(Collected, x) \in Nat
        BY OccurrencesAreCounts
      <4> QED
        BY <4>3, <4>4, <4>5
    <3> QED
      BY <3>1, <3>2
  <2>3. added[x] = out[x] + dropped[x] + Occurrences(Collected, x)
    BY DEF Conservation
  <2>4. out[x] \in Nat /\ dropped[x] \in Nat /\ Occurrences(Collected, x) \in Nat
    BY OccurrencesAreCounts DEF AlbumTyped
  <2> QED
    BY <2>1, <2>2, <2>3, <2>4
<1> QED
  BY <1>6, <1>7, <1>8, <1>9

(* What every removal of the albums S leaves of the invariant.             *)
LEMMA RestKeepsInv ==
  ASSUME AlbumIInv, NEW S \in SUBSET Collected, cfg' = cfg,
         groups' = [g \in Collected \ S |-> groups[g]],
         idle' = [g \in Collected \ S |-> idle[g]],
         added' \in [Messages -> Nat], out' \in [Messages -> Nat], dropped' \in [Messages -> Nat]
  PROVE  /\ AlbumTyped' /\ MembersOwn' /\ TimersRight'
         /\ \A x \in Messages : Occurrences(Collected, x)' = Occurrences(Collected \ S, x)
<1> USE DEF AlbumIInv
<1>1. Collected' = Collected \ S /\ \A h \in Collected' : groups'[h] = groups[h] /\ idle'[h] = idle[h]
  BY DEF Collected
<1>2. AlbumTyped'
  <2>1. groups' \in [Collected' -> GroupType] /\ idle' \in [Collected' -> 0 .. MaxTime]
    BY <1>1 DEF AlbumTyped
  <2>2. Collected' \subseteq Albums
    BY <1>1 DEF AlbumTyped
  <2> QED
    BY <2>1, <2>2 DEF AlbumTyped, ConfigType, Valid
<1>3. MembersOwn'
  <2> SUFFICES ASSUME NEW h \in Collected', NEW x \in Messages, GroupedID[x] # h
               PROVE  Times(groups'[h].msgs, x) = 0
    BY DEF MembersOwn, Times
  <2> QED
    BY <1>1 DEF MembersOwn
<1>4. TimersRight'
  BY <1>1 DEF TimersRight
<1>5. ASSUME NEW x \in Messages PROVE Occurrences(Collected, x)' = Occurrences(Collected \ S, x)
  BY <1>1 DEF Occurrences, Times
<1> QED
  BY <1>2, <1>3, <1>4, <1>5

LEMMA AddFlushInv ==
  ASSUME AlbumIInv, NEW m \in Messages, AddFlush(m)
  PROVE  AlbumIInv'
<1> DEFINE g == GroupedID[m]
           S == Collected \cap {g}
<1> USE DEF AlbumIInv
<1>1. PICK st \in GroupType : st = Appended(m)
  BY AppendedIsRight
<1>2. ASSUME NEW x \in Messages
      PROVE  Times(st.msgs, x) = Occurrences(S, x) + (IF x = m THEN 1 ELSE 0)
  <2>1. CASE GroupedID[x] = g
    BY <1>1, <2>1, AppendedIsRight DEF Occurrences
  <2>2. CASE GroupedID[x] # g
    <3>1. Times(st.msgs, x) = 0
      BY <1>1, <2>2, AppendedIsRight
    <3>2. x # m /\ Occurrences(S, x) = 0
      BY <2>2 DEF Occurrences
    <3> QED
      BY <3>1, <3>2
  <2> QED
    BY <2>1, <2>2
<1>3. Collected \ S = Collected \ {g}
  OBVIOUS
<1>4. \A x \in Messages : Occurrences(S, x) \in Nat
  BY OccurrencesAreCounts
<1>5. out' \in [Messages -> Nat] /\ added' \in [Messages -> Nat] /\ dropped' = dropped
  <2>1. out' = [x \in Messages |-> out[x] + Times(st.msgs, x)]
    BY <1>1 DEF AddFlush
  <2>2. ASSUME NEW x \in Messages PROVE out[x] + Times(st.msgs, x) \in Nat
    <3> HIDE DEF S
    <3>1. PICK o \in Nat : o = Occurrences(S, x)
      BY <1>4
    <3>2. out[x] \in Nat
      BY DEF AlbumTyped
    <3>3. Times(st.msgs, x) = o + (IF x = m THEN 1 ELSE 0)
      BY <1>2, <3>1
    <3> QED
      BY <3>2, <3>3
  <2>3. out' \in [Messages -> Nat]
    BY <2>1, <2>2
  <2> QED
    BY <2>3 DEF AddFlush, AlbumTyped
<1>6. /\ AlbumTyped' /\ MembersOwn' /\ TimersRight'
      /\ \A x \in Messages : Occurrences(Collected, x)' = Occurrences(Collected \ S, x)
  <2>1. /\ groups' = [h \in Collected \ S |-> groups[h]]
        /\ idle' = [h \in Collected \ S |-> idle[h]]
        /\ cfg' = cfg
    BY <1>3 DEF AddFlush
  <2>2. dropped' \in [Messages -> Nat] /\ S \in SUBSET Collected
    BY <1>5 DEF AlbumTyped
  <2> HIDE DEF S
  <2> QED
    BY <1>5, <2>1, <2>2, RestKeepsInv
<1>7. Conservation'
  <2> SUFFICES ASSUME NEW x \in Messages
               PROVE  added'[x] = out'[x] + dropped'[x] + Occurrences(Collected, x)'
    BY DEF Conservation
  <2>1. /\ added'[x] = added[x] + (IF x = m THEN 1 ELSE 0)
        /\ out'[x] = out[x] + Times(st.msgs, x) /\ dropped' = dropped
    BY <1>1 DEF AddFlush, AlbumTyped
  <2>2. added[x] = out[x] + dropped[x] + Occurrences(Collected, x)
    BY DEF Conservation
  <2>3. /\ out[x] \in Nat /\ dropped[x] \in Nat
        /\ Occurrences(S, x) \in Nat /\ Occurrences(Collected \ S, x) \in Nat
        /\ Occurrences(Collected, x) = Occurrences(S, x) + Occurrences(Collected \ S, x)
    BY OccurrencesAreCounts DEF AlbumTyped
  <2>4. /\ Occurrences(Collected, x)' = Occurrences(Collected \ S, x)
        /\ Times(st.msgs, x) = Occurrences(S, x) + (IF x = m THEN 1 ELSE 0)
    BY <1>2, <1>6
  <2> HIDE DEF S
  <2> QED
    BY <2>1, <2>2, <2>3, <2>4
<1> QED
  BY <1>6, <1>7

LEMMA FlushInv ==
  ASSUME AlbumIInv, NEW S \in SUBSET Collected, Flush(S),
         UNCHANGED <<albumCfg, cfg, added, dropped, reconfigs>>
  PROVE  AlbumIInv'
<1> USE DEF AlbumIInv
<1>1. \A x \in Messages : Occurrences(S, x) \in Nat /\ out[x] \in Nat
  BY OccurrencesAreCounts DEF AlbumTyped
<1>2. out' \in [Messages -> Nat]
  BY <1>1 DEF Flush
<1>3. added' \in [Messages -> Nat] /\ dropped' \in [Messages -> Nat] /\ cfg' = cfg
  BY DEF AlbumTyped
<1>4. /\ AlbumTyped' /\ MembersOwn' /\ TimersRight'
      /\ \A x \in Messages : Occurrences(Collected, x)' = Occurrences(Collected \ S, x)
  BY <1>2, <1>3, RestKeepsInv DEF Flush
<1>5. Conservation'
  <2> SUFFICES ASSUME NEW x \in Messages
               PROVE  added'[x] = out'[x] + dropped'[x] + Occurrences(Collected, x)'
    BY DEF Conservation
  <2>1. out'[x] = out[x] + Occurrences(S, x) /\ added' = added /\ dropped' = dropped
    BY DEF Flush
  <2>2. added[x] = out[x] + dropped[x] + Occurrences(Collected, x)
    BY DEF Conservation
  <2>3. /\ out[x] \in Nat /\ dropped[x] \in Nat
        /\ Occurrences(S, x) \in Nat /\ Occurrences(Collected \ S, x) \in Nat
        /\ Occurrences(Collected, x) = Occurrences(S, x) + Occurrences(Collected \ S, x)
    BY OccurrencesAreCounts DEF AlbumTyped
  <2>4. Occurrences(Collected, x)' = Occurrences(Collected \ S, x)
    BY <1>4
  <2> QED
    BY <2>1, <2>2, <2>3, <2>4
<1> QED
  BY <1>4, <1>5

LEMMA ApplySettingsInv ==
  ASSUME AlbumIInv, NEW c \in Windows, ApplySettings(c)
  PROVE  AlbumIInv'
<1> USE DEF AlbumIInv
<1>1. Collected' = {} /\ Due \in SUBSET Collected
  BY DEF ApplySettings, Collected, Due
<1>2. \A x \in Messages : /\ Occurrences(Due, x) \in Nat /\ Occurrences(Collected \ Due, x) \in Nat
                          /\ Occurrences(Collected, x) = Occurrences(Due, x) + Occurrences(Collected \ Due, x)
                          /\ out[x] \in Nat /\ dropped[x] \in Nat
  <2>1. ASSUME NEW x \in Messages, NEW S \in SUBSET Collected
        PROVE  Occurrences(S, x) \in Nat
    BY OccurrencesAreCounts
  <2> QED
    BY <1>1, <2>1, OccurrencesAreCounts DEF AlbumTyped
<1>3. out' \in [Messages -> Nat] /\ dropped' \in [Messages -> Nat]
  <2>1. ASSUME NEW x \in Messages
        PROVE  out[x] + Occurrences(Due, x) \in Nat /\ dropped[x] + Occurrences(Collected \ Due, x) \in Nat
    <3>1. /\ Occurrences(Due, x) \in Nat /\ Occurrences(Collected \ Due, x) \in Nat
          /\ out[x] \in Nat /\ dropped[x] \in Nat
      BY <1>2
    <3> QED
      BY <3>1
  <2> QED
    BY <2>1 DEF ApplySettings
<1>4. cfg' \in ConfigType /\ Valid(cfg)' /\ (cfg.hard <= MaxTime)'
  BY WindowIsValid DEF ApplySettings, Valid
<1>5. AlbumTyped'
  <2>1. groups' \in [Collected' -> GroupType] /\ idle' \in [Collected' -> 0 .. MaxTime]
    BY <1>1 DEF ApplySettings
  <2> QED
    BY <1>1, <1>3, <1>4, <2>1 DEF AlbumTyped, ApplySettings
<1>6. MembersOwn' /\ TimersRight'
  BY <1>1 DEF MembersOwn, TimersRight
<1>7. Conservation'
  <2> SUFFICES ASSUME NEW x \in Messages
               PROVE  added'[x] = out'[x] + dropped'[x] + Occurrences(Collected, x)'
    BY DEF Conservation
  <2>1. /\ out'[x] = out[x] + Occurrences(Due, x) /\ added' = added
        /\ dropped'[x] = dropped[x] + Occurrences(Collected \ Due, x)
    BY DEF ApplySettings
  <2>2. added[x] = out[x] + dropped[x] + Occurrences(Collected, x)
    BY DEF Conservation
  <2>3. Occurrences(Collected, x)' = 0
    BY <1>1 DEF Occurrences
  <2>4. /\ Occurrences(Due, x) \in Nat /\ Occurrences(Collected \ Due, x) \in Nat
        /\ Occurrences(Collected, x) = Occurrences(Due, x) + Occurrences(Collected \ Due, x)
        /\ out[x] \in Nat /\ dropped[x] \in Nat
    BY <1>2
  <2> QED
    BY <2>1, <2>2, <2>3, <2>4
<1> QED
  BY <1>5, <1>6, <1>7

LEMMA TickInv ==
  ASSUME AlbumIInv, Tick
  PROVE  AlbumIInv'
<1> USE DEF AlbumIInv
<1>1. Collected' = Collected
  BY DEF Tick, Collected
<1>2. ASSUME NEW g \in Collected
      PROVE  /\ groups'[g] \in GroupType /\ idle'[g] \in 0 .. MaxTime
             /\ groups'[g].msgs = groups[g].msgs
             /\ TimerRight(cfg.quiet, groups'[g], idle'[g])
  <2>1. PICK st \in GroupType, n \in 0 .. MaxTime : st = groups[g] /\ n = idle[g]
    BY DEF AlbumTyped
  <2>2. st.quiet \in Nat /\ st.hard \in Nat /\ n \in Nat /\ n <= MaxTime /\ MaxTime \in Nat
    BY AlbumAssumption DEF GroupType
  <2>3. PICK q \in Nat, h \in Nat, k \in Nat :
          /\ q = Max({st.quiet - 1, 0}) /\ h = Max({st.hard - 1, 0}) /\ k = Min({n + 1, MaxTime})
          /\ q = IF st.quiet - 1 >= 0 THEN st.quiet - 1 ELSE 0
          /\ h = IF st.hard - 1 >= 0 THEN st.hard - 1 ELSE 0
          /\ k = IF n + 1 <= MaxTime THEN n + 1 ELSE MaxTime
    <3>1. Max({st.quiet - 1, 0}) = IF st.quiet - 1 >= 0 THEN st.quiet - 1 ELSE 0
      <4>1. PICK a \in Int : a = st.quiet - 1
        BY <2>2
      <4>2. Max({a, 0}) = IF a >= 0 THEN a ELSE 0
        BY MinMaxOfTwo
      <4> QED
        BY <4>1, <4>2
    <3>2. Max({st.hard - 1, 0}) = IF st.hard - 1 >= 0 THEN st.hard - 1 ELSE 0
      <4>1. PICK a \in Int : a = st.hard - 1
        BY <2>2
      <4>2. Max({a, 0}) = IF a >= 0 THEN a ELSE 0
        BY MinMaxOfTwo
      <4> QED
        BY <4>1, <4>2
    <3>3. Min({n + 1, MaxTime}) = IF n + 1 <= MaxTime THEN n + 1 ELSE MaxTime
      <4>1. n + 1 \in Int /\ MaxTime \in Int
        BY <2>2
      <4> QED
        BY <4>1, MinMaxOfTwo
    <3> QED
      BY <2>2, <3>1, <3>2, <3>3
  <2>4. PICK nw \in GroupType : nw = [st EXCEPT !.quiet = q, !.hard = h]
    <3>1. [st EXCEPT !.quiet = q, !.hard = h] \in GroupType
      BY DEF GroupType
    <3> QED
      BY <3>1
  <2>5. nw.quiet = q /\ nw.hard = h /\ nw.msgs = st.msgs
    BY <2>4 DEF GroupType
  <2>6. groups'[g] = nw /\ idle'[g] = k
    BY <2>1, <2>3, <2>4 DEF Tick
  <2>7. k \in 0 .. MaxTime
    BY <2>2, <2>3
  <2>8. TimerRight(cfg.quiet, nw, k)
    <3>1. TimerRight(cfg.quiet, st, n)
      BY <2>1 DEF TimersRight
    <3>2. cfg.quiet \in Nat /\ cfg.quiet <= MaxTime
      BY <2>2 DEF AlbumTyped, ConfigType, Valid
    <3>3. CASE st.quiet + n >= cfg.quiet
      BY <2>2, <2>3, <2>5, <3>2, <3>3 DEF TimerRight
    <3>4. CASE st.quiet >= st.hard
      BY <2>2, <2>3, <2>5, <3>4 DEF TimerRight
    <3> QED
      BY <3>1, <3>3, <3>4 DEF TimerRight
  <2> QED
    BY <2>1, <2>5, <2>6, <2>7, <2>8
<1>3. AlbumTyped'
  <2>1. groups' \in [Collected' -> GroupType] /\ idle' \in [Collected' -> 0 .. MaxTime]
    <3>1. groups' = [g \in Collected' |-> groups'[g]] /\ idle' = [g \in Collected' |-> idle'[g]]
      BY <1>1 DEF Tick
    <3> QED
      BY <1>1, <1>2, <3>1
  <2> QED
    BY <1>1, <2>1 DEF AlbumTyped, Tick, ConfigType, Valid
<1>4. MembersOwn'
  BY <1>1, <1>2 DEF MembersOwn, Times
<1>5. TimersRight'
  <2>1. cfg' = cfg
    BY DEF Tick
  <2> QED
    BY <1>1, <1>2, <2>1 DEF TimersRight
<1>6. Conservation'
  <2>1. ASSUME NEW x \in Messages PROVE Occurrences(Collected, x)' = Occurrences(Collected, x)
    BY <1>1, <1>2 DEF Occurrences, Times
  <2> QED
    BY <2>1 DEF Conservation, Tick
<1> QED
  BY <1>3, <1>4, <1>5, <1>6

LEMMA AlbumStepInv == AlbumIInv /\ [AlbumNext]_albumVars => AlbumIInv'
<1> SUFFICES ASSUME AlbumIInv, [AlbumNext]_albumVars PROVE AlbumIInv'
  OBVIOUS
<1>1. ASSUME NEW m \in Messages, AddStore(m) \/ AddFlush(m) PROVE AlbumIInv'
  BY <1>1, AddStoreInv, AddFlushInv
<1>2. CASE FlushDue
  <2>1. Due \in SUBSET Collected
    BY DEF Due
  <2> QED
    BY <1>2, <2>1, FlushInv DEF FlushDue
<1>3. CASE FlushAll
  BY <1>3, FlushInv DEF FlushAll
<1>4. ASSUME NEW c \in Windows, ApplySettings(c) PROVE AlbumIInv'
  BY <1>4, ApplySettingsInv
<1>5. CASE Tick
  BY <1>5, TickInv
<1>6. CASE UNCHANGED albumVars
  <2>1. /\ cfg' = cfg /\ groups' = groups /\ idle' = idle
        /\ added' = added /\ out' = out /\ dropped' = dropped /\ Collected' = Collected
    BY <1>6 DEF albumVars, Collected
  <2>2. AlbumTyped'
    BY <2>1 DEF AlbumIInv, AlbumTyped
  <2>3. MembersOwn' /\ TimersRight'
    BY <2>1 DEF AlbumIInv, MembersOwn, TimersRight
  <2>4. Conservation'
    BY <2>1 DEF AlbumIInv, Conservation, Occurrences
  <2> QED
    BY <2>2, <2>3, <2>4 DEF AlbumIInv
<1> QED
  BY <1>1, <1>2, <1>3, <1>4, <1>5, <1>6 DEF AlbumNext
-----------------------------------------------------------------------------
(* The inductive invariant of the aggregator (album.go:Add, FlushDue,      *)
(* FlushAll, and ApplySettings of engine.go).                              *)
THEOREM AlbumInvariance == AlbumSpec => []AlbumIInv
<1> QED
  BY AlbumInitInv, AlbumStepInv, PTL DEF AlbumSpec

(* Every member handed to Add is collected, left in exactly one group or   *)
(* went with a replaced aggregator: flushLocked pops what it hands out,    *)
(* and an Add that fills the album or comes after the deadline hands out   *)
(* its own message too, in any interleaving with the loop and the drain.   *)
THEOREM NothingVanishes == AlbumSpec => []Conservation
<1>1. AlbumIInv => Conservation
  BY DEF AlbumIInv
<1> QED
  BY <1>1, AlbumInvariance, PTL

(* An album that FlushDue takes was silent for the whole quiet window or   *)
(* its hard deadline passed: resetTimerLocked restarts the quiet timer on  *)
(* every member and never sets it behind the deadline.                     *)
THEOREM CutOnlyWhenDue == AlbumSpec => []DueMeansSilentOrLate
<1>1. AlbumIInv => DueMeansSilentOrLate
  <2> SUFFICES ASSUME AlbumIInv, NEW g \in Due, groups[g].hard # 0
               PROVE  idle[g] >= cfg.quiet
    BY DEF DueMeansSilentOrLate
  <2>1. /\ g \in Collected /\ groups[g].quiet = 0 /\ groups[g].hard \in Nat
        /\ idle[g] \in Nat /\ cfg.quiet \in Int
    BY AlbumAssumption DEF Due, AlbumIInv, AlbumTyped, GroupType, ConfigType
  <2>2. TimerRight(cfg.quiet, groups[g], idle[g])
    BY <2>1 DEF AlbumIInv, TimersRight
  <2> QED
    BY <2>1, <2>2 DEF TimerRight
<1> QED
  BY <1>1, AlbumInvariance, PTL
-----------------------------------------------------------------------------
(* The rules.                                                              *)
Lists == [Rules -> RuleRows \cup {Absent}]
Rounds == Requests \cup {"run"}

Points == {"idle", "get", "write", "list", "store"}
ReqType ==
  [pc : Points,
   op : {"none", "create", "update", "delete", "enable", "disable"},
   rule : Nat, arg : Configs \cup {Absent}, held : Lists, clean : BOOLEAN]

HandlerType ==
  [chat : Chats \cup {Absent}, feed : SUBSET Nat, msg : Nat, todo : Lists]

RuleTyped ==
  /\ row \in Lists /\ lastId \in Nat
  /\ published \in [Chats -> Nat] /\ delivered \in [Chats -> Nat]
  /\ cache \in Lists /\ loaded \in BOOLEAN /\ outdated \in BOOLEAN
  /\ trackers \in [Rules -> Nat \cup {Absent}]
  /\ req \in [Rounds -> ReqType]
  /\ handler \in [Handlers -> HandlerType]
  /\ handled = [r \in Rules |-> handled[r]]
  /\ excused = [r \in Rules |-> excused[r]]

(* A request that is going to write a rule was decoded.                    *)
RequestsSound ==
  \A q \in Rounds :
    req[q].pc \in {"get", "write"} /\ req[q].op \in {"create", "update"} => req[q].arg \in Configs

(* A list of rules is the enabled ones of the database, as far as matching *)
(* goes.                                                                   *)
Agrees(list) == \A r \in Rules : ConfigOf(list[r]) = ConfigOf(ListEnabled[r])

(* A list that a refresh holds agrees, unless it was marked.               *)
ListsRight ==
  \A q \in Rounds : req[q].pc = "store" /\ req[q].clean => Agrees(req[q].held)

(* The live handler is handed one message at a time.                       *)
OneAtATime == \E k \in Nat : handler["live"].feed \subseteq {k}

(* As SkippedHasCause, and the rule that is yet to be tried will match.    *)
WillTake(s, r, c, m) ==
  /\ s.chat = c
  /\ m \in s.feed \/ (m = s.msg /\ s.todo[r] # Absent /\ s.todo[r].source = c)

Settled ==
  \A r \in Rules, c \in Chats : \A m \in 1 .. delivered[c] :
    <<c, m>> \in handled[r] \cup excused[r] \/ WillTake(handler["live"], r, c, m)

Matched == OneAtATime /\ Settled

RuleIInv ==
  RuleTyped /\ RequestsSound /\ ListsRight /\ CacheFollowsRows /\ Matched
-----------------------------------------------------------------------------
(* The operators.                                                          *)

LEMMA LeastOf ==
  ASSUME NEW S \in SUBSET Nat, S # {}
  PROVE  Min(S) \in S
<1>1. IsWellFoundedOn(OpToRel(<, Nat), Nat)
  BY NatLessThanWellFounded
<1>2. PICK x \in S : \A y \in S : ~ (<<y, x>> \in OpToRel(<, Nat))
  BY <1>1, WFMin
<1>3. \A y \in S : x <= y
  <2> SUFFICES ASSUME NEW y \in S PROVE ~ (y < x)
    OBVIOUS
  <2>1. x \in Nat /\ y \in Nat
    OBVIOUS
  <2>2. y < x => <<y, x>> \in OpToRel(<, Nat)
    BY <2>1 DEF OpToRel
  <2> QED
    BY <1>2, <2>2
<1> QED
  BY <1>3 DEF Min

LEMMA MaxOfNats ==
  ASSUME NEW a \in Nat, NEW b \in Nat
  PROVE  Max({a, b}) \in Nat
  BY MinMaxOfTwo

(* What ListEnabled makes of a row.                                        *)
LEMMA ListedRow ==
  ASSUME RuleTyped, NEW r \in Rules
  PROVE  /\ ListEnabled[r] = IF row[r] # Absent /\ row[r].enabled THEN row[r] ELSE Absent
         /\ ListEnabled \in Lists
<1>1. ListEnabled[r] = IF row[r] # Absent /\ row[r].enabled THEN row[r] ELSE Absent
  BY DEF ListEnabled
<1>2. ListEnabled \in Lists
  BY DEF ListEnabled, RuleTyped, Lists
<1> QED
  BY <1>1, <1>2

LEMMA NoRulesTyped == NoRules \in Lists /\ IdleRequest \in ReqType /\ RunStarts \in ReqType /\ IdleHandler \in HandlerType
<1>1. NoRules \in Lists
  BY DEF NoRules, Lists
<1>2. IdleRequest \in ReqType
  BY <1>1 DEF IdleRequest, ReqType, Points
<1>3. RunStarts \in ReqType
  <2>1. PICK i \in ReqType : i = IdleRequest
    BY <1>2
  <2>2. [i EXCEPT !.pc = "list"] \in ReqType
    BY DEF ReqType, Points
  <2> QED
    BY <2>1, <2>2 DEF RunStarts
<1>4. IdleHandler \in HandlerType
  BY <1>1 DEF IdleHandler, HandlerType
<1> QED
  BY <1>1, <1>2, <1>3, <1>4

(* Marking the other lists changes nothing else.                           *)
LEMMA SoiledIs ==
  ASSUME NEW f \in [Rounds -> ReqType], NEW q
  PROVE  /\ Soiled(q, f) \in [Rounds -> ReqType]
         /\ \A p \in Rounds :
              /\ Soiled(q, f)[p].pc = f[p].pc /\ Soiled(q, f)[p].op = f[p].op
              /\ Soiled(q, f)[p].arg = f[p].arg /\ Soiled(q, f)[p].held = f[p].held
              /\ p # q => ~ (Soiled(q, f)[p].pc = "store" /\ Soiled(q, f)[p].clean)
              /\ p = q => Soiled(q, f)[p] = f[p]
<1> DEFINE g == Soiled(q, f)
<1>1. g = [p \in Rounds |-> IF p # q /\ f[p].pc = "store" THEN [f[p] EXCEPT !.clean = FALSE] ELSE f[p]]
  BY DEF Soiled
<1> HIDE DEF g
<1>2. ASSUME NEW p \in Rounds
      PROVE  /\ g[p] \in ReqType /\ g[p].pc = f[p].pc /\ g[p].op = f[p].op /\ g[p].arg = f[p].arg
             /\ g[p].held = f[p].held /\ (p # q => ~ (g[p].pc = "store" /\ g[p].clean))
             /\ (p = q => g[p] = f[p])
  <2>1. PICK x \in ReqType : x = f[p]
    OBVIOUS
  <2>2. [x EXCEPT !.clean = FALSE] \in ReqType
    BY DEF ReqType, Points
  <2>3. PICK y \in ReqType : y = [x EXCEPT !.clean = FALSE]
    BY <2>2
  <2>4. y.pc = x.pc /\ y.op = x.op /\ y.arg = x.arg /\ y.held = x.held /\ y.clean = FALSE
    BY <2>3 DEF ReqType, Points
  <2>5. g[p] = IF p # q /\ x.pc = "store" THEN y ELSE x
    BY <1>1, <2>1, <2>3
  <2> QED
    BY <2>1, <2>4, <2>5
<1>3. g \in [Rounds -> ReqType]
  BY <1>1, <1>2
<1> QED
  BY <1>2, <1>3 DEF g

(* Requests, cache and rows do not change: what is known of them stays.    *)
LEMMA ListsKept ==
  ASSUME RuleIInv,
         \A r \in Rules : ConfigOf(ListEnabled[r])' = ConfigOf(ListEnabled[r]),
         UNCHANGED <<cache, loaded, outdated, req>>
  PROVE  RequestsSound' /\ ListsRight' /\ CacheFollowsRows'
<1>1. RequestsSound'
  BY DEF RuleIInv, RequestsSound
<1>2. ListsRight'
  BY DEF RuleIInv, ListsRight, Agrees, ConfigOf
<1>3. CacheFollowsRows'
  BY DEF RuleIInv, CacheFollowsRows, Refreshing, ConfigOf
<1> QED
  BY <1>1, <1>2, <1>3

LEMMA MatchedKept ==
  ASSUME RuleIInv, UNCHANGED <<delivered, handler, handled, excused>>
  PROVE  Matched'
  BY DEF RuleIInv, Matched, OneAtATime, Settled, WillTake
-----------------------------------------------------------------------------
(* The steps of the requests.                                              *)

(* A request moves on and holds no list; if it ended a refresh, the list   *)
(* counts as outdated.                                                     *)
LEMMA RequestMoves ==
  ASSUME RuleIInv, NEW q \in Rounds, NEW x \in ReqType, x.pc # "store",
         x.pc \in {"get", "write"} /\ x.op \in {"create", "update"} => x.arg \in Configs,
         req' = [req EXCEPT ![q] = x],
         outdated' = outdated \/ outdated' = TRUE,
         req[q].pc \in {"list", "store"} => outdated' = TRUE,
         UNCHANGED <<row, lastId, published, delivered, cache, loaded, trackers, handler,
                     handled, excused>>
  PROVE  RuleIInv'
<1> USE DEF RuleIInv
<1>1. req' \in [Rounds -> ReqType] /\ req'[q] = x /\ \A p \in Rounds : p # q => req'[p] = req[p]
  BY DEF RuleTyped
<1>2. RuleTyped'
  BY <1>1 DEF RuleTyped
<1>3. RequestsSound'
  BY <1>1 DEF RequestsSound
<1>4. ListEnabled' = ListEnabled
  BY DEF ListEnabled
<1>5. ListsRight'
  BY <1>1, <1>4 DEF ListsRight, Agrees, ConfigOf
<1>6. CacheFollowsRows'
  <2>1. ASSUME loaded', ~ outdated', ~ Refreshing'
        PROVE  loaded /\ ~ outdated /\ ~ Refreshing
    <3>1. DOMAIN req = Rounds /\ DOMAIN req' = Rounds
      BY <1>1 DEF RuleTyped
    <3>2. ~ (req[q].pc \in {"list", "store"})
      BY <2>1
    <3>3. \A p \in Rounds : ~ (req[p].pc \in {"list", "store"})
      BY <1>1, <2>1, <3>1, <3>2 DEF Refreshing
    <3> QED
      BY <2>1, <3>1, <3>3 DEF Refreshing
  <2> QED
    BY <1>4, <2>1 DEF CacheFollowsRows, ConfigOf
<1>7. Matched'
  BY MatchedKept
<1> QED
  BY <1>2, <1>3, <1>5, <1>6, <1>7

LEMMA BeginRuleInv ==
  ASSUME RuleIInv, NEW q \in Rounds, BeginRule(q)
  PROVE  RuleIInv'
<1>1. req[q].pc = "idle"
  BY DEF BeginRule, At
<1>2. ASSUME NEW op \in {"create", "update"}, NEW r \in 1 .. lastId \cup {0}, NEW c \in Configs,
             req' = [req EXCEPT ![q] = [IdleRequest EXCEPT
                       !.op = op, !.rule = r, !.arg = c,
                       !.pc = IF op = "update" THEN "get" ELSE "write"]]
      PROVE  RuleIInv'
  <2>1. PICK i \in ReqType : i = IdleRequest
    BY NoRulesTyped
  <2>2. PICK to \in {"get", "write"} : to = IF op = "update" THEN "get" ELSE "write"
    OBVIOUS
  <2>3. r \in Nat
    BY DEF RuleIInv, RuleTyped
  <2>4. [i EXCEPT !.op = op, !.rule = r, !.arg = c, !.pc = to] \in ReqType
    BY <2>3 DEF ReqType, Points
  <2>5. PICK x \in ReqType : x = [i EXCEPT !.op = op, !.rule = r, !.arg = c, !.pc = to]
    BY <2>4
  <2>6. x.pc = to /\ x.op = op /\ x.arg = c
    BY <2>5 DEF ReqType, Points
  <2>7. req' = [req EXCEPT ![q] = x]
    BY <1>2, <2>1, <2>2, <2>5
  <2>8. UNCHANGED <<row, lastId, published, delivered, cache, loaded, trackers, handler,
                    handled, excused>> /\ outdated' = outdated
    BY DEF BeginRule, traffic, engine
  <2> QED
    BY <1>1, <2>6, <2>7, <2>8, RequestMoves
<1>3. ASSUME NEW op \in {"delete", "enable", "disable"}, NEW r \in 1 .. lastId,
             req' = [req EXCEPT ![q] = [IdleRequest EXCEPT
                       !.op = op, !.rule = r, !.pc = "write"]]
      PROVE  RuleIInv'
  <2>1. PICK i \in ReqType : i = IdleRequest
    BY NoRulesTyped
  <2>3. r \in Nat
    BY DEF RuleIInv, RuleTyped
  <2>4. [i EXCEPT !.op = op, !.rule = r, !.pc = "write"] \in ReqType
    BY <2>3 DEF ReqType, Points
  <2>5. PICK x \in ReqType : x = [i EXCEPT !.op = op, !.rule = r, !.pc = "write"]
    BY <2>4
  <2>6. x.pc = "write" /\ x.op = op
    BY <2>5 DEF ReqType, Points
  <2>7. req' = [req EXCEPT ![q] = x]
    BY <1>3, <2>1, <2>5
  <2>8. UNCHANGED <<row, lastId, published, delivered, cache, loaded, trackers, handler,
                    handled, excused>> /\ outdated' = outdated
    BY DEF BeginRule, traffic, engine
  <2> QED
    BY <1>1, <2>6, <2>7, <2>8, RequestMoves
<1> QED
  BY <1>2, <1>3 DEF BeginRule

(* The row that a request writes, and the pc it goes to.                   *)
LEMMA GoesTo ==
  ASSUME RuleTyped, NEW q \in Rounds,
         NEW pc \in Points
  PROVE  \E x \in ReqType :
           /\ [req EXCEPT ![q].pc = pc] = [req EXCEPT ![q] = x]
           /\ x.pc = pc /\ x.op = req[q].op /\ x.rule = req[q].rule /\ x.arg = req[q].arg
           /\ x.held = req[q].held /\ x.clean = req[q].clean
<1>1. PICK y \in ReqType : y = req[q]
  BY DEF RuleTyped
<1>2. [y EXCEPT !.pc = pc] \in ReqType
  BY DEF ReqType, Points
<1>3. PICK x \in ReqType : x = [y EXCEPT !.pc = pc]
  BY <1>2
<1>4. x.pc = pc /\ x.op = y.op /\ x.rule = y.rule /\ x.arg = y.arg /\ x.held = y.held /\ x.clean = y.clean
  BY <1>3 DEF ReqType, Points
<1>5. [req EXCEPT ![q].pc = pc] = [req EXCEPT ![q] = x]
  BY <1>1, <1>3
<1> QED
  BY <1>1, <1>4, <1>5

LEMMA GetRuleInv ==
  ASSUME RuleIInv, NEW q \in Rounds, GetRule(q)
  PROVE  RuleIInv'
<1>1. PICK pc \in {"idle", "write"} : req' = [req EXCEPT ![q].pc = pc]
  BY DEF GetRule, Goto
<1>2. PICK x \in ReqType : /\ req' = [req EXCEPT ![q] = x]
                           /\ x.pc = pc /\ x.op = req[q].op /\ x.arg = req[q].arg
  <2>1. pc \in Points /\ RuleTyped
    BY DEF RuleIInv, Points
  <2> QED
    BY <1>1, <2>1, GoesTo
<1>3. req[q].pc = "get"
  BY DEF GetRule, At
<1>4. x.pc \in {"get", "write"} /\ x.op \in {"create", "update"} => x.arg \in Configs
  BY <1>2, <1>3 DEF RuleIInv, RequestsSound
<1>5. UNCHANGED <<row, lastId, published, delivered, cache, loaded, trackers, handler,
                  handled, excused>> /\ outdated' = outdated
  BY DEF GetRule, traffic, engine
<1> QED
  BY <1>2, <1>3, <1>4, <1>5, RequestMoves

(* The row that a request writes is a rule or none.                        *)
LEMMA WriteTyped ==
  ASSUME RuleIInv, NEW q \in Rounds, req[q].pc = "write", Write(req[q])
  PROVE  row' \in Lists /\ lastId' \in Nat
<1>1. PICK x \in ReqType : x = req[q]
  BY DEF RuleIInv, RuleTyped
<1>2. PICK n \in Rules : n = RowOf(x)
  BY <1>1 DEF Write
<1>3. PICK old \in RuleRows \cup {Absent} : old = row[n]
  BY DEF RuleIInv, RuleTyped, Lists
<1>4. \A c \in Configs, k \in Nat : RuleOf(c, k) \in RuleRows
  <2> SUFFICES ASSUME NEW c \in Configs, NEW k \in Nat PROVE RuleOf(c, k) \in RuleRows
    OBVIOUS
  <2>1. c \in RuleConfigs
    BY RuleAdminAssumption
  <2> QED
    BY <2>1 DEF RuleConfigs, RuleRows, RuleOf
<1>5. x.op \in {"create", "update"} => x.arg \in Configs
  BY <1>1 DEF RuleIInv, RequestsSound
<1>6. Written(x) \in RuleRows \cup {Absent}
  <2>1. CASE x.op = "delete"
    BY <2>1 DEF Written
  <2>2. CASE x.op = "create"
    BY <1>4, <1>5, <2>2 DEF Written
  <2>3. CASE x.op # "create" /\ old = Absent
    BY <1>2, <1>3, <2>3 DEF Written
  <2>4. CASE x.op = "update" /\ old # Absent
    <3>1. old.cursor \in Nat
      BY <2>4 DEF RuleRows
    <3>2. Written(x) = RuleOf(x.arg, old.cursor)
      BY <1>2, <1>3, <2>4 DEF Written
    <3> QED
      BY <1>4, <1>5, <2>4, <3>1, <3>2
  <2>5. CASE x.op \notin {"delete", "create", "update"} /\ old # Absent
    <3>1. PICK on \in BOOLEAN : on = (x.op = "enable")
      OBVIOUS
    <3>2. Written(x) = [old EXCEPT !.enabled = on]
      BY <1>2, <1>3, <2>5, <3>1 DEF Written
    <3>3. old \in RuleRows
      BY <2>5
    <3>4. [old EXCEPT !.enabled = on] \in RuleRows
      BY <3>3 DEF RuleRows
    <3> QED
      BY <3>2, <3>4
  <2> QED
    BY <2>1, <2>2, <2>3, <2>4, <2>5
<1>7. row' = [row EXCEPT ![n] = Written(x)] /\ lastId' = Max({lastId, n})
  BY <1>1, <1>2 DEF Write
<1>8. row' \in Lists
  <2>1. PICK w \in RuleRows \cup {Absent} : w = Written(x)
    BY <1>6
  <2> QED
    BY <1>7, <2>1 DEF Lists, RuleIInv, RuleTyped
<1>9. n \in Nat
  BY RuleAdminAssumption, FS_CardinalityType
<1> QED
  BY <1>7, <1>8, <1>9, MaxOfNats DEF RuleIInv, RuleTyped

(* A statement took effect: whoever holds a list is marked, and the        *)
(* request refreshes or leaves the cache outdated.                         *)
LEMMA RowWritten ==
  ASSUME RuleIInv, NEW q \in Rounds, NEW x \in ReqType,
         x.pc = "list" \/ (x.pc = "idle" /\ outdated' = TRUE),
         outdated' \in BOOLEAN,
         row' \in Lists, lastId' \in Nat,
         req' = Soiled(q, [req EXCEPT ![q] = x]),
         UNCHANGED <<published, delivered, cache, loaded, trackers, handler, handled, excused>>
  PROVE  RuleIInv'
<1> USE DEF RuleIInv
<1>1. PICK f \in [Rounds -> ReqType] : f = [req EXCEPT ![q] = x]
  BY DEF RuleTyped
<1>2. f[q] = x /\ \A p \in Rounds : p # q => f[p] = req[p]
  BY <1>1 DEF RuleTyped
<1>3. req' = Soiled(q, f)
  BY <1>1
<1>4. /\ req' \in [Rounds -> ReqType] /\ req'[q] = x
      /\ \A p \in Rounds : /\ req'[p].pc = f[p].pc /\ req'[p].op = f[p].op
                           /\ req'[p].arg = f[p].arg
                           /\ p # q => ~ (req'[p].pc = "store" /\ req'[p].clean)
  <2>1. PICK g : g = Soiled(q, f)
    OBVIOUS
  <2>2. /\ g \in [Rounds -> ReqType] /\ g[q] = f[q]
        /\ \A p \in Rounds : /\ g[p].pc = f[p].pc /\ g[p].op = f[p].op /\ g[p].arg = f[p].arg
                             /\ p # q => ~ (g[p].pc = "store" /\ g[p].clean)
    BY <2>1, SoiledIs
  <2> QED
    BY <1>2, <1>3, <2>1, <2>2
<1>5. RuleTyped'
  BY <1>4 DEF RuleTyped
<1>6. RequestsSound'
  <2> SUFFICES ASSUME NEW p \in Rounds, req'[p].pc \in {"get", "write"},
                      req'[p].op \in {"create", "update"}
               PROVE  req'[p].arg \in Configs
    BY DEF RequestsSound
  <2>1. p # q
    BY <1>4
  <2> QED
    BY <1>2, <1>4, <2>1 DEF RequestsSound
<1>7. ListsRight'
  BY <1>4 DEF ListsRight
<1>8. CacheFollowsRows'
  <2>1. DOMAIN req' = Rounds
    BY <1>4
  <2>2. x.pc = "list" => Refreshing'
    BY <1>4, <2>1 DEF Refreshing
  <2> QED
    BY <2>2 DEF CacheFollowsRows
<1>9. Matched'
  BY MatchedKept
<1> QED
  BY <1>5, <1>6, <1>7, <1>8, <1>9

LEMMA WriteRuleInv ==
  ASSUME RuleIInv, NEW q \in Rounds, WriteRule(q)
  PROVE  RuleIInv'
<1>1. req[q].pc = "write" /\ Write(req[q])
  BY DEF WriteRule, At
<1>2. row' \in Lists /\ lastId' \in Nat
  BY <1>1, WriteTyped
<1>3. PICK x \in ReqType : [req EXCEPT ![q].pc = "list"] = [req EXCEPT ![q] = x] /\ x.pc = "list"
  <2>1. "list" \in Points /\ RuleTyped
    BY DEF RuleIInv, Points
  <2> QED
    BY <2>1, GoesTo
<1>4. req' = Soiled(q, [req EXCEPT ![q] = x])
  BY <1>3 DEF WriteRule, AfterWrite
<1>5. UNCHANGED <<published, delivered, cache, loaded, trackers, handler, handled, excused>>
  BY DEF WriteRule, traffic, engine
<1>6. outdated' \in BOOLEAN
  BY DEF WriteRule, RuleIInv, RuleTyped
<1> QED
  BY <1>2, <1>3, <1>4, <1>5, <1>6, RowWritten

(* The record of a request that waits for nothing.                         *)
LEMMA IdleIs == \E x \in ReqType : x = IdleRequest /\ x.pc = "idle"
  BY NoRulesTyped DEF IdleRequest

LEMMA StatementFailsInv ==
  ASSUME RuleIInv, NEW q \in Rounds, StatementFails(q)
  PROVE  RuleIInv'
<1>1. req[q].pc \in {"get", "write"}
  BY DEF StatementFails, At
<1>2. PICK x \in ReqType : x = IdleRequest /\ x.pc = "idle"
  BY IdleIs
<1>3. UNCHANGED <<published, delivered, cache, loaded, trackers, handler, handled, excused>>
  BY DEF StatementFails, traffic, engine
<1>4. CASE req' = [req EXCEPT ![q] = IdleRequest] /\ UNCHANGED <<row, lastId, outdated>>
  <2>1. req' = [req EXCEPT ![q] = x]
    BY <1>2, <1>4
  <2>2. UNCHANGED <<row, lastId, published, delivered, cache, loaded, trackers, handler,
                    handled, excused>> /\ outdated' = outdated
    BY <1>3, <1>4
  <2> QED
    BY <1>1, <1>2, <2>1, <2>2, RequestMoves
<1>5. CASE /\ At(q, "write")
           /\ Write(req[q])
           /\ req' = Soiled(q, [req EXCEPT ![q] = IdleRequest])
           /\ outdated' = TRUE
  <2>1. row' \in Lists /\ lastId' \in Nat
    BY <1>5, WriteTyped DEF At
  <2>2. req' = Soiled(q, [req EXCEPT ![q] = x])
    BY <1>2, <1>5
  <2>3. outdated' = TRUE
    BY <1>5
  <2> QED
    BY <1>2, <1>3, <2>1, <2>2, <2>3, RowWritten
<1> QED
  BY <1>4, <1>5 DEF StatementFails

LEMMA RefreshListsInv ==
  ASSUME RuleIInv, NEW q \in Rounds, RefreshLists(q)
  PROVE  RuleIInv'
<1> USE DEF RuleIInv
<1>1. PICK y \in ReqType, now \in Lists : y = req[q] /\ now = ListEnabled
  BY ListedRow DEF RuleTyped, ListEnabled, Lists
<1>2. PICK x \in ReqType : x = [y EXCEPT !.pc = "store", !.held = now, !.clean = TRUE]
  <2>1. [y EXCEPT !.pc = "store", !.held = now, !.clean = TRUE] \in ReqType
    BY DEF ReqType, Points
  <2> QED
    BY <2>1
<1>3. x.pc = "store" /\ x.held = now /\ x.op = y.op /\ x.arg = y.arg
  BY <1>2 DEF ReqType
<1>4. req' = [req EXCEPT ![q] = x]
  BY <1>1, <1>2 DEF RefreshLists
<1>5. req' \in [Rounds -> ReqType] /\ req'[q] = x /\ \A p \in Rounds : p # q => req'[p] = req[p]
  BY <1>4 DEF RuleTyped
<1>6. UNCHANGED <<row, lastId, published, delivered, cache, loaded, trackers, handler,
                  handled, excused, outdated>>
  BY DEF RefreshLists, traffic, engine
<1>7. RuleTyped'
  BY <1>5, <1>6 DEF RuleTyped
<1>8. RequestsSound'
  BY <1>3, <1>5 DEF RequestsSound
<1>9. ListEnabled' = ListEnabled
  BY <1>6 DEF ListEnabled
<1>10. ListsRight'
  <2> SUFFICES ASSUME NEW p \in Rounds, req'[p].pc = "store", req'[p].clean
               PROVE  Agrees(req[p].held)'
    BY DEF ListsRight
  <2>1. CASE p = q
    BY <1>1, <1>3, <1>5, <1>9, <2>1 DEF Agrees
  <2>2. CASE p # q
    BY <1>5, <1>9, <2>2 DEF ListsRight, Agrees, ConfigOf
  <2> QED
    BY <2>1, <2>2
<1>11. CacheFollowsRows'
  <2>1. Refreshing'
    BY <1>3, <1>5 DEF Refreshing
  <2> QED
    BY <2>1 DEF CacheFollowsRows
<1>12. Matched'
  BY <1>6, MatchedKept
<1> QED
  BY <1>7, <1>8, <1>10, <1>11, <1>12

LEMMA RefreshFailsInv ==
  ASSUME RuleIInv, NEW q \in Rounds, RefreshFails(q)
  PROVE  RuleIInv'
<1>1. UNCHANGED <<row, lastId, published, delivered, cache, loaded, trackers, handler,
                  handled, excused>>
  BY DEF RefreshFails, traffic, engine
<1>2. CASE q = "run"
  <2>1. UNCHANGED <<req, outdated>>
    BY <1>2 DEF RefreshFails
  <2>2. RuleTyped'
    BY <1>1, <2>1 DEF RuleIInv, RuleTyped
  <2>3. \A r \in Rules : ConfigOf(ListEnabled[r])' = ConfigOf(ListEnabled[r])
    BY <1>1 DEF ListEnabled, ConfigOf
  <2>4. RequestsSound' /\ ListsRight' /\ CacheFollowsRows'
    BY <1>1, <2>1, <2>3, ListsKept
  <2>5. Matched'
    BY <1>1, MatchedKept
  <2> QED
    BY <2>2, <2>4, <2>5 DEF RuleIInv
<1>3. CASE q # "run"
  <2>1. PICK x \in ReqType : x = IdleRequest /\ x.pc = "idle"
    BY IdleIs
  <2>2. req' = [req EXCEPT ![q] = x] /\ outdated' = TRUE
    BY <1>3, <2>1 DEF RefreshFails
  <2> QED
    BY <1>1, <2>1, <2>2, RequestMoves
<1> QED
  BY <1>2, <1>3

LEMMA RefreshStoresInv ==
  ASSUME RuleIInv, NEW q \in Rounds, RefreshStores(q)
  PROVE  RuleIInv'
<1> USE DEF RuleIInv
<1>1. PICK y \in ReqType : y = req[q]
  BY DEF RuleTyped
<1>2. y.pc = "store" /\ y.held \in Lists /\ y.clean \in BOOLEAN
  BY <1>1 DEF RefreshStores, At, ReqType
<1>3. PICK x \in ReqType : x = IdleRequest /\ x.pc = "idle"
  BY IdleIs
<1>4. PICK f \in [Rounds -> ReqType] : f = [req EXCEPT ![q] = x]
  BY DEF RuleTyped
<1>5. f[q] = x /\ \A p \in Rounds : p # q => f[p] = req[p]
  BY <1>4 DEF RuleTyped
<1>6. req' = Soiled(q, f)
  BY <1>3, <1>4 DEF RefreshStores
<1>7. /\ req' \in [Rounds -> ReqType] /\ req'[q] = x
      /\ \A p \in Rounds : /\ req'[p].pc = f[p].pc /\ req'[p].op = f[p].op
                           /\ req'[p].arg = f[p].arg
                           /\ p # q => ~ (req'[p].pc = "store" /\ req'[p].clean)
  BY <1>5, <1>6, SoiledIs
<1>8. cache' = y.held /\ outdated' = ~ y.clean /\ loaded' = (loaded \/ q = "run")
  BY <1>1 DEF RefreshStores
<1>9. UNCHANGED <<row, lastId, published, delivered, trackers, handler, handled, excused>>
  BY DEF RefreshStores, traffic
<1>10. RuleTyped'
  <2>1. loaded' \in BOOLEAN /\ outdated' \in BOOLEAN /\ cache' \in Lists
    BY <1>2, <1>8 DEF RuleTyped
  <2> QED
    BY <1>7, <1>9, <2>1 DEF RuleTyped
<1>11. RequestsSound'
  <2> SUFFICES ASSUME NEW p \in Rounds, req'[p].pc \in {"get", "write"},
                      req'[p].op \in {"create", "update"}
               PROVE  req'[p].arg \in Configs
    BY DEF RequestsSound
  <2>1. p # q
    BY <1>3, <1>7
  <2> QED
    BY <1>5, <1>7, <2>1 DEF RequestsSound
<1>12. ListsRight'
  BY <1>3, <1>7 DEF ListsRight
<1>13. CacheFollowsRows'
  <2>1. ListEnabled' = ListEnabled
    BY <1>9 DEF ListEnabled
  <2>2. ASSUME ~ outdated' PROVE Agrees(y.held)
    BY <1>1, <1>2, <1>8, <2>2 DEF ListsRight
  <2> QED
    BY <1>8, <2>1, <2>2 DEF CacheFollowsRows, Agrees, ConfigOf
<1>14. Matched'
  BY <1>9, MatchedKept
<1> QED
  BY <1>10, <1>11, <1>12, <1>13, <1>14
-----------------------------------------------------------------------------
(* The steps of the messages.                                              *)

LEMMA DeliverInv ==
  ASSUME RuleIInv, NEW c \in Chats, Deliver(c)
  PROVE  RuleIInv'
<1> USE DEF RuleIInv
<1>1. PICK n \in Nat : n = delivered[c]
  BY DEF RuleTyped
<1>2. PICK i \in HandlerType : i = IdleHandler
  BY NoRulesTyped
<1>3. handler["live"] = i /\ "live" \in Handlers
  BY <1>2 DEF Deliver, Free, Handlers
<1>4. PICK x \in HandlerType, next \in SUBSET Nat :
             next = {n + 1} /\ x = [i EXCEPT !.chat = c, !.feed = next]
  <2>1. PICK next \in SUBSET Nat : next = {n + 1}
    <3>1. {n + 1} \in SUBSET Nat
      OBVIOUS
    <3> QED
      BY <3>1
  <2>2. [i EXCEPT !.chat = c, !.feed = next] \in HandlerType
    BY DEF HandlerType
  <2> QED
    BY <2>1, <2>2
<1>5. x.chat = c /\ x.feed = {n + 1}
  BY <1>4 DEF HandlerType
<1>6. handler' = [handler EXCEPT !["live"] = x]
  BY <1>1, <1>3, <1>4 DEF Deliver
<1>7. handler' \in [Handlers -> HandlerType] /\ handler'["live"] = x
  BY <1>3, <1>6 DEF RuleTyped
<1>8. delivered' \in [Chats -> Nat] /\ delivered'[c] = n + 1
      /\ \A d \in Chats : d # c => delivered'[d] = delivered[d]
  BY <1>1 DEF Deliver, RuleTyped
<1>9. UNCHANGED <<row, lastId, published, cache, loaded, trackers, req, outdated, handled, excused>>
  BY DEF Deliver, engine
<1>10. RuleTyped'
  BY <1>7, <1>8, <1>9 DEF RuleTyped
<1>11. RequestsSound' /\ ListsRight' /\ CacheFollowsRows'
  <2>1. \A r \in Rules : ConfigOf(ListEnabled[r])' = ConfigOf(ListEnabled[r])
    BY <1>9 DEF ListEnabled, ConfigOf
  <2> QED
    BY <1>9, <2>1, ListsKept
<1>12. OneAtATime'
  BY <1>5, <1>7 DEF OneAtATime
<1>13. Settled'
  <2> SUFFICES ASSUME NEW r \in Rules, NEW d \in Chats, NEW m \in 1 .. delivered'[d],
                      ~ (<<d, m>> \in handled[r] \cup excused[r])
               PROVE  WillTake(x, r, d, m)
    BY <1>7, <1>9 DEF Settled
  <2>1. CASE m \in 1 .. delivered[d]
    <3>1. WillTake(i, r, d, m)
      BY <1>3, <2>1 DEF Matched, Settled
    <3>2. i.feed = {} /\ i.todo[r] = Absent
      BY <1>2 DEF IdleHandler, NoRules
    <3> QED
      BY <3>1, <3>2 DEF WillTake
  <2>2. CASE m \notin 1 .. delivered[d]
    <3>1. d = c /\ m = n + 1
      BY <1>1, <1>8, <2>2
    <3> QED
      BY <1>5, <3>1 DEF WillTake
  <2> QED
    BY <2>1, <2>2
<1> QED
  BY <1>10, <1>11, <1>12, <1>13 DEF Matched

LEMMA BackfillInv ==
  ASSUME RuleIInv, NEW q \in Requests, NEW r \in Rules, Backfill(q, r)
  PROVE  RuleIInv'
<1> USE DEF RuleIInv
<1>1. q # "live" /\ q \in Handlers /\ "live" \in Handlers
  BY RuleAdminAssumption DEF Handlers
<1>2. PICK i \in HandlerType : i = handler[q]
  BY <1>1 DEF RuleTyped
<1>3. PICK c \in Chats : c = cache[r].source
  BY DEF Backfill, RuleTyped, Lists, RuleRows
<1>4. PICK missing \in SUBSET Nat : missing = {m \in 1 .. published[c] : m > Current(r, cache[r])}
  <2>1. PICK k \in Nat : k = published[c]
    BY DEF RuleTyped
  <2>2. {m \in 1 .. k : m > Current(r, cache[r])} \in SUBSET Nat
    OBVIOUS
  <2> QED
    BY <2>1, <2>2
<1>5. PICK x \in HandlerType : x = [i EXCEPT !.chat = c, !.feed = missing]
  <2>1. [i EXCEPT !.chat = c, !.feed = missing] \in HandlerType
    BY DEF HandlerType
  <2> QED
    BY <2>1
<1>6. handler' = [handler EXCEPT ![q] = x]
  BY <1>2, <1>3, <1>4, <1>5 DEF Backfill
<1>7. handler' \in [Handlers -> HandlerType] /\ handler'["live"] = handler["live"]
  BY <1>1, <1>6 DEF RuleTyped
<1>8. UNCHANGED <<row, lastId, published, delivered, cache, loaded, trackers, req, outdated,
                  handled, excused>>
  BY DEF Backfill, engine, traffic
<1>9. RuleTyped'
  BY <1>7, <1>8 DEF RuleTyped
<1>10. RequestsSound' /\ ListsRight' /\ CacheFollowsRows'
  <2>1. \A s \in Rules : ConfigOf(ListEnabled[s])' = ConfigOf(ListEnabled[s])
    BY <1>8 DEF ListEnabled, ConfigOf
  <2> QED
    BY <1>8, <2>1, ListsKept
<1>11. Matched'
  BY <1>7, <1>8 DEF Matched, OneAtATime, Settled, WillTake
<1> QED
  BY <1>9, <1>10, <1>11

(* A rule that wants a message and does not see it has an excuse.          *)
LEMMA UnseenIsExcused ==
  ASSUME RuleIInv, NEW r \in Rules, NEW c \in Chats, ~ Sees(r, c)
  PROVE  Excuse(r, c)
<1> SUFFICES ASSUME Wants(r, c), loaded, ~ outdated, ~ Refreshing PROVE FALSE
  BY DEF Excuse
<1>1. PICK v \in RuleRows : v = row[r] /\ v.enabled /\ v.source = c
  BY DEF Wants, RuleIInv, RuleTyped, Lists
<1>2. v # Absent
  BY RuleAdminAssumption
<1>3. ListEnabled[r] = v
  BY <1>1, <1>2 DEF ListEnabled
<1>4. ConfigOf(cache[r]) = ConfigOf(v)
  BY <1>3 DEF RuleIInv, CacheFollowsRows
<1>5. ConfigOf(v) = [source |-> c, name |-> v.name, enabled |-> v.enabled]
  BY <1>1, <1>2 DEF ConfigOf
<1>6. ConfigOf(v) \in RuleConfigs
  BY <1>1, <1>5 DEF RuleRows, RuleConfigs
<1>7. cache[r] # Absent
  BY <1>4, <1>6, RuleAdminAssumption DEF ConfigOf
<1>8. cache[r].source = c
  BY <1>4, <1>5, <1>7 DEF ConfigOf
<1> QED
  BY <1>7, <1>8 DEF Sees

(* A handler that has nothing left is idle again.                          *)
LEMMA DoneIs ==
  ASSUME NEW s \in HandlerType
  PROVE  /\ Done(s) \in HandlerType
         /\ Done(s) = s \/ (Done(s) = IdleHandler /\ s.feed = {} /\ s.todo = NoRules)
  BY NoRulesTyped DEF Done

LEMMA SnapshotInv ==
  ASSUME RuleIInv, NEW h \in Handlers, Snapshot(h)
  PROVE  RuleIInv'
<1> USE DEF RuleIInv
<1>1. PICK s \in HandlerType : s = handler[h]
  BY DEF RuleTyped
<1>2. s.feed \in SUBSET Nat /\ s.feed # {} /\ s.todo = NoRules
  BY <1>1 DEF Snapshot, HandlerType
<1>3. PICK m \in Nat : m = Min(s.feed) /\ m \in s.feed
  BY <1>2, LeastOf
<1>4. PICK t \in HandlerType : t = [s EXCEPT !.feed = s.feed \ {m}, !.msg = m, !.todo = cache]
  <2>1. [s EXCEPT !.feed = s.feed \ {m}, !.msg = m, !.todo = cache] \in HandlerType
    BY DEF HandlerType, RuleTyped
  <2> QED
    BY <2>1
<1>5. t.chat = s.chat /\ t.feed = s.feed \ {m} /\ t.msg = m /\ t.todo = cache
  BY <1>4 DEF HandlerType
<1>6. PICK x \in HandlerType : x = Done(t) /\ (x = t \/ (x = IdleHandler /\ t.feed = {} /\ t.todo = NoRules))
  BY DoneIs
<1>7. handler' = [handler EXCEPT ![h] = x]
  BY <1>1, <1>3, <1>4, <1>6 DEF Snapshot
<1>8. handler' \in [Handlers -> HandlerType] /\ handler'[h] = x
      /\ \A k \in Handlers : k # h => handler'[k] = handler[k]
  BY <1>7 DEF RuleTyped
<1>9. UNCHANGED <<row, lastId, published, delivered, cache, loaded, trackers, req, outdated, handled>>
  BY DEF Snapshot, engine, traffic
<1>10. /\ excused' = [r \in Rules |-> excused'[r]]
       /\ \A r \in Rules : excused[r] \subseteq excused'[r]
       /\ h = "live" => \A r \in Rules : ~ Sees(r, s.chat) /\ Excuse(r, s.chat) => <<s.chat, m>> \in excused'[r]
  <2>1. CASE h # "live"
    BY <2>1 DEF Snapshot, RuleTyped
  <2>2. CASE h = "live"
    <3>1. excused' = [r \in Rules |-> IF ~Sees(r, s.chat) /\ Excuse(r, s.chat)
                                      THEN excused[r] \cup {<<s.chat, m>>} ELSE excused[r]]
      BY <1>1, <1>3, <2>2 DEF Snapshot
    <3> QED
      BY <3>1
  <2> QED
    BY <2>1, <2>2
<1>11. RuleTyped'
  BY <1>8, <1>9, <1>10 DEF RuleTyped
<1>12. RequestsSound' /\ ListsRight' /\ CacheFollowsRows'
  <2>1. \A r \in Rules : ConfigOf(ListEnabled[r])' = ConfigOf(ListEnabled[r])
    BY <1>9 DEF ListEnabled, ConfigOf
  <2> QED
    BY <1>9, <2>1, ListsKept
<1>13. CASE h # "live"
  <2>1. handler'["live"] = handler["live"]
    BY <1>8, <1>13 DEF Handlers
  <2>2. Matched'
    BY <1>9, <1>10, <2>1 DEF Matched, OneAtATime, Settled, WillTake
  <2> QED
    BY <1>11, <1>12, <2>2
<1>14. CASE h = "live"
  <2>1. s.feed = {m} /\ t.feed = {}
    BY <1>1, <1>3, <1>5, <1>14 DEF Matched, OneAtATime
  <2>2. x.feed = {}
    BY <1>6, <2>1 DEF IdleHandler
  <2>3. OneAtATime'
    BY <1>8, <1>14, <2>2 DEF OneAtATime
  <2>4. Settled'
    <3> SUFFICES ASSUME NEW r \in Rules, NEW c \in Chats, NEW k \in 1 .. delivered[c],
                        ~ (<<c, k>> \in handled[r] \cup excused'[r])
                 PROVE  WillTake(x, r, c, k)
      BY <1>8, <1>9, <1>14 DEF Settled
    <3>1. WillTake(s, r, c, k)
      BY <1>1, <1>10, <1>14 DEF Matched, Settled
    <3>2. s.todo[r] = Absent
      BY <1>2 DEF NoRules
    <3>3. s.chat = c /\ k = m
      BY <2>1, <3>1, <3>2 DEF WillTake
    <3>4. Sees(r, c)
      BY <1>10, <1>14, <3>3, UnseenIsExcused
    <3>5. t.todo[r] # Absent /\ t.todo[r].source = c
      BY <1>5, <3>4 DEF Sees
    <3>6. x = t
      BY <1>6, <3>5 DEF NoRules
    <3> QED
      BY <1>5, <3>3, <3>5, <3>6 DEF WillTake
  <2> QED
    BY <1>11, <1>12, <2>3, <2>4 DEF Matched
<1> QED
  BY <1>13, <1>14

(* The next rule of a snapshot, and its version there.                     *)
LEMMA NextIs ==
  ASSUME RuleIInv, NEW h \in Handlers, Busy(h)
  PROVE  /\ Next1(h) \in Rules /\ Version(h) \in RuleRows
         /\ Version(h) = handler[h].todo[Next1(h)]
<1>1. PICK todo \in Lists : todo = handler[h].todo /\ todo # NoRules
  BY DEF Busy, RuleIInv, RuleTyped, HandlerType
<1>2. Present(todo) \in SUBSET Nat
  BY RuleAdminAssumption, FS_CardinalityType DEF Present
<1>3. Present(todo) # {}
  <2>1. ASSUME \A r \in Rules : todo[r] = Absent PROVE todo = NoRules
    BY <2>1 DEF NoRules, Lists
  <2> QED
    BY <1>1, <2>1 DEF Present
<1>4. Min(Present(todo)) \in Present(todo)
  BY <1>2, <1>3, LeastOf
<1>5. Next1(h) \in Present(todo) /\ Version(h) = todo[Next1(h)]
  BY <1>1, <1>4 DEF Next1, Version
<1> QED
  BY <1>1, <1>5 DEF Present, Lists

(* A rule is tried: if the message is of its source it takes it.           *)
LEMMA TryInv ==
  ASSUME RuleIInv, NEW h \in Handlers, Busy(h), NEW hit \in BOOLEAN, Try(h, hit),
         Version(h).source = handler[h].chat => hit
  PROVE  RuleIInv'
<1> USE DEF RuleIInv
<1>1. PICK s \in HandlerType : s = handler[h]
  BY DEF RuleTyped
<1>2. PICK r \in Rules : r = Next1(h)
  BY NextIs
<1>3. PICK v \in RuleRows : v = Version(h) /\ v = s.todo[r]
  BY <1>1, <1>2, NextIs
<1>4. s.todo \in Lists /\ s.msg \in Nat
  BY DEF HandlerType
<1>5. PICK rest \in Lists : rest = [s.todo EXCEPT ![r] = Absent]
  BY <1>4 DEF Lists
<1>6. PICK t \in HandlerType : t = [s EXCEPT !.todo = rest]
  <2>1. [s EXCEPT !.todo = rest] \in HandlerType
    BY DEF HandlerType
  <2> QED
    BY <2>1
<1>7. t.chat = s.chat /\ t.feed = s.feed /\ t.msg = s.msg /\ t.todo = rest
  BY <1>6 DEF HandlerType
<1>8. t = [s EXCEPT !.todo[r] = Absent]
  BY <1>5, <1>6 DEF HandlerType
<1>9. PICK x \in HandlerType : x = Done(t) /\ (x = t \/ (x = IdleHandler /\ t.feed = {} /\ t.todo = NoRules))
  BY DoneIs
<1>10. handler' = [handler EXCEPT ![h] = x]
  BY <1>1, <1>2, <1>8, <1>9 DEF Try
<1>11. handler' \in [Handlers -> HandlerType] /\ handler'[h] = x
       /\ \A k \in Handlers : k # h => handler'[k] = handler[k]
  BY <1>10 DEF RuleTyped
<1>12. UNCHANGED <<lastId, published, delivered, cache, loaded, req, excused, outdated>>
  BY DEF Try, traffic
<1>13. PICK cursor \in Nat : cursor = Max({Current(r, v), s.msg})
  <2>1. Current(r, v) \in Nat
    BY DEF Current, RuleTyped, RuleRows
  <2>2. PICK k \in Nat : k = Current(r, v)
    BY <2>1
  <2>3. Max({k, s.msg}) \in Nat
    BY <1>4, MaxOfNats
  <2> QED
    BY <2>2, <2>3
<1>14. /\ trackers' \in [Rules -> Nat \cup {Absent}] /\ handled' = [p \in Rules |-> handled'[p]]
       /\ \A p \in Rules : handled[p] \subseteq handled'[p]
       /\ v.source = s.chat => <<s.chat, s.msg>> \in handled'[r]
       /\ row' \in Lists
       /\ \A p \in Rules : ConfigOf(ListEnabled[p])' = ConfigOf(ListEnabled[p])
  <2>1. CASE ~ hit
    <3>1. UNCHANGED <<trackers, row, handled>>
      BY <2>1 DEF Try
    <3>2. \A p \in Rules : ConfigOf(ListEnabled[p])' = ConfigOf(ListEnabled[p])
      BY <3>1 DEF ListEnabled, ConfigOf
    <3>3. v.source # s.chat
      BY <1>1, <1>3, <2>1
    <3> QED
      BY <3>1, <3>2, <3>3 DEF RuleTyped
  <2>2. CASE hit
    <3>1. /\ trackers' = [trackers EXCEPT ![r] = cursor]
          /\ handled' = [handled EXCEPT ![r] = handled[r] \cup {<<s.chat, s.msg>>}]
          /\ row' = row \/ (row[r] # Absent /\ row' = [row EXCEPT ![r].cursor = Max({row[r].cursor, cursor})])
      BY <1>1, <1>2, <1>3, <1>13, <2>2 DEF Try
    <3>2. trackers' \in [Rules -> Nat \cup {Absent}] /\ handled' = [p \in Rules |-> handled'[p]]
          /\ \A p \in Rules : handled[p] \subseteq handled'[p]
          /\ <<s.chat, s.msg>> \in handled'[r]
      BY <3>1 DEF RuleTyped
    <3>3. /\ row' \in Lists
          /\ \A p \in Rules : ConfigOf(ListEnabled[p])' = ConfigOf(ListEnabled[p])
      <4>1. CASE row' = row
        BY <4>1 DEF ListEnabled, ConfigOf, RuleTyped
      <4>2. CASE row[r] # Absent /\ row' = [row EXCEPT ![r].cursor = Max({row[r].cursor, cursor})]
        <5>1. PICK old \in RuleRows : old = row[r]
          BY <4>2 DEF RuleTyped, Lists
        <5>2. PICK to \in Nat : to = Max({old.cursor, cursor})
          <6>1. old.cursor \in Nat
            BY DEF RuleRows
          <6>2. Max({old.cursor, cursor}) \in Nat
            BY <6>1, MaxOfNats
          <6> QED
            BY <6>2
        <5>3. PICK new \in RuleRows : new = [old EXCEPT !.cursor = to]
          <6>1. [old EXCEPT !.cursor = to] \in RuleRows
            BY DEF RuleRows
          <6> QED
            BY <6>1
        <5>4. new.source = old.source /\ new.name = old.name /\ new.enabled = old.enabled
          BY <5>3 DEF RuleRows
        <5>5. row' = [row EXCEPT ![r] = new]
          BY <4>2, <5>1, <5>2, <5>3
        <5>6. new # Absent /\ old # Absent
          BY RuleAdminAssumption
        <5>7. row' \in Lists /\ row'[r] = new /\ \A p \in Rules : p # r => row'[p] = row[p]
          BY <5>5 DEF RuleTyped, Lists
        <5>8. ASSUME NEW p \in Rules PROVE ConfigOf(ListEnabled[p])' = ConfigOf(ListEnabled[p])
          <6>1. CASE p # r
            BY <5>7, <6>1 DEF ListEnabled, ConfigOf
          <6>2. CASE p = r
            <7>1. ConfigOf(new) = ConfigOf(old)
              BY <5>4, <5>6 DEF ConfigOf
            <7>2. /\ ListEnabled[r] = IF old.enabled THEN old ELSE Absent
                  /\ ListEnabled'[r] = IF new.enabled THEN new ELSE Absent
              BY <5>1, <5>6, <5>7 DEF ListEnabled
            <7> QED
              BY <5>4, <6>2, <7>1, <7>2
          <6> QED
            BY <6>1, <6>2
        <5> QED
          BY <5>7, <5>8
      <4> QED
        BY <3>1, <4>1, <4>2
    <3> QED
      BY <3>2, <3>3
  <2> QED
    BY <2>1, <2>2
<1>15. RuleTyped'
  BY <1>11, <1>12, <1>14 DEF RuleTyped
<1>16. RequestsSound' /\ ListsRight' /\ CacheFollowsRows'
  BY <1>12, <1>14, ListsKept
<1>17. CASE h # "live"
  <2>1. handler'["live"] = handler["live"]
    BY <1>11, <1>17 DEF Handlers
  <2>2. Matched'
    BY <1>12, <1>14, <2>1 DEF Matched, OneAtATime, Settled
  <2> QED
    BY <1>15, <1>16, <2>2
<1>18. CASE h = "live"
  <2>1. OneAtATime'
    <3>1. x.feed \subseteq s.feed
      BY <1>7, <1>9 DEF IdleHandler
    <3> QED
      BY <1>1, <1>11, <1>18, <3>1 DEF Matched, OneAtATime
  <2>2. Settled'
    <3> SUFFICES ASSUME NEW p \in Rules, NEW c \in Chats, NEW k \in 1 .. delivered[c],
                        ~ (<<c, k>> \in handled'[p] \cup excused[p])
                 PROVE  WillTake(x, p, c, k)
      BY <1>11, <1>12, <1>18 DEF Settled
    <3>1. WillTake(s, p, c, k)
      BY <1>1, <1>14, <1>18 DEF Matched, Settled
    <3>2. CASE k \in s.feed
      <4>1. x = t
        BY <1>7, <1>9, <3>2
      <4> QED
        BY <1>7, <3>1, <3>2, <4>1 DEF WillTake
    <3>3. CASE k \notin s.feed
      <4>1. s.chat = c /\ k = s.msg /\ s.todo[p] # Absent /\ s.todo[p].source = c
        BY <3>1, <3>3 DEF WillTake
      <4>2. p # r
        BY <1>3, <1>14, <4>1
      <4>3. rest[p] = s.todo[p]
        BY <1>4, <1>5, <4>2 DEF Lists
      <4>4. x = t
        BY <1>7, <1>9, <4>1, <4>3 DEF NoRules
      <4> QED
        BY <1>7, <4>1, <4>3, <4>4 DEF WillTake
    <3> QED
      BY <3>2, <3>3
  <2> QED
    BY <1>15, <1>16, <2>1, <2>2 DEF Matched
<1> QED
  BY <1>17, <1>18

LEMMA MatchInv ==
  ASSUME RuleIInv, NEW h \in Handlers,
         MatchSource(h) \/ MatchKnownName(h) \/ MatchName(h) \/ LookupFails(h)
  PROVE  RuleIInv'
<1>1. CASE MatchSource(h)
  BY <1>1, TryInv DEF MatchSource
<1>2. CASE MatchKnownName(h)
  <2>1. PICK hit \in BOOLEAN : Try(h, hit)
    BY <1>2 DEF MatchKnownName, NamesRule
  <2> QED
    BY <1>2, <2>1, TryInv DEF MatchKnownName
<1>3. ASSUME NEW n, LookupUsername(h, n) PROVE RuleIInv'
  <2>1. PICK hit \in BOOLEAN : Try(h, hit)
    BY <1>3 DEF LookupUsername, NamesRule
  <2> QED
    BY <1>3, <2>1, TryInv DEF LookupUsername
<1> QED
  BY <1>1, <1>2, <1>3 DEF MatchName, LookupFails

LEMMA RestartInv ==
  ASSUME RuleIInv, Restart
  PROVE  RuleIInv'
<1> USE DEF RuleIInv
<1>1. PICK i \in HandlerType : i = IdleHandler
  BY NoRulesTyped
<1>2. handler' = [h \in Handlers |-> i] /\ "live" \in Handlers
  BY <1>1 DEF Restart, Handlers
<1>3. DOMAIN req = Rounds
  BY DEF RuleTyped
<1>4. PICK x \in ReqType, y \in ReqType : x = IdleRequest /\ y = RunStarts
  BY NoRulesTyped
<1>5. x.pc = "idle" /\ y.pc = "list" /\ x.op = "none" /\ y.op = "none"
  <2>1. y = [x EXCEPT !.pc = "list"] /\ x.op = "none"
    BY <1>4 DEF RunStarts, IdleRequest
  <2>2. [x EXCEPT !.pc = "list"].pc = "list" /\ [x EXCEPT !.pc = "list"].op = x.op
    BY DEF ReqType
  <2> QED
    BY <1>4, <2>1, <2>2 DEF IdleRequest
<1>6. req' = [q \in Rounds |-> IF q = "run" THEN y ELSE x]
  BY <1>3, <1>4 DEF Restart
<1>7. req' \in [Rounds -> ReqType] /\ \A q \in Rounds : req'[q].pc \in {"idle", "list"}
  BY <1>5, <1>6
<1>8. UNCHANGED <<row, lastId, published, delivered, handled>>
      /\ cache' = NoRules /\ loaded' = FALSE /\ outdated' = FALSE /\ trackers' = NoRules
  BY DEF Restart, traffic
<1>9. NoRules \in Lists /\ NoRules \in [Rules -> Nat \cup {Absent}]
  BY NoRulesTyped DEF NoRules
<1>10. /\ excused' = [r \in Rules |-> excused'[r]]
       /\ \A r \in Rules : excused[r] \subseteq excused'[r]
       /\ \A r \in Rules : \A m \in handler["live"].feed \cup {handler["live"].msg} :
            <<handler["live"].chat, m>> \in excused'[r]
  <2>1. excused' = [r \in Rules |-> excused[r] \cup
          UNION {{handler[h].chat} \X (handler[h].feed \cup {handler[h].msg}) : h \in Handlers}]
    BY DEF Restart
  <2>2. \A r \in Rules : \A m \in handler["live"].feed \cup {handler["live"].msg} :
          <<handler["live"].chat, m>> \in
            UNION {{handler[h].chat} \X (handler[h].feed \cup {handler[h].msg}) : h \in Handlers}
    BY <1>2
  <2> QED
    BY <2>1, <2>2
<1>11. RuleTyped'
  <2>1. handler' \in [Handlers -> HandlerType]
    BY <1>2
  <2>2. cache' \in Lists /\ trackers' \in [Rules -> Nat \cup {Absent}]
        /\ loaded' \in BOOLEAN /\ outdated' \in BOOLEAN
    BY <1>8, <1>9
  <2> QED
    BY <1>7, <1>8, <1>10, <2>1, <2>2 DEF RuleTyped
<1>12. RequestsSound' /\ ListsRight' /\ CacheFollowsRows'
  BY <1>7, <1>8 DEF RequestsSound, ListsRight, CacheFollowsRows
<1>13. OneAtATime'
  BY <1>1, <1>2 DEF OneAtATime, IdleHandler
<1>14. Settled'
  <2> SUFFICES ASSUME NEW r \in Rules, NEW c \in Chats, NEW m \in 1 .. delivered[c],
                      ~ (<<c, m>> \in handled[r] \cup excused'[r])
               PROVE  FALSE
    BY <1>8 DEF Settled
  <2>1. WillTake(handler["live"], r, c, m)
    BY <1>10 DEF Matched, Settled
  <2> QED
    BY <1>10, <2>1 DEF WillTake
<1> QED
  BY <1>11, <1>12, <1>13, <1>14 DEF Matched
-----------------------------------------------------------------------------
LEMMA RuleInitInv == Init => RuleIInv
<1> SUFFICES ASSUME Init PROVE RuleIInv
  OBVIOUS
<1>1. row \in Lists /\ lastId \in Nat
  <2>1. PICK c \in Configs \cup {Absent} :
          /\ row = [r \in Rules |-> IF r = 1 /\ c # Absent THEN RuleOf(c, 0) ELSE Absent]
          /\ lastId = IF c = Absent THEN 0 ELSE 1
    BY DEF Init
  <2>2. c # Absent => RuleOf(c, 0) \in RuleRows
    <3>1. ASSUME c # Absent PROVE c \in RuleConfigs
      BY <3>1, RuleAdminAssumption
    <3> QED
      BY <3>1 DEF RuleConfigs, RuleRows, RuleOf
  <2>3. PICK w \in RuleRows \cup {Absent} : c # Absent => w = RuleOf(c, 0)
    BY <2>2
  <2> QED
    BY <2>1, <2>3 DEF Lists
<1>2. PICK x \in ReqType, y \in ReqType : x = IdleRequest /\ y = RunStarts
  BY NoRulesTyped
<1>3. x.pc = "idle" /\ y.pc = "list" /\ x.op = "none" /\ y.op = "none"
  <2>1. y = [x EXCEPT !.pc = "list"] /\ x.op = "none"
    BY <1>2 DEF RunStarts, IdleRequest
  <2>2. [x EXCEPT !.pc = "list"].pc = "list" /\ [x EXCEPT !.pc = "list"].op = x.op
    BY DEF ReqType
  <2> QED
    BY <1>2, <2>1, <2>2 DEF IdleRequest
<1>4. req = [q \in Rounds |-> IF q = "run" THEN y ELSE x]
  BY <1>2 DEF Init, Rounds
<1>5. req \in [Rounds -> ReqType] /\ \A q \in Rounds : req[q].pc \in {"idle", "list"}
  BY <1>3, <1>4
<1>6. PICK i \in HandlerType : i = IdleHandler
  BY NoRulesTyped
<1>7. handler = [h \in Handlers |-> i] /\ "live" \in Handlers
  BY <1>6 DEF Init, Handlers
<1>8. RuleTyped
  <2>1. cache \in Lists /\ trackers \in [Rules -> Nat \cup {Absent}]
    BY NoRulesTyped DEF Init, NoRules
  <2>2. handler \in [Handlers -> HandlerType]
    BY <1>7
  <2>3. published \in [Chats -> Nat] /\ delivered \in [Chats -> Nat]
    BY DEF Init
  <2>4. handled = [r \in Rules |-> handled[r]] /\ excused = [r \in Rules |-> excused[r]]
    BY DEF Init
  <2>5. loaded \in BOOLEAN /\ outdated \in BOOLEAN
    BY DEF Init
  <2> QED
    BY <1>1, <1>5, <2>1, <2>2, <2>3, <2>4, <2>5 DEF RuleTyped
<1>9. RequestsSound /\ ListsRight /\ CacheFollowsRows
  BY <1>5 DEF RequestsSound, ListsRight, CacheFollowsRows, Init
<1>10. OneAtATime
  BY <1>6, <1>7 DEF OneAtATime, IdleHandler
<1>11. Settled
  BY DEF Settled, Init
<1> QED
  BY <1>8, <1>9, <1>10, <1>11 DEF RuleIInv, Matched

(* Steps that touch only the channels and what is posted.                  *)
LEMMA ChannelsInv ==
  ASSUME RuleIInv,
         (\E c \in Chats, n \in Names \cup {NoName} : UpsertChannel(c, n))
           \/ (\E c \in Chats : DeleteChannel(c) \/ Publish(c))
  PROVE  RuleIInv'
<1>1. UNCHANGED <<row, lastId, delivered, cache, loaded, trackers, req, outdated, handler,
                  handled, excused>>
  BY DEF UpsertChannel, DeleteChannel, Publish, traffic, engine
<1>2. published' \in [Chats -> Nat]
  BY DEF UpsertChannel, DeleteChannel, Publish, traffic, RuleIInv, RuleTyped
<1>3. RuleTyped'
  BY <1>1, <1>2 DEF RuleIInv, RuleTyped
<1>4. \A r \in Rules : ConfigOf(ListEnabled[r])' = ConfigOf(ListEnabled[r])
  BY <1>1 DEF ListEnabled, ConfigOf
<1> QED
  BY <1>1, <1>3, <1>4, ListsKept, MatchedKept DEF RuleIInv

LEMMA RuleStepInv == RuleIInv /\ [Next]_vars => RuleIInv'
<1> SUFFICES ASSUME RuleIInv, [Next]_vars PROVE RuleIInv'
  OBVIOUS
<1>1. DOMAIN req = Rounds
  BY DEF RuleIInv, RuleTyped
<1>2. ASSUME NEW q \in Rounds,
             \/ BeginRule(q) \/ GetRule(q) \/ WriteRule(q) \/ StatementFails(q)
             \/ RefreshLists(q) \/ RefreshFails(q) \/ RefreshStores(q)
      PROVE  RuleIInv'
  BY <1>2, BeginRuleInv, GetRuleInv, WriteRuleInv, StatementFailsInv, RefreshListsInv,
     RefreshFailsInv, RefreshStoresInv
<1>3. ASSUME NEW q \in Requests, NEW r \in Rules, Backfill(q, r) PROVE RuleIInv'
  BY <1>3, BackfillInv
<1>4. ASSUME NEW c \in Chats, Deliver(c) PROVE RuleIInv'
  BY <1>4, DeliverInv
<1>5. ASSUME NEW h \in Handlers,
             \/ Snapshot(h) \/ MatchSource(h) \/ MatchKnownName(h)
             \/ MatchName(h) \/ LookupFails(h)
      PROVE  RuleIInv'
  BY <1>5, SnapshotInv, MatchInv
<1>6. CASE Restart
  BY <1>6, RestartInv
<1>7. CASE UNCHANGED vars
  <2>1. UNCHANGED <<row, lastId, published, delivered, cache, loaded, trackers, req, outdated,
                    handler, handled, excused>>
    BY <1>7 DEF vars, traffic, engine
  <2>2. RuleTyped'
    BY <2>1 DEF RuleIInv, RuleTyped
  <2>3. \A r \in Rules : ConfigOf(ListEnabled[r])' = ConfigOf(ListEnabled[r])
    BY <2>1 DEF ListEnabled, ConfigOf
  <2> QED
    BY <2>1, <2>2, <2>3, ListsKept, MatchedKept DEF RuleIInv
<1> QED
  BY <1>1, <1>2, <1>3, <1>4, <1>5, <1>6, <1>7, ChannelsInv DEF Next

(* The inductive invariant of the rules while they are administered        *)
(* (webapi/forwarding.go; RefreshRules, processGroup and matchRule).       *)
THEOREM RuleInvariance == Spec => []RuleIInv
<1> QED
  BY RuleInitInv, RuleStepInv, PTL DEF Spec

(* While no refresh is going on, none failed and none crossed another, the *)
(* engine works with exactly the enabled rules of the database: every      *)
(* handler refreshes after it wrote, and a statement that takes effect     *)
(* behind an error is noticed.                                             *)
THEOREM CacheIsTrue == Spec => []CacheFollowsRows
<1>1. RuleIInv => CacheFollowsRows
  BY DEF RuleIInv
<1> QED
  BY <1>1, RuleInvariance, PTL

(* Every message the updates stream is past was taken by the rule, is in   *)
(* the live handler's hand, or was missed for one of the known causes:     *)
(* processGroup's snapshot of the rules holds every rule that wants the    *)
(* message, as CacheFollowsRows says, and tries each of them.              *)
THEOREM MissedForACause == Spec => []SkippedHasCause
<1>1. RuleIInv => SkippedHasCause
  BY DEF RuleIInv, Matched, Settled, WillTake, SkippedHasCause, InHand
<1> QED
  BY <1>1, RuleInvariance, PTL
=============================================================================
