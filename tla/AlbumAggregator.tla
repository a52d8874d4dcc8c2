--------------------------- MODULE AlbumAggregator ---------------------------
(***************************************************************************)
(* The album aggregator (internal/forwarding/album.go) and the two ways    *)
(* the engine drives it: the album loop (FlushDue), the backfill drain     *)
(* (FlushAll); and ApplySettings, which replaces it.                       *)
(*                                                                         *)
(* Time is kept as what is left of each timer, so it only counts down: a   *)
(* timer at 0 has fired and its channel can be read.  The model's unit of  *)
(* time is free; every call happens at any moment.                         *)
(***************************************************************************)
EXTENDS Integers, Sequences, FiniteSetsExt

CONSTANTS
  Messages,     \* album members that can arrive
  GroupedID,    \* GroupedID[m]: the album a message belongs to
  Windows,      \* the AlbumConfig values settings.forwarding takes
  DefaultConfig, \* DefaultAlbumConfig()
  MaxTime,      \* bound: how far the silence of an album is measured
  MaxAdds,      \* bound: how often one message is handed to Add
  MaxReconfigs  \* bound: how many settings changes happen

Albums == {GroupedID[m] : m \in Messages}

\* The code's constants 450, 2000 and 10 appear as small numbers.
ConfigType == [quiet : Int, hard : Int, size : Int]
Valid(c) == c.quiet > 0 /\ c.hard >= c.quiet /\ c.size > 0

ASSUME AlbumAssumption ==
  /\ GroupedID \in [Messages -> Nat \ {0}]
  /\ Windows \subseteq ConfigType
  /\ DefaultConfig \in ConfigType /\ Valid(DefaultConfig)
  /\ MaxTime \in Nat /\ \A c \in Windows \cup {DefaultConfig} : c.hard <= MaxTime
  /\ MaxAdds \in Nat /\ MaxReconfigs \in Nat

VARIABLES
  albumCfg,  \* Engine.albumCfg
  cfg,       \* AlbumAggregator.cfg: albumCfg, or the default when invalid
  groups,    \* AlbumAggregator.groups: albums being collected
  added,     \* history: how often each message was handed to Add
  out,       \* history: how often each message left in a flushed group
  dropped,   \* history: how often each message went with a replaced aggregator
  idle,      \* history: time since the last Add of a collected album
  reconfigs  \* settings changes so far

albumVars == <<albumCfg, cfg, groups, added, out, dropped, idle, reconfigs>>

\* NewAlbumAggregator: an invalid window falls back to the default.
NewAlbumAggregator(c) == IF Valid(c) THEN c ELSE DefaultConfig

Collected == DOMAIN groups

\* How often a message occurs in a list, and in the albums S.
Times(s, m) == Cardinality({i \in DOMAIN s : s[i] = m})
Occurrences(S, m) ==
  IF GroupedID[m] \in S THEN Times(groups[GroupedID[m]].msgs, m) ELSE 0

\* Mutant: the group is handed out and stays in the map.
FlushKeeps(S) ==
  /\ UNCHANGED <<groups, idle>>
  /\ out' = [m \in Messages |-> out[m] + Occurrences(S, m)]

\* flushLocked for every album of S: popped from the map and handed out.
Flush(S) ==
  /\ groups' = [g \in Collected \ S |-> groups[g]]
  /\ idle' = [g \in Collected \ S |-> idle[g]]
  /\ out' = [m \in Messages |-> out[m] + Occurrences(S, m)]

\* Mutant: only the first member arms the quiet timer.
resetTimerOnce(st) ==
  IF Len(st.msgs) > 1 THEN st
  ELSE [st EXCEPT !.quiet = Min({cfg.quiet, st.hard})]

\* resetTimerLocked: quiet again, but never beyond the hard deadline; past the
\* deadline the old timer stays.
resetTimer(st) ==
  LET d == Min({cfg.quiet, st.hard})
  IN  IF d <= 0 THEN st ELSE [st EXCEPT !.quiet = d]

AlbumInit ==
  /\ albumCfg \in Windows
  /\ cfg = NewAlbumAggregator(albumCfg)
  /\ groups = <<>> /\ idle = <<>>
  /\ added = [m \in Messages |-> 0]
  /\ out = [m \in Messages |-> 0]
  /\ dropped = [m \in Messages |-> 0]
  /\ reconfigs = 0

\* The album after m was appended and its timer reset.
Appended(m) ==
  LET g   == GroupedID[m]
      old == IF g \in Collected THEN groups[g]
             ELSE [msgs |-> <<>>, quiet |-> 0, hard |-> cfg.hard]
  IN  resetTimer([old EXCEPT !.msgs = Append(@, m)])

\* The group leaves at once: it is full, or (not on its first member) the hard
\* deadline has passed.
ReadyNow(m) ==
  \/ Len(Appended(m).msgs) >= cfg.size
  \/ GroupedID[m] \in Collected /\ Appended(m).hard <= 0

\* Add, (nil, false): the member is stored.
AddStore(m) ==
  /\ added[m] < MaxAdds
  /\ ~ ReadyNow(m)
  /\ groups' = [g \in Collected \cup {GroupedID[m]} |->
                  IF g = GroupedID[m] THEN Appended(m) ELSE groups[g]]
  /\ idle' = [g \in Collected \cup {GroupedID[m]} |->
                IF g = GroupedID[m] THEN 0 ELSE idle[g]]
  /\ added' = [added EXCEPT ![m] = @ + 1]
  /\ UNCHANGED <<albumCfg, cfg, out, dropped, reconfigs>>

\* Add, (group, true): stored and flushed in the same call.
AddFlush(m) ==
  /\ added[m] < MaxAdds
  /\ ReadyNow(m)
  /\ LET rest == Collected \ {GroupedID[m]}
     IN  /\ groups' = [g \in rest |-> groups[g]]
         /\ idle' = [g \in rest |-> idle[g]]
  /\ out' = [x \in Messages |-> out[x] + Times(Appended(m).msgs, x)]
  /\ added' = [added EXCEPT ![m] = @ + 1]
  /\ UNCHANGED <<albumCfg, cfg, dropped, reconfigs>>

\* Mutant: an album of which one member came is never due.
DueUnlessAlone ==
  {g \in Collected : Len(groups[g].msgs) > 1
                      /\ (groups[g].quiet = 0 \/ groups[g].hard = 0)}

\* The albums whose quiet timer fired or whose hard deadline passed.
Due == {g \in Collected : groups[g].quiet = 0 \/ groups[g].hard = 0}

FlushDue ==
  /\ Due # {}
  /\ Flush(Due)
  /\ UNCHANGED <<albumCfg, cfg, added, dropped, reconfigs>>

FlushAll ==
  /\ Collected # {}
  /\ Flush(Collected)
  /\ UNCHANGED <<albumCfg, cfg, added, dropped, reconfigs>>

\* Engine.ApplySettings with another window: what is due is flushed and
\* processed, then an empty aggregator replaces the old one and what it holds.
ApplySettings(c) ==
  /\ reconfigs < MaxReconfigs
  /\ c # albumCfg
  /\ albumCfg' = c
  /\ cfg' = NewAlbumAggregator(c)
  /\ groups' = <<>> /\ idle' = <<>>
  /\ out' = [m \in Messages |-> out[m] + Occurrences(Due, m)]
  /\ dropped' = [m \in Messages |->
                   dropped[m] + Occurrences(Collected \ Due, m)]
  /\ reconfigs' = reconfigs + 1
  /\ UNCHANGED added

\* One unit of time passes for every album being collected.
Tick ==
  /\ \E g \in Collected : groups[g].hard > 0 \/ idle[g] < MaxTime
  /\ groups' = [g \in Collected |->
                  [groups[g] EXCEPT !.quiet = Max({@ - 1, 0}),
                                    !.hard  = Max({@ - 1, 0})]]
  /\ idle' = [g \in Collected |-> Min({idle[g] + 1, MaxTime})]
  /\ UNCHANGED <<albumCfg, cfg, added, out, dropped, reconfigs>>

AlbumNext ==
  \/ \E m \in Messages : AddStore(m) \/ AddFlush(m)
  \/ FlushDue \/ FlushAll
  \/ \E c \in Windows : ApplySettings(c)
  \/ Tick

\* Time passes, and albumLoop calls FlushDue again and again.
AlbumSpec == AlbumInit /\ [][AlbumNext]_albumVars /\ WF_albumVars(Tick) /\ WF_albumVars(FlushDue)
-----------------------------------------------------------------------------
\* Every member handed to Add is collected, has left in exactly one group or
\* went with the aggregator that ApplySettings replaced: nothing leaves twice
\* and nothing is lost in another way, however flushes and changes interleave.
Conservation ==
  \A m \in Messages :
    added[m] = out[m] + dropped[m] + Occurrences(Collected, m)

\* A change of the window flushes what is collected (the comment of
\* ApplySettings): no member goes with the old aggregator.
NothingDropped == \A m \in Messages : dropped[m] = 0

\* The album loop never cuts an album early: it was silent for the whole quiet
\* window or its hard deadline passed.
DueMeansSilentOrLate ==
  \A g \in Due : idle[g] >= cfg.quiet \/ groups[g].hard = 0

\* Every collected album leaves the map in the end.
EveryAlbumLeaves ==
  \A g \in Albums : (g \in Collected) ~> (g \notin Collected)
=============================================================================
