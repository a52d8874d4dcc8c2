----------------------------- MODULE LogStream -----------------------------
(***************************************************************************)
(* The log ring (logging/ring.go) and its viewers, the WebSocket handlers  *)
(* of webapi/ws.go.  A logger appends its record under the ring's lock and *)
(* pushes it to the subscribers, as they were then, after the unlock; a    *)
(* viewer subscribes first, replays a snapshot, and then streams.          *)
(***************************************************************************)
EXTENDS Integers, Sequences, SequencesExt, FiniteSetsExt

CONSTANTS
  Loggers, Viewers,
  LevelOf,      \* LevelOf[i]: the level of the i-th record; its length bounds the records
  Filters,      \* the filters a viewer asks for: sets of levels, {} = all
  RingCapacity, \* 1024 in production
  ChanCapacity  \* 8

ASSUME LogAssumption == RingCapacity \in Nat \ {0} /\ ChanCapacity \in Nat

VARIABLES
  ring,       \* the last records, as numbers
  appended,   \* how many records were appended
  subs,       \* the subscribed viewers
  ringClosed, \* Close was called
  logger,     \* what a logger still has to push: the record, and to whom
  viewer,     \* viewer[v]: its stage, channel, replay and filter
  shown,      \* shown[v]: what the viewer was sent, in order
  missed,     \* missed[v]: pushes dropped, and records a filter held back
  logPanic    \* a send on a closed channel

logVars == <<ring, appended, subs, ringClosed, logger, viewer, shown, missed, logPanic>>

Idle == [rec |-> 0, to |-> {}]
Passes(filter, i) == filter = {} \/ LevelOf[i] \in filter
Kept(s) == SubSeq(s, Max({1, Len(s) - RingCapacity + 1}), Len(s))

LogInit ==
  /\ ring = <<>> /\ appended = 0 /\ subs = {} /\ ringClosed = FALSE
  /\ logger = [l \in Loggers |-> Idle]
  /\ viewer = [v \in Viewers |-> [stage |-> "away", chan |-> <<>>, replay |-> <<>>, filter |-> {}]]
  /\ shown = [v \in Viewers |-> <<>>] /\ missed = [v \in Viewers |-> {}] /\ logPanic = FALSE
-----------------------------------------------------------------------------
\* Mutant: a viewer is subscribed once its replay is over.
TargetsLive(s) == {v \in s : viewer[v].stage = "live"}

Targets(s) == s

(* handle, up to the unlock.                                               *)
Handle(l) ==
  /\ logger[l] = Idle /\ appended < Len(LevelOf) /\ ~ringClosed
  /\ appended' = appended + 1
  /\ ring' = Kept(Append(ring, appended + 1))
  /\ logger' = [logger EXCEPT ![l] = IF Targets(subs) = {} THEN Idle ELSE [rec |-> appended + 1, to |-> Targets(subs)]]
  /\ UNCHANGED <<subs, ringClosed, viewer, shown, missed, logPanic>>

Room(v) == Len(viewer[v].chan) < ChanCapacity

(* One push: a full channel loses it, a closed one panics.                 *)
Push(l, v) ==
  /\ v \in logger[l].to /\ ~logPanic
  /\ logger' = [logger EXCEPT ![l] = IF @.to = {v} THEN Idle ELSE [rec |-> @.rec, to |-> @.to \ {v}]]
  /\ IF ringClosed THEN logPanic' = TRUE /\ UNCHANGED <<viewer, missed>>
     ELSE /\ logPanic' = FALSE
          /\ IF Room(v)
             THEN /\ viewer' = [viewer EXCEPT ![v].chan = Append(@, logger[l].rec)]
                  /\ UNCHANGED missed
             ELSE missed' = [missed EXCEPT ![v] = @ \cup {logger[l].rec}] /\ UNCHANGED viewer
  /\ UNCHANGED <<ring, appended, subs, ringClosed, shown>>

(* Close; afterwards a record is not appended and nobody is subscribed.    *)
Close ==
  /\ ~ringClosed /\ ringClosed' = TRUE /\ subs' = {}
  /\ UNCHANGED <<ring, appended, logger, viewer, shown, missed, logPanic>>
-----------------------------------------------------------------------------
(* handleWS.  A viewer who leaves stays subscribed: there is no way back.  *)
Subscribe(v) ==
  /\ viewer[v].stage = "away"
  /\ viewer' = [viewer EXCEPT ![v].stage = "subscribed"]
  /\ subs' = subs \cup {v}
  /\ UNCHANGED <<ring, appended, ringClosed, logger, shown, missed, logPanic>>

Snapshot(v) ==
  /\ viewer[v].stage = "subscribed"
  /\ viewer' = [viewer EXCEPT ![v].stage = "replay", ![v].replay = ring]
  /\ UNCHANGED <<ring, appended, subs, ringClosed, logger, shown, missed, logPanic>>

(* writeOne of a record.                                                   *)
Written(v, i) ==
  IF Passes(viewer[v].filter, i)
  THEN shown' = [shown EXCEPT ![v] = Append(@, i)] /\ UNCHANGED missed
  ELSE missed' = [missed EXCEPT ![v] = @ \cup {i}] /\ UNCHANGED shown

Replay(v) ==
  /\ viewer[v].stage = "replay"
  /\ IF viewer[v].replay = <<>>
     THEN viewer' = [viewer EXCEPT ![v].stage = "live"] /\ UNCHANGED <<shown, missed>>
     ELSE /\ Written(v, Head(viewer[v].replay))
          /\ viewer' = [viewer EXCEPT ![v].replay = Tail(@)]
  /\ UNCHANGED <<ring, appended, subs, ringClosed, logger, logPanic>>

Stream(v) ==
  /\ viewer[v].stage = "live" /\ viewer[v].chan # <<>>
  /\ Written(v, Head(viewer[v].chan))
  /\ viewer' = [viewer EXCEPT ![v].chan = Tail(@)]
  /\ UNCHANGED <<ring, appended, subs, ringClosed, logger, logPanic>>

(* The read pump, which starts after the replay.                           *)
SetFilter(v) ==
  /\ viewer[v].stage = "live"
  /\ \E f \in Filters : viewer' = [viewer EXCEPT ![v].filter = f]
  /\ UNCHANGED <<ring, appended, subs, ringClosed, logger, shown, missed, logPanic>>

(* A write fails, the client goes, or the closed channel is drained.       *)
Leave(v) ==
  /\ viewer[v].stage \in {"replay", "live"}
  /\ viewer' = [viewer EXCEPT ![v].stage = "gone"]
  /\ UNCHANGED <<ring, appended, subs, ringClosed, logger, shown, missed, logPanic>>

LogNext ==
  \/ Close
  \/ \E l \in Loggers : Handle(l) \/ \E v \in Viewers : Push(l, v)
  \/ \E v \in Viewers :
       Subscribe(v) \/ Snapshot(v) \/ Replay(v) \/ Stream(v) \/ SetFilter(v) \/ Leave(v)
-----------------------------------------------------------------------------
(* PROPERTIES *)

(* What a viewer has: shown, or missed for a reason (a full channel, its   *)
(* filter), or still on the way to it.                                     *)
Pending(v) ==
  ToSet(viewer[v].chan) \cup ToSet(viewer[v].replay)
    \cup {logger[l].rec : l \in {k \in Loggers : v \in logger[k].to}}

(* A live viewer has every record from the first it ever had: the gap      *)
(* between the snapshot and the stream is closed by subscribing first      *)
(* (ws.go:104-125), at the price that a record is shown twice.  Never      *)
(* three times, and a record on the way is not lost by another's push.     *)
ViewerHasAll ==
  \A v \in Viewers :
    LET has == ToSet(shown[v]) \cup missed[v] \cup Pending(v)
    IN /\ viewer[v].stage \in {"replay", "live"} /\ ~ringClosed =>
            \A i \in has : i .. appended \subseteq has
       /\ \A i \in ToSet(shown[v]) : Cardinality({k \in DOMAIN shown[v] : shown[v][k] = i}) <= 2
=============================================================================
