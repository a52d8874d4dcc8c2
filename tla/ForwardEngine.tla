---------------------------- MODULE ForwardEngine ----------------------------
(***************************************************************************)
(* The forwarding engine (internal/forwarding/engine.go) with everything   *)
(* that feeds it, on one source channel.                                   *)
(*                                                                         *)
(* Goroutines: "live" (the updates stream: messageSink.OnNew and, after a  *)
(* gap, Recovery.backfill), "loop" (albumLoop), one per backfill request,  *)
(* and the single consumer of the send queue.  All but the consumer run    *)
(* processGroup; a group goes through the rules one by one, and every lock *)
(* hold, channel operation or database call is a step of its own.          *)
(*                                                                         *)
(* Shared: the trackers (trackMu), the album aggregator (albumMu), the     *)
(* queue, the counters enqueued and settled, the database, the target      *)
(* channels.  A process end (Crash, Shutdown) keeps the last two only.     *)
(***************************************************************************)
EXTENDS CursorTracker, Sequences, SequencesExt

CONSTANTS
  MaxId,         \* bound: the source channel gets the messages 1 .. MaxId
  GroupedID,     \* GroupedID[m]: the album of message m, 0 for none
  Text,          \* Text[m]: what is left of its text for comparison, 0 for none
  RuleOrder,     \* the enabled rules, in the order of ListEnabled
  Target,        \* Target[r]: the target channel of a rule
  Accepts,       \* Accepts[r]: messages whose text lets a group pass the filters
  Backfillers,   \* goroutines serving POST .../backfill
  ContentDedup,  \* settings.forwarding.content_dedup
  QueueCapacity, AlbumMaxSize, MaxAttempts, \* 100, 10 and 3 in the code
  BackfillLimit, RecoveryLimit,             \* 200 and 50 in the code
  MaxFaults,     \* bound: failing calls (database, Telegram, cancelled request)
  MaxGaps,       \* bound: channel gaps of the updates stream
  MaxPauses,     \* bound: POST /system/pause
  MaxEnds        \* bound: process ends, abrupt or graceful

Ids == 1 .. MaxId
Rules == ToSet(RuleOrder)
Targets == {Target[r] : r \in Rules}
Albums == {GroupedID[m] : m \in Ids} \ {0}
Handlers == {"live", "loop"} \cup Backfillers

ASSUME EngineAssumption ==
  /\ MaxId \in Nat
  /\ GroupedID \in [Ids -> Nat] /\ Text \in [Ids -> Nat]
  /\ RuleOrder \in Seq(Rules) /\ RuleOrder # <<>>
  /\ Accepts \in [Rules -> SUBSET Ids]
  /\ ContentDedup \in BOOLEAN
  /\ {QueueCapacity, AlbumMaxSize, MaxAttempts, BackfillLimit, RecoveryLimit}
       \subseteq Nat \ {0}
  /\ {MaxFaults, MaxGaps, MaxPauses, MaxEnds} \subseteq Nat

VARIABLES
  \* the channels and the database
  published,  \* the newest message of the source channel
  delivered,  \* the newest message the updates stream is past
  sent,       \* sent[t][m]: copies of message m posted to target t
  records,    \* forwarded_messages: source message, target, content hash
  dbCursor,   \* forward_rules.last_message_id
  \* the process
  trackers, album, queue, inflight, paused,
  handlers,   \* where each goroutine of processGroup stands
  consumer,   \* where consumeLoop stands
  \* history and bounds
  start, ended,   \* per rule, this process: first cursor, terminal IDs
  settled,        \* per rule, ever: IDs that finishTerminals was called with
  rejected,       \* per rule, ever: IDs dropped by a permanent send failure
  unwritten,      \* IDs that HandleNew never saw: the canonical write failed, or
                  \* that of an earlier update of the same batch
  aside,          \* IDs skipped while paused, missed by a recovery that failed or
                  \* too old for its page, or in progress when a process ended
  overtaken,      \* per rule, ever: IDs the cursor had passed when observed
  used            \* how much of each bound is used up

env     == <<published, delivered>>
ends    == <<start, ended, settled, rejected>>
history == <<ends, unwritten, aside, overtaken>>
vars == <<published, delivered, sent, records, dbCursor, trackers, album, queue,
          inflight, paused, handlers, consumer, start, ended, settled, rejected,
          unwritten, aside, overtaken, used>>
-----------------------------------------------------------------------------
(* Groups (sequences of messages in order of arrival) and their content.   *)

\* BuildFilterView's AggregateText, compared through its hash: the texts that
\* are not empty, each with its place among them.
hashOf(grp) ==
  LET said == {i \in DOMAIN grp : Text[grp[i]] # 0}
  IN  {<<Cardinality({j \in said : j <= i}), Text[grp[i]]>> : i \in said}

\* ShouldForward on the aggregated view.
ShouldForward(r, grp) == ToSet(grp) \cap Accepts[r] # {}

\* ForwardedRepository.Exists for some member.
Exists(r, grp) ==
  \E x \in records : x.target = Target[r] /\ x.msg \in ToSet(grp)

\* ForwardedRepository.ExistsByContent, when it is consulted.
ExistsByContent(r, grp) ==
  /\ ContentDedup /\ hashOf(grp) # {}
  /\ \E x \in records : x.target = Target[r] /\ x.hash = hashOf(grp)

\* The newest n of the messages from .. to, ascending.
Newest(from, to, n) ==
  LET first == Max({from, to - n + 1})
  IN  [i \in 1 .. to - first + 1 |-> first + i - 1]

(* A bound is spent one unit at a time. *)
Limit == [faults |-> MaxFaults, gaps |-> MaxGaps,
          pauses |-> MaxPauses, ends |-> MaxEnds]
Spend(b) == used[b] < Limit[b] /\ used' = [used EXCEPT ![b] = @ + 1]
-----------------------------------------------------------------------------
(* A handler: feed are the messages it still hands to HandleNew, groups    *)
(* those it still hands to processGroup, todo the rules left for the first *)
(* of them, adv a cursor captured for AdvanceCursor, then what follows.    *)
(* batch is the number of updates handleList was called with, 0 for every  *)
(* other feed.                                                             *)
Idle == [pc |-> "idle", feed |-> <<>>, groups |-> <<>>, todo |-> RuleOrder,
         adv |-> 0, then |-> "idle", batch |-> 0]

Free(h) == handlers[h].pc = "idle"
At(h, pc) == handlers[h].pc = pc
Grp(h) == Head(handlers[h].groups)
Rule(h) == Head(handlers[h].todo)
Goto(h, pc) == handlers' = [handlers EXCEPT ![h].pc = pc]

\* Where a handler goes on once groups gs and messages fd are left.
Continue(s, gs, fd) ==
  [s EXCEPT !.groups = gs, !.feed = fd, !.todo = RuleOrder, !.adv = 0,
            !.pc = IF gs = <<>> /\ fd = <<>> THEN s.then ELSE "next",
            !.batch = IF gs = <<>> /\ fd = <<>> THEN 0 ELSE @]

\* processRule returned: the next rule, the next group or the next message.
RuleDone(h) ==
  LET s == handlers[h]
  IN  handlers' = [handlers EXCEPT ![h] =
        IF Len(s.todo) > 1
        THEN [s EXCEPT !.todo = Tail(@), !.adv = 0, !.pc = "next"]
        ELSE Continue(s, Tail(s.groups), s.feed)]

IdleConsumer == [pc |-> "idle", task |-> <<>>, tries |-> 0, left |-> <<>>, adv |-> 0]

\* Mutant: the tracker of a new process ignores the persisted cursor.
NewTrackersZero(c) == [r \in Rules |-> newCursorTracker(0)]

\* The trackers of a process that starts from the persisted cursors c.
NewTrackers(c) == [r \in Rules |-> newCursorTracker(c[r])]

NoAlbum == [g \in Albums |-> <<>>]
AllIdle == [h \in Handlers |-> Idle]
NoIds == [r \in Rules |-> {}]

Init ==
  /\ published = 0 /\ delivered = 0
  /\ sent = [t \in Targets |-> [m \in Ids |-> 0]]
  /\ records = {}
  /\ dbCursor = [r \in Rules |-> 0]
  /\ trackers = NewTrackers(dbCursor) /\ album = NoAlbum
  /\ queue = <<>> /\ inflight = 0 /\ paused = FALSE
  /\ handlers = AllIdle /\ consumer = IdleConsumer
  /\ start = dbCursor /\ ended = NoIds
  /\ settled = NoIds /\ rejected = NoIds
  /\ unwritten = {} /\ aside = {} /\ overtaken = NoIds
  /\ used = [b \in DOMAIN Limit |-> 0]
-----------------------------------------------------------------------------
(* Where messages come from. *)

\* Someone posts to the source channel.
Publish ==
  /\ published < MaxId
  /\ published' = published + 1
  /\ UNCHANGED <<delivered, sent, records, dbCursor, trackers, album, queue,
                 inflight, paused, handlers, consumer, history, used>>

Feed(h, fd, then, batch) ==
  handlers' = [handlers EXCEPT ![h] =
                 Continue([@ EXCEPT !.then = then, !.batch = batch], <<>>, fd)]

\* The messages from .. to in their order.
Updates(from, to) == [i \in 1 .. to - from + 1 |-> from + i - 1]

\* Dispatcher.Handle for the next updates of the channel, one or several:
\* handleList gives them to messageSink.OnNew one after another.
Deliver ==
  /\ Free("live")
  /\ \E n \in delivered + 1 .. published :
       /\ delivered' = n
       /\ Feed("live", Updates(delivered + 1, n), "idle", n - delivered)
  /\ UNCHANGED <<published, sent, records, dbCursor, trackers, album, queue,
                 inflight, paused, consumer, history, used>>

\* Recovery.ChannelGap: the missed updates are gone; getHistory returns the
\* newest messages, newest first, and they go to the same sink.
ChannelGap ==
  /\ Free("live") /\ delivered < published /\ Spend("gaps")
  /\ delivered' = published
  /\ LET page == Newest(1, published, RecoveryLimit)
     IN  /\ Feed("live", Reverse(page), "idle", 0)
         /\ aside' = aside \cup ((delivered + 1 .. published) \ ToSet(page))
  /\ UNCHANGED <<published, sent, records, dbCursor, trackers, album, queue,
                 inflight, paused, consumer, ends, unwritten, overtaken>>

\* The peer of the channel is unknown or cannot be looked up, or getHistory
\* fails or answers with something else: nothing is recovered, and the stream
\* goes on behind the gap.
ChannelGapFails ==
  /\ Free("live") /\ delivered < published /\ Spend("gaps")
  /\ delivered' = published
  /\ aside' = aside \cup (delivered + 1 .. published)
  /\ UNCHANGED <<published, sent, records, dbCursor, trackers, album, queue,
                 inflight, paused, handlers, consumer, ends, unwritten, overtaken>>

\* Mutant: the history is asked for from the newest message seen.
StartBackfillNewest(b, r) ==
  /\ Free(b)
  /\ handlers' = [handlers EXCEPT ![b].pc = "fetch", ![b].adv = delivered]
  /\ UNCHANGED <<env, sent, records, dbCursor, trackers, album, queue, inflight,
                 paused, consumer, history, used>>

\* Engine.Backfill up to the cursor read under trackMu (adv holds minID).
StartBackfill(b, r) ==
  /\ Free(b)
  /\ handlers' = [handlers EXCEPT ![b].pc = "fetch",
                                  ![b].adv = trackers[r].cursor]
  /\ UNCHANGED <<env, sent, records, dbCursor, trackers, album, queue, inflight,
                 paused, consumer, history, used>>

\* GetHistory(minID, limit) returns the newest messages above minID; they are
\* sorted ascending.
FetchHistory(b) ==
  /\ At(b, "fetch")
  /\ LET from == handlers[b].adv + 1
         page == Newest(from, published, BackfillLimit)
     IN  /\ Feed(b, page, "drain", 0)
         /\ aside' = aside \cup ((from .. published) \ ToSet(page))
  /\ UNCHANGED <<env, sent, records, dbCursor, trackers, album, queue, inflight,
                 paused, consumer, ends, unwritten, overtaken, used>>

\* GetHistory fails, or the request is cancelled while drain waits.
BackfillFails(b) ==
  /\ At(b, "fetch") \/ At(b, "settle")
  /\ Spend("faults")
  /\ handlers' = [handlers EXCEPT ![b] = Idle]
  /\ UNCHANGED <<env, sent, records, dbCursor, trackers, album, queue, inflight,
                 paused, consumer, history>>
-----------------------------------------------------------------------------
(* HandleNew, and the canonical write that messageSink.OnNew does first. *)

NextMessage(h) ==
  At(h, "next") /\ handlers[h].groups = <<>>

HandOver(h, gs) ==
  handlers' = [handlers EXCEPT ![h] = Continue(@, gs, Tail(@.feed))]

\* OnNew returns an error for an update of the stream (or OnEdit does, for an
\* edit between them): handleList returns with it, the engine is not called,
\* and the rest of the batch is dropped.
BatchFails ==
  /\ NextMessage("live") /\ handlers["live"].batch > 0 /\ Spend("faults")
  /\ unwritten' = unwritten \cup ToSet(handlers["live"].feed)
  /\ handlers' = [handlers EXCEPT !["live"] = Continue(@, <<>>, <<>>)]
  /\ UNCHANGED <<env, sent, records, dbCursor, trackers, album, queue, inflight,
                 paused, consumer, ends, aside, overtaken>>

\* WriteNew fails in a recovery, which goes on with its next message.
WriteNewFails ==
  /\ NextMessage("live") /\ handlers["live"].batch = 0 /\ Spend("faults")
  /\ unwritten' = unwritten \cup {Head(handlers["live"].feed)}
  /\ HandOver("live", <<>>)
  /\ UNCHANGED <<env, sent, records, dbCursor, trackers, album, queue, inflight,
                 paused, consumer, ends, aside, overtaken>>

\* Paused: HandleNew only warns.
HandleNewPaused(h) ==
  /\ NextMessage(h) /\ paused
  /\ aside' = aside \cup {Head(handlers[h].feed)}
  /\ HandOver(h, <<>>)
  /\ UNCHANGED <<env, sent, records, dbCursor, trackers, album, queue, inflight,
                 paused, consumer, ends, unwritten, overtaken, used>>

HandleNewSingle(h) ==
  LET m == Head(handlers[h].feed)
  IN  /\ NextMessage(h) /\ ~ paused
      /\ GroupedID[m] = 0
      /\ HandOver(h, << <<m>> >>)
      /\ UNCHANGED <<env, sent, records, dbCursor, trackers, album, queue,
                     inflight, paused, consumer, history, used>>

\* Mutant: a group that leaves because of the hard deadline stays collected.
HandleNewAlbumKeeps(h) ==
  LET m   == Head(handlers[h].feed)
      g   == GroupedID[m]
      all == Append(album[g], m)
  IN  /\ NextMessage(h) /\ ~ paused
      /\ g # 0
      /\ album' = [album EXCEPT ![g] = all]
      /\ \/ Len(all) < AlbumMaxSize /\ HandOver(h, <<>>)
         \/ album[g] # <<>> /\ HandOver(h, <<all>>)
      /\ UNCHANGED <<env, sent, records, dbCursor, trackers, queue, inflight,
                     paused, consumer, history, used>>

\* AlbumAggregator.Add under albumMu; the hard deadline may have passed for an
\* album that was being collected.
HandleNewAlbum(h) ==
  LET m   == Head(handlers[h].feed)
      g   == GroupedID[m]
      all == Append(album[g], m)
  IN  /\ NextMessage(h) /\ ~ paused
      /\ g # 0
      /\ \/ /\ Len(all) < AlbumMaxSize
            /\ album' = [album EXCEPT ![g] = all]
            /\ HandOver(h, <<>>)
         \/ /\ Len(all) >= AlbumMaxSize \/ album[g] # <<>>
            /\ album' = [album EXCEPT ![g] = <<>>]
            /\ HandOver(h, <<all>>)
      /\ UNCHANGED <<env, sent, records, dbCursor, trackers, queue, inflight,
                     paused, consumer, history, used>>

Collected == {g \in Albums : album[g] # <<>>}

\* The albums of S leave the aggregator, in the order of the map's iteration.
FlushTo(h, S, then) ==
  /\ album' = [g \in Albums |-> IF g \in S THEN <<>> ELSE album[g]]
  /\ \E order \in SetToSeqs(S) :
       handlers' = [handlers EXCEPT ![h] =
         Continue([@ EXCEPT !.then = then], [i \in DOMAIN order |-> album[order[i]]], <<>>)]
  /\ UNCHANGED <<env, sent, records, dbCursor, trackers, queue, inflight, paused,
                 consumer, history, used>>

\* drainAlbum: any of the albums being collected may be due.
FlushDue ==
  /\ Free("loop")
  /\ \E S \in (SUBSET Collected) \ {{}} : FlushTo("loop", S, "idle")

\* One round of drain: FlushAll and, after its groups, the comparison.
DrainFlush(b) == At(b, "drain") /\ FlushTo(b, Collected, "settle")

\* The counters agree: Backfill returns the cursor.
DrainDone(b) ==
  /\ At(b, "settle") /\ inflight = 0
  /\ handlers' = [handlers EXCEPT ![b] = Idle]
  /\ UNCHANGED <<env, sent, records, dbCursor, trackers, album, queue, inflight,
                 paused, consumer, history, used>>

\* They do not: 5 ms later drain flushes again.
DrainAgain(b) ==
  /\ At(b, "settle") /\ inflight # 0
  /\ Goto(b, "drain")
  /\ UNCHANGED <<env, sent, records, dbCursor, trackers, album, queue, inflight,
                 paused, consumer, history, used>>
-----------------------------------------------------------------------------
(* processRule *)

\* finishTerminals under trackMu; moved tells whether to persist.
Finish(r, grp) ==
  LET S == ToSet(grp)
  IN  /\ trackers' = [trackers EXCEPT ![r] = TerminalAll(@, S)]
      /\ ended' = [ended EXCEPT ![r] = @ \cup Above(trackers[r], S)]
      /\ settled' = [settled EXCEPT ![r] = @ \cup S]
      /\ UNCHANGED <<start, unwritten, aside, overtaken>>

\* The cursor finishTerminals captured, 0 when nothing moved.
Captured(r, grp) ==
  IF Moved(trackers[r], ToSet(grp))
  THEN TerminalAll(trackers[r], ToSet(grp)).cursor ELSE 0

\* AdvanceCursor(r, c): GREATEST, or an error that is only logged.
Persist(r, c) ==
  \/ dbCursor' = [dbCursor EXCEPT ![r] = Max({@, c})] /\ UNCHANGED used
  \/ UNCHANGED dbCursor /\ Spend("faults")

\* Mutant: processRule forgets observeAll.
ObserveNothing(h) ==
  /\ At(h, "next") /\ handlers[h].groups # <<>>
  /\ Goto(h, "check")
  /\ UNCHANGED <<env, sent, records, dbCursor, trackers, album, queue, inflight,
                 paused, consumer, history, used>>

\* The next rule of the first group: observeAll.
Observe(h) ==
  /\ At(h, "next") /\ handlers[h].groups # <<>>
  /\ trackers' = [trackers EXCEPT ![Rule(h)] = ObserveAll(@, ToSet(Grp(h)))]
  /\ overtaken' = [overtaken EXCEPT ![Rule(h)] = @ \cup
       {m \in ToSet(Grp(h)) \ settled[Rule(h)] : m <= trackers[Rule(h)].cursor}]
  /\ Goto(h, "check")
  /\ UNCHANGED <<env, sent, records, dbCursor, album, queue, inflight, paused,
                 consumer, ends, unwritten, aside, used>>

\* Exists or ExistsByContent fails: processRule returns, nothing is terminal.
CheckFails(h) ==
  /\ At(h, "check") /\ Spend("faults")
  /\ RuleDone(h)
  /\ UNCHANGED <<env, sent, records, dbCursor, trackers, album, queue, inflight,
                 paused, consumer, history>>

\* Already forwarded, same content forwarded, or rejected by the filters.
Skip(h) ==
  /\ At(h, "check")
  /\ \/ Exists(Rule(h), Grp(h))
     \/ ExistsByContent(Rule(h), Grp(h))
     \/ ~ ShouldForward(Rule(h), Grp(h))
  /\ Goto(h, "finish")
  /\ UNCHANGED <<env, sent, records, dbCursor, trackers, album, queue, inflight,
                 paused, consumer, history, used>>

Pass(h) ==
  /\ At(h, "check")
  /\ ~ Exists(Rule(h), Grp(h)) /\ ~ ExistsByContent(Rule(h), Grp(h))
  /\ ShouldForward(Rule(h), Grp(h))
  /\ Goto(h, "push")
  /\ UNCHANGED <<env, sent, records, dbCursor, trackers, album, queue, inflight,
                 paused, consumer, history, used>>

\* finishTerminals for a skipped group; the cursor is persisted when it moved.
FinishSkipped(h) ==
  LET c == Captured(Rule(h), Grp(h))
  IN  /\ At(h, "finish")
      /\ Finish(Rule(h), Grp(h))
      /\ IF c = 0 THEN RuleDone(h)
         ELSE handlers' = [handlers EXCEPT ![h].pc = "persist", ![h].adv = c]
      /\ UNCHANGED <<env, sent, records, dbCursor, album, queue, inflight, paused,
                     consumer, rejected, used>>

PersistSkipped(h) ==
  /\ At(h, "persist")
  /\ Persist(Rule(h), handlers[h].adv)
  /\ RuleDone(h)
  /\ UNCHANGED <<env, sent, records, trackers, album, queue, inflight, paused,
                 consumer, history>>

\* e.queue <- task blocks while the queue is full ...
Push(h) ==
  /\ At(h, "push") /\ Len(queue) < QueueCapacity
  /\ queue' = Append(queue, [rule |-> Rule(h), msgs |-> Grp(h)])
  /\ Goto(h, "count")
  /\ UNCHANGED <<env, sent, records, dbCursor, trackers, album, inflight, paused,
                 consumer, history, used>>

\* ... and the counter follows in a step of its own.
CountEnqueued(h) ==
  /\ At(h, "count")
  /\ inflight' = inflight + 1
  /\ RuleDone(h)
  /\ UNCHANGED <<env, sent, records, dbCursor, trackers, album, queue, paused,
                 consumer, history, used>>

\* The request of a backfill is cancelled while it feeds HandleNew: the group
\* is not enqueued.
PushCancelled(b) ==
  /\ At(b, "push") /\ handlers[b].then = "drain" /\ Spend("faults")
  /\ RuleDone(b)
  /\ UNCHANGED <<env, sent, records, dbCursor, trackers, album, queue, inflight,
                 paused, consumer, history>>
-----------------------------------------------------------------------------
(* consumeLoop and execute; consumer.left are the members still to record. *)

ConsumerAt(pc) == consumer.pc = pc
Task == consumer.task

\* execute returned: settled is incremented and the consumer is free again.
Settle ==
  /\ inflight' = inflight - 1
  /\ consumer' = IdleConsumer

Take ==
  /\ ConsumerAt("idle") /\ queue # <<>>
  /\ consumer' = [pc |-> "send", task |-> Head(queue), tries |-> 0,
                  left |-> Head(queue).msgs, adv |-> 0]
  /\ queue' = Tail(queue)
  /\ UNCHANGED <<env, sent, records, dbCursor, trackers, album, inflight, paused,
                 handlers, history, used>>

Posted ==
  sent' = [sent EXCEPT ![Target[Task.rule]] =
             [m \in Ids |-> @[m] + Cardinality({i \in DOMAIN Task.msgs :
                                                 Task.msgs[i] = m})]]

SendOK ==
  /\ ConsumerAt("send")
  /\ Posted
  /\ consumer' = [consumer EXCEPT !.pc = "record"]
  /\ UNCHANGED <<env, records, dbCursor, trackers, album, queue, inflight, paused,
                 handlers, history, used>>

\* Mutant: a failed task is not counted as settled.
SendFailsUncounted ==
  /\ ConsumerAt("send") /\ Spend("faults")
  /\ Posted \/ UNCHANGED sent
  /\ consumer' = IF consumer.tries + 1 < MaxAttempts
                 THEN [consumer EXCEPT !.tries = @ + 1] ELSE IdleConsumer
  /\ UNCHANGED <<env, records, dbCursor, trackers, album, queue, inflight, paused,
                 handlers, history>>

\* Mutant: the attempts are used up and the task counts as sent.
SendFailsAsSuccess ==
  /\ ConsumerAt("send") /\ Spend("faults")
  /\ Posted \/ UNCHANGED sent
  /\ consumer' = IF consumer.tries + 1 < MaxAttempts
                 THEN [consumer EXCEPT !.tries = @ + 1]
                 ELSE [consumer EXCEPT !.pc = "record"]
  /\ UNCHANGED <<env, records, dbCursor, trackers, album, queue, inflight, paused,
                 handlers, history>>

\* A transient failure, with or without the message having reached the target:
\* another attempt, or, after the last one, the task ends unresolved.
SendFails ==
  /\ ConsumerAt("send") /\ Spend("faults")
  /\ Posted \/ UNCHANGED sent
  /\ IF consumer.tries + 1 < MaxAttempts
     THEN consumer' = [consumer EXCEPT !.tries = @ + 1] /\ UNCHANGED inflight
     ELSE Settle
  /\ UNCHANGED <<env, records, dbCursor, trackers, album, queue, paused, handlers,
                 history>>

\* A permanent failure is terminal, without a record.
SendRejected ==
  /\ ConsumerAt("send") /\ Spend("faults")
  /\ rejected' = [rejected EXCEPT ![Task.rule] = @ \cup ToSet(Task.msgs)]
  /\ consumer' = [consumer EXCEPT !.pc = "finish"]
  /\ UNCHANGED <<env, sent, records, dbCursor, trackers, album, queue, inflight,
                 paused, handlers, start, ended, settled, unwritten, aside,
                 overtaken>>

\* ForwardedRepository.Record: INSERT IGNORE keeps the record there is.
Record(m) ==
  LET t == Target[Task.rule]
  IN  records' = IF \E x \in records : x.msg = m /\ x.target = t THEN records
                 ELSE records \cup {[msg |-> m, target |-> t,
                                     hash |-> hashOf(Task.msgs)]}

\* Record for the next member; a failure is only logged.
RecordMember ==
  /\ ConsumerAt("record") /\ consumer.left # <<>>
  /\ \/ Record(Head(consumer.left)) /\ UNCHANGED used
     \/ UNCHANGED records /\ Spend("faults")
  /\ consumer' = [consumer EXCEPT !.left = Tail(@)]
  /\ UNCHANGED <<env, sent, dbCursor, trackers, album, queue, inflight, paused,
                 handlers, history>>

FinishSent ==
  LET c == Captured(Task.rule, Task.msgs)
  IN  /\ ConsumerAt("finish") \/ (ConsumerAt("record") /\ consumer.left = <<>>)
      /\ Finish(Task.rule, Task.msgs)
      /\ IF c = 0 THEN Settle
         ELSE /\ consumer' = [consumer EXCEPT !.pc = "persist", !.adv = c]
              /\ UNCHANGED inflight
      /\ UNCHANGED <<env, sent, records, dbCursor, album, queue, paused, handlers,
                     rejected, used>>

PersistSent ==
  /\ ConsumerAt("persist")
  /\ Persist(Task.rule, consumer.adv)
  /\ Settle
  /\ UNCHANGED <<env, sent, records, trackers, album, queue, paused, handlers,
                 history>>
-----------------------------------------------------------------------------
(* The operator and the process. *)

Pause ==
  /\ ~ paused /\ Spend("pauses") /\ paused' = TRUE
  /\ UNCHANGED <<env, sent, records, dbCursor, trackers, album, queue, inflight,
                 handlers, consumer, history>>

Resume ==
  /\ paused /\ paused' = FALSE
  /\ UNCHANGED <<env, sent, records, dbCursor, trackers, album, queue, inflight,
                 handlers, consumer, history, used>>

\* The next process starts from the database.
ProcessEnds ==
  /\ UNCHANGED <<published, records, dbCursor, settled, rejected, unwritten,
                 overtaken>>
  /\ aside' = aside \cup {m \in 1 .. delivered' : \E r \in Rules : m \notin settled[r]}
  /\ trackers' = NewTrackers(dbCursor) /\ album' = NoAlbum
  /\ queue' = <<>> /\ inflight' = 0 /\ paused' = FALSE
  /\ handlers' = AllIdle /\ consumer' = IdleConsumer
  /\ start' = dbCursor /\ ended' = NoIds

\* The batch under way comes again: the position behind it was not saved yet.
Redelivered == delivered' = delivered - handlers["live"].batch

Crash ==
  /\ Spend("ends")
  /\ Redelivered \/ UNCHANGED delivered
  /\ ProcessEnds
  /\ UNCHANGED sent

\* A graceful stop cuts a send short (which may have reached the target), waits
\* for the bookkeeping after a send and for the album loop, whose context nothing
\* cancels (stuck on a full queue, it is ended by a kill only: Crash), and drops
\* what is queued.
Shutdown ==
  /\ Spend("ends") /\ Free("loop")
  /\ Redelivered /\ ProcessEnds
  /\ \/ (ConsumerAt("idle") \/ ConsumerAt("send")) /\ UNCHANGED sent
     \/ ConsumerAt("send") /\ Posted
-----------------------------------------------------------------------------
HandleNew(h) == HandleNewPaused(h) \/ HandleNewSingle(h) \/ HandleNewAlbum(h)

ProcessRule(h) ==
  \/ Observe(h) \/ Skip(h) \/ Pass(h) \/ FinishSkipped(h) \/ PersistSkipped(h)
  \/ Push(h) \/ CountEnqueued(h)

Drain(b) == FetchHistory(b) \/ DrainFlush(b) \/ DrainDone(b) \/ DrainAgain(b)

Consume ==
  Take \/ SendOK \/ RecordMember \/ FinishSent \/ PersistSent

Next ==
  \/ Publish \/ Deliver \/ ChannelGap \/ ChannelGapFails \/ FlushDue
  \/ \E h \in Handlers : HandleNew(h) \/ ProcessRule(h) \/ CheckFails(h)
  \/ BatchFails \/ WriteNewFails
  \/ \E b \in Backfillers :
       \/ \E r \in Rules : StartBackfill(b, r)
       \/ Drain(b) \/ BackfillFails(b) \/ PushCancelled(b)
  \/ Consume \/ SendFails \/ SendRejected
  \/ Pause \/ Resume
  \/ Crash \/ Shutdown

Spec == Init /\ [][Next]_vars

(***************************************************************************)
(* Fairness: the Go scheduler keeps running every goroutine that is not    *)
(* blocked; the updates stream delivers; albumLoop ticks; the consumer     *)
(* sends.  Nothing makes a call fail, an operator act or the process end.  *)
(***************************************************************************)
Scheduling ==
  /\ WF_vars(Deliver) /\ WF_vars(FlushDue) /\ WF_vars(Consume)
  /\ \A h \in Handlers : WF_vars(HandleNew(h) \/ ProcessRule(h))
  /\ \A b \in Backfillers : WF_vars(Drain(b))

FairSpec == Spec /\ Scheduling

\* The operator, moreover, asks for a backfill of the first rule again and
\* again: what plan section 6 counts on to recover a failed message.
RecoveringSpec ==
  FairSpec /\ \A b \in Backfillers : WF_vars(StartBackfill(b, Head(RuleOrder)))
-----------------------------------------------------------------------------
\* The message and the others of its album.
Mates(m) ==
  {m} \cup {y \in Ids : GroupedID[m] # 0 /\ GroupedID[y] = GroupedID[m]}

\* A message ends for a rule only for a reason: it was sent, the filters or a
\* permanent failure dropped it, or a mate of its album, or the text of one, is
\* on record at the target, and then really was posted there: a record never
\* claims more than was sent, across lost answers, retries and crashes.
TerminalHasCause ==
  \A r \in Rules : \A m \in settled[r] :
    \/ sent[Target[r]][m] > 0
    \/ m \notin Accepts[r] \/ m \in rejected[r]
    \/ \E x \in records :
         /\ x.target = Target[r] /\ sent[x.target][x.msg] > 0
         /\ \E y \in Mates(m) :
              \/ x.msg = y
              \/ ContentDedup /\ Text[y] \in {t[2] : t \in x.hash}

\* One rule, and no albums.
Alone == Len(RuleOrder) = 1 /\ \A m \in Ids : GroupedID[m] = 0

\* With one rule, single messages and no gap of the updates stream, the persisted
\* cursor only covers messages that ended for the rule (plan section 6: no
\* transient failure below the cursor), whatever fails and however backfills and
\* the updates stream interleave; except those that never came through the
\* canonical write (their own or, in a batch, an earlier one's failed), came
\* during a pause, were in progress when a process ended, or are too old for a
\* backfill's page.
NoSkippedMessage ==
  Alone /\ used["gaps"] = 0 =>
    \A r \in Rules : \A m \in 1 .. published :
      m <= dbCursor[r] => m \in settled[r] \cup unwritten \cup aside

\* The rules may still meet message m in this process.
InHand(m) ==
  \/ m > delivered
  \/ \E h \in Handlers : \/ m \in ToSet(handlers[h].feed)
                         \/ \E i \in DOMAIN handlers[h].groups :
                              m \in ToSet(handlers[h].groups[i])
  \/ \E g \in Albums : m \in ToSet(album[g])

\* The only ways a message is lost (it is below the persisted cursor, it has not
\* ended and no handler will show it to the rules): its canonical write failed,
\* or that of an earlier update of its batch, it came while the engine was
\* paused, it fell in a channel gap and the recovery failed or did not reach back
\* to it, a process ended before it ended, or the cursor was past it before it
\* was observed and its one attempt failed.  Being queued or sent is no cause:
\* the cursor stays below.
LossHasCause ==
  \A r \in Rules : \A m \in 1 .. published :
    m <= dbCursor[r] =>
      m \in settled[r] \cup unwritten \cup aside \cup overtaken[r] \/ InHand(m)

\* A message reaches a target at most once.
AtMostOnce == \A t \in Targets : \A m \in Ids : sent[t][m] <= 1

OneRulePerTarget ==
  \A i, j \in DOMAIN RuleOrder : Target[RuleOrder[i]] = Target[RuleOrder[j]] => i = j

\* ... as long as no two rules share a target, no call fails, no process ends and
\* nothing is fed to the engine a second time: the updates stream and the album
\* loop by themselves, whatever rules there are, never post a message twice.
OnceWhenUndisturbed ==
  (OneRulePerTarget /\ Backfillers = {} /\ \A b \in DOMAIN used \ {"pauses"} : used[b] = 0)
     => AtMostOnce

\* Each rule keeps the watermark of RuleWatermark, its pending writes being
\* the cursors captured by the goroutines about to call AdvanceCursor.
PendingWrites(r) ==
  {handlers[h].adv : h \in {g \in Handlers : At(g, "persist") /\ Rule(g) = r}}
    \cup {consumer.adv : x \in {y \in {0} : ConsumerAt("persist") /\ Task.rule = r}}

RW(r) == INSTANCE RuleWatermark
           WITH tracker <- trackers[r], dbCursor <- dbCursor[r],
                writes <- PendingWrites(r), start <- start[r], ended <- ended[r]

WatermarksKept ==
  /\ \A r \in Rules : RW(r)!Init
  /\ [][\A r \in Rules : [RW(r)!Next]_(RW(r)!vars)]_vars

\* A backfill request is answered.
BackfillReturns == \A b \in Backfillers : At(b, "fetch") ~> Free(b)

\* Every message posted to the source channel ends for every rule, whatever
\* sends or queries failed meanwhile, as long as backfills are asked for.
EveryMessageEnds ==
  \A r \in Rules : \A m \in Ids :
    (m <= published) ~> (m \in settled[r] \cup unwritten)
=============================================================================
