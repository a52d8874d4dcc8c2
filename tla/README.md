# Sakura-Nexus: a verification development

Sakura-Nexus is a Go service that follows Telegram channels with a user account,
keeps every message in MySQL ("canonical store"), forwards messages to other
channels by rules, and is operated from a web console. This directory holds TLA+
models of it, TLC configurations that check them, and TLAPS proofs.

`tlc -config X.cfg M` runs a model, `tlapm M_proofs.tla` checks a proof module;
PROJECT.json lists the components, the runs with their properties, the mutants, the
map from definitions to source lines, the hazards, the findings and the theorems.
Paths below are relative to `src/internal`.

## 1. The system

| Component | Source | State | Operations |
|---|---|---|---|
| Contiguous cursor | forwarding/cursor.go, engine.go | per rule: last, unresolved IDs, ended IDs; `last_message_id` in the database | observe, terminal, AdvanceCursor |
| Album aggregator | forwarding/album.go | groups: members, first seen, timer | Add, FlushDue, FlushAll, replaced by ApplySettings |
| Forwarding engine | forwarding/engine.go | rule cache, trackers, task channel, enqueued/settled, paused | HandleNew, albumLoop, Backfill/drain, consumeLoop/execute, Pause/Resume, RefreshRules, ApplySettings |
| Updates and gap recovery | platform/telegram/updates.go, history.go | position of the stream (gotd), state rows | handleList, emitNew/Edit/Delete, ChannelGap, GlobalGap |
| Canonical store | platform/mysql/messages.go, database.go | `messages`, `message_revisions` | WriteNew, WriteEdit, WriteDelete, WithTx |
| Records and rules | platform/mysql/repositories.go | `forwarded_messages`, `forward_rules`, `channels` | Exists, ExistsByContent, Record, AdvanceCursor, rule and channel rows |
| Rule administration | webapi/forwarding.go | none of its own | create, update, enable, disable, delete, backfill; channels |
| Lifecycle | app/lifecycle.go | context, exit code, restart flag, readiness | Run, supervise, coreFatal, RequestRestart, closeAll |
| Outbound delivery | platform/telegram/outbound.go, rich_outbound.go, media.go, platform/botapi/client.go, platform/ai/provider.go | capability flag, temporary directories | send, split, download, fall back, retry, rewrite |
| Rich text | platform/telegram/rich.go, rich_blocks.go, rich_split.go | none | normalize, parse, validate, split, pack |
| Conversion, filters, footer | platform/telegram/updates.go, outbound.go, forwarding/filters.go, footer.go | none | ConvertMessage, BuildFilterView, ShouldForward, ChooseFooter, splitLongText |
| Settings center | config/settings.go, webapi/deps.go | snapshot per scope, subscribers | Load, Update, notify |
| Login wizard | platform/telegram/wizard.go, webapi/userbot.go | sessions, their channels and state | LoginStart, LoginCode, LoginPassword |
| Log ring and viewers | logging/ring.go, webapi/ws.go | buffer, subscribers | handle, Subscribe, Snapshot, Close |
| Web sessions, limiter, server | webapi/auth.go, server.go | sessions, login attempts | login, logout, audited writes, Run, Shutdown |

### How they interact

The updates stream of gotd calls the dispatcher; the dispatcher calls messageSink,
which writes the canonical row first and then hands the message to
`Engine.HandleNew`. A gap (`OnChannelTooLong`, `OnTooLong`) makes Recovery fetch a
page of history and call the same sink, the global one on a goroutine of its own
beside the channel workers. HandleNew keeps album members in the aggregator, from
which the album loop takes them when their timer is due, and runs every enabled
rule over single messages: match, observe, duplicate check, filters, then the task
channel. One consumer sends tasks through outbound delivery with up to three
attempts, records the message, ends it in the rule's tracker and writes the cursor.
A backfill, asked for in the console, feeds history from the cursor on through
HandleNew and waits until nothing is queued. The console also changes rules (the
handler writes the row, then the engine reads the list again) and settings (the
center writes the row, replaces its snapshot, then tells the engine). All shared
state is under small mutexes that are released before database and network calls. The
lifecycle runs each of these services under a supervisor.

### What is hard, and what makes each part correct

* **Cursor.** Messages of a rule end out of order and on two goroutines, the
  database writes race after the unlock. The cursor must be the largest ID below
  which nothing is unresolved, and the stored one must never be ahead or go back.
* **Engine.** Live stream, album loop, gap recovery, backfill and consumer
  interleave; calls fail; the operator pauses; the process dies. An ended message has
  a reason that the target channel bears out; a message the cursor passed and that
  nobody holds any more was lost in one of the ways the code is known to allow; a
  backfill ends, and with repeated backfills every message does.
* **Albums.** A member leaves once; no album is cut while it still grows within its
  window; none stays forever.
* **Rules.** A row changes, and with it a list in memory, while handlers work with
  copies of the list. The list must follow the table, and a message that a rule's
  cursor passes was seen by the rule or missed for a reason.
* **Canonical store.** Each write is a read and, separately, a transaction computed
  from it. The history has no hole or branch, the row agrees with it, answers are true.
* **Delivery.** A copy takes several calls, any of which may fail, also after it took
  effect; attempts, retries and a fallback start over. What is reported as sent is
  whole, a repetition has a cause, every job ends, and the disk is clean afterwards.
* **Texts.** Five limits per message, two parsers that must agree on what is code, a
  split that must not lose a line, positions counted in two units.
* **Lifecycle.** Signals, restart requests and failures race. The exit code is true,
  shutdown is in reverse order and complete, restarts back off, the process ends.
* **Settings.** A copy, a write and a replacement under separate holds of a lock: what
  is stored, what is in memory and what the engine uses must agree.
* **Wizard.** A caller waits with a timeout on channels of capacity one: an answer
  must be the answer to its question.
* **Ring.** A viewer subscribes, replays and streams while records are pushed to it
  outside the lock: nothing may be missed in between.
* **Web.** The limiter is asked and told in separate steps; the process may end while
  a write is served: a lock holds, and what took effect is audited.

## 2. Modules

| Module | Models | Composition |
|---|---|---|
| ContiguousWatermark | abstract: IDs enter, end, the watermark follows | implemented by RuleWatermark |
| CursorTracker | cursorTracker as operators over a record, and the engine's group loops | used by RuleWatermark, ForwardEngine |
| RuleWatermark | one rule: groups, racing AdvanceCursor, restart | refines ContiguousWatermark |
| AlbumAggregator | aggregator with time in ticks, and its replacement | |
| ForwardEngine | the engine with its stream, recovery, database and target channel | every rule refines RuleWatermark |
| RuleAdmin | rule and channel requests, the engine's list, matching | |
| Delivery | execute and everything below it, and the Rich channel | |
| RichText | what the Rich channel makes of a text | |
| CopyText | from a post to the requests of its copy | together with RichText in TextMC |
| SequenceFolds | the loops over a sequence both have, as recursive functions | used by RichText, CopyText |
| MessageStore | one canonical message under overlapping calls | |
| Lifecycle | App: supervisors, exit code, shutdown | |
| SettingsCenter, LoginWizard, LogStream, WebAccess | the four parts behind the console | together in ConsoleMC |
| CursorTracker_proofs, RuleWatermark_proofs, ForwardEngine_proofs | theorems about the cursor, one rule, the engine | each uses the ones before it |
| Intake_proofs | theorems about AlbumAggregator and RuleAdmin | |
| Delivery_proofs, MessageStore_proofs | theorems about the module each is named after | |
| Operation_proofs | theorems about the four console parts and about Lifecycle | over ConsoleMC's `ConsoleSpec` and Lifecycle's `Spec` |
| Text_proofs | theorems about RichText and CopyText | over TextMC's joint `Spec` |
| *MC | constants for TLC; ConsoleMC and TextMC also join parts that share nothing | |

ForwardEngine is the abstract form of two others: it takes a send as one post with an
outcome, which Delivery takes apart, and matching as given, which RuleAdmin takes apart.

**RuleWatermark.** `tracker` is one cursorTracker; `FinishTerminals(g)` is the loop
of finishTerminals under trackMu, with the captured cursor going to `writes`;
`AdvanceCursor` takes any element of it (`GREATEST` in the statement);
`Restart` builds the tracker from the stored cursor as trackerForLocked does.

**AlbumAggregator.** Timers are counters that a `Tick` takes down. `AddStore` and
`AddFlush` are the two ways through Add; `FlushDue`, `FlushAll` pop
groups; `ApplySettings` flushes what is due and replaces the aggregator.

**ForwardEngine.** A program counter for each goroutine that may run processRule: `live`
(the channel's updates worker, which also refills a gap), `loop` (the album loop) and
one for each backfill request; and the consumer. Each lock hold, database call and
channel operation is a step. `Deliver` hands over a batch of updates, whose rest is
dropped at the first error (`BatchFails`); a gap is refilled (`ChannelGap`, in which a
failed write costs one message, `WriteNewFails`) or given up (`ChannelGapFails`). Every
failing call consumes from a bound `MaxFaults`. The target channel is the history of
posts. A message's text is one of a few classes, which is what content deduplication and
filters see. `RuleOrder` stands for the rule cache.

**RuleAdmin.** A request is the statements of its handler, each a step that may fail (or
take effect behind an error), and then RefreshRules: the list is read in one step and
stored in another. `"run"` is the same refresh by Engine.Run itself. A handler goroutine
copies the list and tries one rule after the other, by source and then by the cached
username; a rule that matches takes the message in one step.

**Delivery.** A sender is the engine's consumer or a caller of the Rich channel; `at[s]`
is its place and its locals, `calls` and `tries` the code's own counters. Every call to
Telegram, the Bot API or the AI endpoint is a step with all its outcomes; nothing bounds
how often calls fail. Directories, the two copies of the size limit and the capability
flag are variables. `posts` is the history of what appeared in the target channel.

**RichText.** A line is what the predicates of the code tell apart: a class, a length,
a number (depth, cells, kind of fence), the traits that cut across classes (may stand above
a Setext underline, is indented, ends a formula, holds `</table>`), and how many rows and
cells of an HTML table begin and end in it. What one rewriting makes of a line (tags
stripped, headings repaired, URLs linked) is the constant `Rewrites`, which may turn any line
into any other and that one into a third: nothing makes it idempotent. The stages of
richRouter follow one another: normalized, parsed, split, sent; or unsendable, or a panic.

**CopyText.** A text is a sequence of letters with their width in UTF-16 units; an entity
has a type, an offset and a length. The stages are conversion, the verdict of the filters
on the group's view, composition with the footer, rewriting, segments.

**MessageStore.** A call is its findByRef and its transaction, with a read in
between for the edit of an unknown message. A transaction is one step because
InnoDB keeps the row (or key) locked until it ends; a commit whose answer is lost
leaves it in the server (`limbo`) holding the lock while its caller goes on, until
`LateEnd` ends it either way.

**Lifecycle.** A supervisor is `running`, `returned` (runGuarded came back, the
context not yet looked at), `failed` (decided for coreFatal), `waiting`, `stopped`, or
`hung`: a service of `MayHang` that did not return when it was cancelled.
Setting the restart flag and cancelling are two steps. Time is only the length of a
run and the backoff, in units of the base.

**SettingsCenter.** A request copies the snapshot and patches the copy, validates it,
writes the row, replaces the snapshot, and tells the subscriber, who reads the snapshot
in one step and applies it in the next.

**LoginWizard.** A login is its runner's place, its context and its three channels of
capacity one; a caller sends its input and waits, both with a timeout.

**LogStream.** A logger appends under the lock and pushes to each subscriber of that
moment in a later step; a viewer subscribes, takes the snapshot, replays it, streams.

**WebAccess.** A login asks the limiter, then fails or resets, then creates its session;
a write enters, takes effect or not, and is audited; the server's Run returns before it
is drained. Time is a clock of a few ticks.

## 3. Runs

| Run | Question | Bounds |
|---|---|---|
| rule_watermark | is the cursor the contiguous watermark, does the database stay behind it, and does the machine refine the abstract one | IDs 1..4, groups of any of them, restarts at any moment |
| album | do members leave once, on time, under the window in force | two albums of two and one members, each member up to twice, three windows (one invalid), one reconfiguration, silence measured up to four ticks (the longest hard deadline) |
| album_reconfig_loses | finding: a new window drops what is collected | as above, each member once |
| engine_faults | are losses and double posts only the known ones; does each rule keep the watermark of RuleWatermark | an album of two and a single message in batches of any size, one rule, a queue of one, one fault, a gap (refilled up to two messages, or not at all), a pause, a process end |
| engine_backfill | has every ended message a cause while a backfill races the stream | two rules with one target, two messages, content deduplication, page of one, two attempts, two faults |
| engine_recovery | does every message end, does every backfill return | one rule, two messages, two attempts, two faults, backfills asked for again and again |
| rule_admin | does the list follow the table, is a message passed by only for a cause | one rule on two channels (two messages, one message), one name, three forms of the rule, one request beside Engine.Run's refresh, two requests in a row, one fault, one process end |
| delivery | is what is sent whole, repeated only for a cause; limits, directories, termination | the engine's consumer with every kind of task, or two Rich callers; contents of two, one and no messages, texts of two or one segments, two limits, three attempts, one retry per call, three rewriting attempts, one process end, any number of failures |
| text | limits, nothing lost, code untouched, verdict on the group, entities keep their letters | every sequence of up to three of 15 common, of 15 rare or of 14 lines that rewriting changes once or twice, up to six lines of pipe tables, five of HTML tables with no, one or two rows in a line, four of HTML tables with a pipe divider or with content beside a tag, seven around a fence, six of formulas that meet fences, with limits of 7 runes, 2 blocks, depth 2, one attachment, two columns; texts of up to five letters against a limit of three, albums of two, 12 rules |
| message_store | do history, row and answers agree under overlap and failure | four calls, two texts, symmetry in both |
| lifecycle | exit code, order, backoff, restarts, termination | services core / degradable / core, of which the second may hang, three failed runs each, backoff 1..3, StableRun 6 |
| console | does a viewer get everything, a caller its own answer; do settings agree, locks hold, writes leave an audit | five records, two loggers, one viewer, a ring of two, channels of one; two callers, two logins, three calls, one session at a time; two requests on two fields with three values, three updates, one restart; four web requests, two failures to a lock of two ticks, sessions of two ticks |

**Why the bounds are enough to be of use.** Each hazard in PROJECT.json needs at most
two messages that end in the wrong order and a third that reveals it, one failing call,
or two overlapping writers and one that observes; the runs give one more than that where
it is affordable. Every action of a specification fires in a run. The proofs remove the
bounds from every safety property (section 5). `MaxFaults`, `MaxOps`, `MaxEnds` and the
other caps only limit how often the environment acts, never what the program does next.
In particular:

* The three attempts of sendWithRetry are one in engine_faults (where a failure is final
  at once) and two in engine_backfill and engine_recovery (with a failure that is tried
  again, after the message was posted or not, and one that is final); delivery has all three.
* In delivery the engine and the Rich callers run apart: the only state both touch is the
  Outbound, which keeps none; the callers run together, because they share the
  capability flag. botapi's retries are one instead of three: a loop of the same step.
* In text the limits are scaled down so that a line can be over, at and under each of
  them, and a block can be split in three. The exhaustive sequences of three lines hold every
  pair of neighbouring constructs; the longer ones are those in which a table or a fence is
  split repeatedly, and those in which one construct takes a line of another for its own
  (`Hybrid`, `Maths`): the proofs asked for the exceptions these reach. `SmallRewrites` has
  lines that become plain text, a heading, an underline, an item, a fence or a blank, and two
  that one pass does not settle.
* In rule_admin one request beside the engine's own refresh already crosses two
  refreshes, and the two requests in a row give a change on top of a change; two HTTP
  requests at once cross in the same steps.
* In console the four parts share no variable and are one instance in which `part` says
  whom a behaviour is about. With a ring of two and five records everything may be
  overwritten twice; with one place in each channel every push may be refused.

Every property has a mutant: a definition of the model replaced by one with a
plausible bug (named `Mutant:` in the modules), with which TLC finds the property violated.

**Deadlock** is checked in rule_watermark and in delivery (whose environment can always
change the size limit, so that only EveryJobEnds would tell of a stuck sender). It
is off where a specification ends by itself: all calls made, all messages handled, all
texts sent, or the process ended.

## 4. Fairness

* AlbumAggregator: time passes (`Tick`) and the album loop, a ticker, calls FlushDue;
  nothing makes messages come.
* ForwardEngine `Scheduling`: the updates worker, the album loop, every backfill request
  and the consumer keep going (goroutines are scheduled, calls return, with or without an
  error). `RecoveringSpec` adds the operator who keeps asking for backfills, without which
  the code makes no promise to a message that failed.
* Delivery: each sender's goroutine keeps going once it has a job, and so does the cleanup
  at the engine's start. Remote calls end: the HTTP clients have timeouts; gotd's calls,
  on which the code sets no deadline, are taken to return an answer or an error, which is
  the library's contract. That a job ends is then the counting of the code; no fairness
  makes any call succeed.
* Lifecycle: supervisors and Run go on after their waits, and a running service
  returns *once the context is cancelled*, the contract of the interface Service, unless it
  is one of `MayHang` and hangs. The registered engine is such a service: its album loop
  pushes under `context.Background()` (engine.go:453), and waits for ever on a full queue
  that the consumer has left (finding 14); EndsOnceTold says that nothing but such a service
  holds the process up. No fairness on failures, signals, restart requests, readiness or
  hanging. Shutdown returning is also the contract; the code bounds it with a deadline.

RuleAdmin, MessageStore, the texts and the console have safety properties only.

## 5. Proofs

All proofs hold for every value of the constants: any number of messages, rules,
targets, services, callers, viewers, any capacities, limits and bounds. They rest on the
named assumptions next to the declarations of the constants (`MaxIdAssumption`,
`EngineAssumption`, `AlbumAssumption`, `RuleAdminAssumption`, `DeliveryAssumption`,
`NoTextAssumption`, `ServicesAssumption`, `BackoffAssumption`, `SettingsAssumption`,
`WebAssumption`, `LogAssumption`, `WizardAssumption`, `RichTextAssumption`,
`CopyTextAssumption`), which say what kind of value
each constant is, and on nothing else; TLC evaluates each of them in a run. (That of CopyText
also says that an entity lies within its text, as Telegram sends them.) Every safety
property of the passing runs is a theorem, one of them (CrashLoopBacksOff) for backoffs shorter
than a stable run.

* **CursorTracker_proofs**. TerminalAllFacts, about ending a whole group, is the lemma
  everything uses; GroupIsLoop shows that ending a group in one step, as the models do, is
  what the loop of finishTerminals does one ID at a time, in whatever order.
* **RuleWatermark_proofs**: TypeCorrect, CursorCorrect, DurabilityCorrect,
  DurableNeverBack, Refinement (of ContiguousWatermark). The invariant says that the
  terminals are exactly the ended IDs above the cursor, that every pending write carries an
  ended ID, that the stored cursor is the first one or an ended ID, and that the tracker is
  `Sound` (what is unresolved or parked lies above the cursor, and nothing that could be
  popped is left). It is needed because the cursor alone does not say what ended behind the gap.
* **ForwardEngine_proofs**: TypeCorrect, EngineKeepsWatermarks (each rule of the engine
  implements RuleWatermark), EndsForACause (TerminalHasCause), LostForACause
  (LossHasCause), NothingSkipped (NoSkippedMessage), PostedOnce (OnceWhenUndisturbed),
  DurableNeverBack. `IInv` is types, `TrackersSound`, `CauseInv`, `Accounted` and
  `GroupsCovered`. The types also say which place of a handler goes with what it still
  has in hand. For the refinement, `WatermarkStep` states that what an action does to
  one rule is one of the steps of RuleWatermark or none; the proof has one lemma per
  action. `CauseInv` gives what is about to end its reason already: what the consumer
  records was posted, what it gives up was rejected. `Accounted`: every published
  message has ended for a rule, is being processed, has a cause to be missed (the write
  failed for it or before it in its batch, a pause, a gap not or not wholly refilled, a
  page, a process end, a cursor that was past it), or is still in a handler's hand or an
  album; `GroupsCovered`: the rules a handler is through with have the group it works
  on, so that letting go of the group loses nothing. Two theorems need invariants that
  hold only under their conditions. `InOrder` (one rule, no albums, no gap): below a
  message that the rule has met, or that the queue or the consumer holds, the rule has
  all; below one in a handler's hand it has all or the same handler holds it, in order.
  The cursor thus cannot pass what was not met. `PostedApart` (nothing fails, nothing is
  fed twice): a message is in one place before the handlers (`Apart`); queued, being
  sent and posted exclude each other for each rule (`Flying`); what is out for a rule
  has left the handlers for it (`Past`).
* **Intake_proofs**: for albums NothingVanishes (Conservation) and CutOnlyWhenDue
  (DueMeansSilentOrLate). `AlbumIInv` adds that no message lies in an album that is not
  its own, and `TimersRight`: quiet timer and silence make up the window unless the hard
  deadline comes first. For rules CacheIsTrue (CacheFollowsRows) and MissedForACause
  (SkippedHasCause). `RuleIInv` says that a list read but not yet stored agrees with the
  rows unless a write came since (`ListsRight`), that a request about to write holds a
  decoded rule (`RequestsSound`), and that a message behind the stream is handled,
  excused or about to be taken by the handler that holds it (`Matched`).
* **Delivery_proofs**: SentMeansWhole, RepeatsHaveCause, StyleIsHonoured, DirsHaveCause,
  LimitIsHonoured, and SendersAreTyped, with `Owned`: each sender that is at work has an
  unfinished job that no other sender has. `IInv` says for each sender what its place
  means for the posts of its attempt (whole up to here, in order, one body), for the
  causes of a repetition, and for its directory; and for each job what stays true of it
  once it is over (`Closed`).
* **MessageStore_proofs**: HistoryContiguous, RowCorrect, AloneCorrect and DeletionHolds
  are the four properties of the run; TypeCorrect, OutcomesCorrect (answers are true)
  and AppendOnly (no step changes a revision) are proved and not run. `IInv` adds: a
  call that is to update or delete has read a revision not above the row's (`Reads`), at
  most one transaction is open in the server (`OneOpen`), only calls that are over have
  written (`Authors`), and a call that overlaps nothing still sees the store as it read
  it (`Solo`). The key lemma FreshIsNewest: if the revision after the one read is free,
  the one read is the newest, so what is written appends. The UNIQUE key thus does the
  work of a lock.
* **Operation_proofs**, about the process: TypeCorrect, ExitCodeCorrect,
  ShutdownCorrect, SupervisionCorrect (core services are not restarted), BackoffCorrect
  (CrashLoopBacksOff). `IInv` ties each place of a supervisor to the process: stopped
  means cancelled, failed means a core failure on its way to the exit code, past the
  wait means that all have stopped. The backoff has an invariant of its own, `Slowing`,
  which knows the wait before and after it is doubled. BackoffCorrect is stated for a
  backoff shorter than a stable run, as the defaults have it (finding 13).
* **Operation_proofs**, about the console: ConsoleInvariance and from it
  SettingsStayAgreed (SettingsAgree), LocksAreHeld (LockHolds), EveryWriteAudited
  (WritesAudited), NoRecordLost (ViewerHasAll), AnswersAreTrue (AnswersTrue). The parts
  share no variable, so that the invariant is a conjunction of four: what is stored, in
  memory or on the way was validated as a whole, and an update that is alone carries all
  before it (`SettingsIInv`); a lock that nobody took away is in the limiter until it
  ends, and a request takes effect no earlier than its audit stands next (`WebIInv`);
  the ring holds the last records in order, a record is in one logger's hands at most,
  and a viewer's screen, replay, channel, what rides to it and what was dropped together
  leave no gap (`LogIInv`); the inputs of a login that still works are as many as the
  calls that wait on it and those that gave up, and belong to them (`WizardIInv`).

* **Text_proofs**: WithinLimitsHolds, NothingLostHolds, NormalizerSoundHolds (RichText),
  JudgedWholeHolds, MarksStayHolds (CopyText), for all texts, rewritings, posts, rules
  and limits. The state machines are short pipelines; `RichShape`, `CopyVerdict` and
  `CopyMade` are the inductive invariants that say which operator of which input each
  variable holds. What has to be proved is about the operators, which go over texts of
  any length by recursive functions: each is first shown to be a `Run`, a function with
  a value per place that every step determines from the one before, and the rest are
  inductions over the places. `GatherRules` (a greedy grouping joins up to what it was
  given, and a group of more than one element keeps the bound) serves both the packing
  and the chunks of an oversized block, so that the limits and the completeness follow
  from the same lemma; `FlattenConcat` and its relatives say how flattening distributes.
  The limits are proved of the rows and cells a reader would count, from the fact that a
  table that is not crowded has at most one row in each line between its tags. For
  MarksStay, `SegmentsJoin` (the segments are the text) goes with a lemma that an entity
  clipped to a segment covers the letters of it that it covered, so that the parts cover
  together what the whole did. For the normalizer, `Reading` reads a text line by line
  and keeps what both functions of the code and the parser depend on: whether a fence is
  open, the code seen, whether a line could still be changed (`settled`), whether blank
  lines are as they should be (`spaced`). What the normalizer makes of a text whose
  lines one rewriting settles (`Settling`) is settled and spaced, and a settled and
  spaced text is left alone (`NormalizedTwice`); what is to be proved is that headings
  made of two lines, lines that become blank or become headings, and the collapse of
  blank lines make no new work; the code read is kept by either pass; and the parser
  finds the code that was read (`ParsedCode`) in texts with one kind of fence, unless a
  formula or a table swallows one.

A library theorem with an operator as parameter, like the induction over the naturals,
cannot be used with the provers at hand. Inductions are over sets instead: `LeastOf` and
`MinOf` take a least counterexample from the well-foundedness of `<`, and the induction
lemmas of Text_proofs (over `0 .. N`, upwards and downwards) are stated for the set of
places where the claim holds; functions that a lemma needs as an argument, like the body
of a fold, are passed as functions over a set of states.

**Only model-checked.** Liveness (EveryAlbumLeaves, EveryMessageEnds, BackfillReturns,
EveryJobEnds, EndsOnceTold): fairness and ENABLED are beyond the prover.

## 6. Abstractions

* ForwardEngine: one source channel; IncrStats, the random delay and copy mode are left
  out; a send is one post with an outcome; Exists and
  ExistsByContent of one message are one step; an edit among the updates of a batch appears
  only as the failure it may be; enqueued and settled are kept as their
  difference; where the updates stream resumes after a restart is
  nondeterministic. Rules do not change while it runs: that is RuleAdmin.
* RuleAdmin: a rule that takes a message ends it at once, so the cursor moves with the
  match; filters, duplicates, queue and failures are ForwardEngine's. Request decoding
  and validation are left out: a request is one that was found valid.
* Delivery: a text is "original" or "rewritten" with a number of segments; a file is its
  declared and its real size; entities and wording are CopyText's, the making of chunks
  RichText's. Waits between attempts take no time. Chat actions and the bot's other
  methods are single calls nobody waits on.
* RichText: what rewriting makes of a line is a table, the blanks taken off its end
  included; that the code does not rewrite inside inline code spans is part of that table. A
  blank line holds no spaces. Attachments and depths are those the code counts, and
  the columns of a pipe table those of its header; rows and cells of HTML tables are
  counted both as the code does and as a reader would. What the lines of a code block say
  is nothing to any predicate. A character is a rune.
* CopyText: a pattern is one letter or broken; a footer is a given text, its template's
  wording is left out; an album has two members.
* MessageStore: one message; media goes with the text; a first read that fails is
  a call not made. `deleted` stands for deleted_at and embedding_state.
* Lifecycle: services do what the interface asks, but for those of `MayHang`, which may
  stay in Run for ever. The findings tell how the engine does, and that the web server
  returns before its requests are drained.
* SettingsCenter: one scope of two fields, `Valid` asks that they be in order; the first row
  holds defaults, in some or all fields, so that Load, which validates nothing, meets only
  rows the center wrote. LoginWizard:
  the login protocol is gotd's; a submission ends in one of its answers; whether the
  context of a login outlives its request is taken both ways, although
  the one caller in the code gives it one that does not. LogStream: heartbeats are
  left out. WebAccess: tokens are named by their login; status pages are left out, and so
  is a handler that panics after its write: net/http recovers it, and no audit entry follows.

### Not modelled

* *Assembly* (app/production.go): wiring, once at start. What runs later in it (the sink,
  the subscriptions) is in the models of the parts it joins.
* *Availability tracker*: one state under a lock that no production code acts on.
* *Telegram client state* (peers, sessions, update states in MySQL): reads and writes of a
  row per key for the gotd library, which alone decides when.
* *Telegram clients*: configuration of the library's clients.
* *Database connection and migrations*: connection options and goose.
* *Domain types*: plain data. *Commands*: flags and wiring; the smoke commands are
  manual scripts against Telegram.
* In the updates dispatcher, GlobalGap over several channels appears only as overlapping
  calls on a message (MessageStore) and as a gap of one channel (ForwardEngine).

## 7. Findings

Where a property has to make room for what the code does against its docs or comments, the
exception is named in the property and the finding quotes the line (all in
PROJECT.json, with a run where a run reaches it).

*Engine, albums, rules.* 1. `ApplySettings` drops the members in collection
(album_reconfig_loses). 2. What arrives while paused is passed by the cursor. 3. A
message that is queued passes the duplicate check again, when a backfill or a restart
feeds it a second time or another rule has the same target. 4. What a graceful stop
drops is passed by the next live message. 5. Newest-first recovery and collected albums
let the cursor overtake older messages. 6. A channel gap whose recovery fails is given
up, and the stream goes on behind it. 7. The first update that fails drops the rest of
its batch. 8. Two refreshes may leave an older list of rules in the cache.
9. A failed username lookup is remembered as "no username". 10. Changing a rule's source
keeps a cursor of another channel.

*Store, lifecycle.* 11. A repeated edit writes another revision. 12. An edit of an
unknown message can be absorbed by a concurrent insert. 13. The stable-run test counts
the backoff wait, so that a backoff as long as StableRun would be reset (the defaults
are 30 s and 1 min; the tests set it the other way round). 14. The engine's album loop
pushes under a context that nothing cancels: on a full queue it keeps Run, and with it
the process, from ending.

*Delivery.* 15. A network failure while an album's member is registered ends the album for
good. 16. The downloader keeps the size limit of the start. 17. A deleted source message is a
transient failure and blocks the cursor. 18. Captions are never split. 19. Nothing waits for
Telegram's FLOOD_WAIT: it is a failure like any other.

*Texts.* 20. A line "12." panics the block parser. 21. So does an oversized block of one
line in the splitter. 22. A table with too many rows but few characters goes out whole.
23. The pieces of an HTML table with several rows in a line have more rows than are
counted, and a row over several lines more cells. 24. A block's last line is taken for
its delimiter unseen, a row beside `<table>` or `</table>` is repeated in every piece,
and an HTML table whose second line is a pipe divider is taken for a pipe table. 25.
Normalizer and parser disagree on mixed fences, on a fence line within a formula or a
table, and on a fence that appears when a tag goes. 26. Rewriting a line may leave
something to rewrite, so that the normalizer is not idempotent ("# a # #", "<x<y>>", a
Setext heading with a URL or beside a tag). 27. A rule with only broken patterns accepts
nothing. 28. Entities of long texts are shifted behind wide characters.
29. Six types of entities lose their place.

*Console.* 30. The server's drain is not waited for. 31. A login's context ends with the
request that starts it. 32. Answers in the wizard do not say whose they are. 33.
Concurrent settings updates lose fields. 34. Records are pushed to channels that Close
has closed.

## 8. Plan

Done, in order of what a failure would cost: cursor, albums, engine, store, lifecycle;
then rules, delivery, texts, console; then the proofs of all safety properties, those of the
texts last. What is left:

1. **Rules by username alone**: a property needs the order in which a channel's messages and
   its name were seen; RuleAdmin has the steps, not the property.
2. **GlobalGap over several channels** in ForwardEngine.
