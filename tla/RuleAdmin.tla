------------------------------ MODULE RuleAdmin ------------------------------
(***************************************************************************)
(* The forwarding rules while they are administered: the handlers of       *)
(* internal/webapi/forwarding.go, the rows they write (ForwardRuleRepo,    *)
(* ChannelRepo), the engine's copy of the enabled rules                    *)
(* (Engine.RefreshRules), and the messages matched against that copy.      *)
(*                                                                         *)
(* Every database statement and every hold of rulesMu is a step.  What     *)
(* becomes of a message once a rule has taken it (deduplication, filters,  *)
(* queue, failures) is ForwardEngine's subject: here a rule takes it in    *)
(* one step, which ends with the cursor in the rule's row.                 *)
(***************************************************************************)
EXTENDS Integers, FiniteSetsExt

CONSTANTS
  Rules,          \* the IDs AUTO_INCREMENT will give
  Chats,          \* source channels
  Names,          \* usernames a channel may have
  Configs,        \* the rules that requests send: source, username, enabled
  NoName, Absent, \* no username; no row, or no entry of a map
  Requests,       \* HTTP requests served concurrently
  Registered,     \* the username each channel is first registered with, or Absent
  Last,           \* bound: Last[c] messages in source channel c
  MaxOps,         \* bound: administrative requests
  MaxFaults,      \* bound: failing database calls
  MaxEnds         \* bound: process ends

\* A rule as a request sends it, and as a row: with its cursor.
RuleConfigs == [source : Chats, name : Names \cup {NoName}, enabled : BOOLEAN]
RuleRows == [source : Chats, name : Names \cup {NoName}, enabled : BOOLEAN, cursor : Nat]

ASSUME RuleAdminAssumption ==
  /\ IsFiniteSet(Rules) /\ Rules = 1 .. Cardinality(Rules)
  /\ Chats # {} /\ Requests \cap {"live", "run"} = {}
  /\ Configs \subseteq RuleConfigs /\ Absent \notin RuleConfigs \cup RuleRows
  /\ Registered \in [Chats -> Names \cup {NoName, Absent}]
  /\ Last \in [Chats -> Nat] /\ {MaxOps, MaxFaults, MaxEnds} \subseteq Nat
  /\ NoName \notin Names /\ Absent \notin Names \cup {NoName}

Handlers == {"live"} \cup Requests

VARIABLES
  row,        \* forward_rules: row[r] is a rule or Absent
  lastId,     \* the last ID AUTO_INCREMENT gave
  channels,   \* channels: the username of each registered channel, or Absent
  published,  \* newest message of each channel
  delivered,  \* newest message of each channel the updates stream is past
  cache,      \* Engine.rulesCache: what ListEnabled returned, by rule
  byName,     \* Engine.hasUsernameRules
  usernames,  \* Engine.usernames; Absent where nothing was looked up yet
  trackers,   \* Engine.trackers: the cursor of each, or Absent
  loaded,     \* Engine.Run has loaded the rules
  req,        \* the requests, and the refresh of Engine.Run itself ("run")
  handler,    \* the goroutines in processGroup
  handled,    \* history: the messages each rule has taken
  excused,    \* history: the messages each rule missed for a known cause
  outdated,   \* history: a refresh failed, or stored a list no longer true
  used        \* how much of each bound is used up

engine  == <<cache, byName, usernames, trackers, loaded>>
traffic == <<published, delivered>>
vars == <<row, lastId, channels, published, delivered, cache, byName, usernames, trackers,
          loaded, req, handler, handled, excused, outdated, used>>
-----------------------------------------------------------------------------
(* A rule, as far as matching and the cursor go.                           *)
RuleOf(c, cursor) == [source |-> c.source, name |-> c.name,
                      enabled |-> c.enabled, cursor |-> cursor]
NoRules == [r \in Rules |-> Absent]
Present(f) == {r \in Rules : f[r] # Absent}

\* ForwardRuleRepo.ListEnabled.
ListEnabled ==
  [r \in Rules |-> IF row[r] # Absent /\ row[r].enabled THEN row[r] ELSE Absent]

IdleRequest == [pc |-> "idle", op |-> "none", rule |-> 0, arg |-> Absent,
                held |-> NoRules, clean |-> TRUE]
RunStarts == [IdleRequest EXCEPT !.pc = "list"]
IdleHandler == [chat |-> Absent, feed |-> {}, msg |-> 0, todo |-> NoRules]
Free(h) == handler[h] = IdleHandler

Limit == [ops |-> MaxOps, faults |-> MaxFaults, ends |-> MaxEnds]
Spend(b) == used[b] < Limit[b] /\ used' = [used EXCEPT ![b] = @ + 1]

\* The first process starts on a database that may hold rule 1 already.
Init ==
  /\ \E c \in Configs \cup {Absent} :
       /\ row = [r \in Rules |-> IF r = 1 /\ c # Absent THEN RuleOf(c, 0) ELSE Absent]
       /\ lastId = IF c = Absent THEN 0 ELSE 1
  /\ channels = Registered
  /\ published = [c \in Chats |-> 0] /\ delivered = published
  /\ cache = NoRules /\ byName = FALSE /\ loaded = FALSE
  /\ usernames = [c \in Chats |-> Absent]
  /\ trackers = NoRules
  /\ req = [q \in Requests \cup {"run"} |-> IF q = "run" THEN RunStarts ELSE IdleRequest]
  /\ handler = [h \in Handlers |-> IdleHandler]
  /\ handled = [r \in Rules |-> {}] /\ excused = handled
  /\ outdated = FALSE
  /\ used = [b \in DOMAIN Limit |-> 0]
-----------------------------------------------------------------------------
(* The rule handlers: POST, PUT, DELETE, /enable and /disable.             *)

Goto(q, pc) == req' = [req EXCEPT ![q].pc = pc]
At(q, pc) == req[q].pc = pc

\* Whatever happens to rows or cache, a list read before is no longer clean.
Soiled(q, f) == [p \in DOMAIN f |-> IF p # q /\ f[p].pc = "store"
                                    THEN [f[p] EXCEPT !.clean = FALSE] ELSE f[p]]

\* A request was decoded and found valid.
BeginRule(q) ==
  /\ q \in Requests /\ At(q, "idle") /\ Free(q) /\ Spend("ops")
  /\ \/ \E op \in {"create", "update"}, r \in 1 .. lastId \cup {0}, c \in Configs :
          /\ IF op = "create" THEN r = 0 /\ lastId + 1 \in Rules ELSE r # 0
          /\ req' = [req EXCEPT ![q] = [IdleRequest EXCEPT
                       !.op = op, !.rule = r, !.arg = c,
                       !.pc = IF op = "update" THEN "get" ELSE "write"]]
     \/ \E op \in {"delete", "enable", "disable"}, r \in 1 .. lastId :
          req' = [req EXCEPT ![q] = [IdleRequest EXCEPT
                       !.op = op, !.rule = r, !.pc = "write"]]
  /\ UNCHANGED <<row, lastId, channels, traffic, engine, handler, handled, excused, outdated>>

\* handleRuleUpdate reads the rule first: it answers 404 when it is gone.
GetRule(q) ==
  /\ At(q, "get")
  /\ Goto(q, IF row[req[q].rule] = Absent THEN "idle" ELSE "write")
  /\ UNCHANGED <<row, lastId, channels, traffic, engine, handler, handled, excused,
                 outdated, used>>

\* The row a request writes: Create takes the next ID.
RowOf(x) == IF x.op = "create" THEN lastId + 1 ELSE x.rule

\* The statements of Create, Update, Delete and SetEnabled.  Create leaves the
\* cursor NULL (read as 0) and Update leaves it alone; on a row that is gone
\* Update and SetEnabled change nothing.
Written(x) ==
  LET old == row[RowOf(x)] IN
  IF x.op = "create" THEN RuleOf(x.arg, 0)
  ELSE IF x.op = "delete" \/ old = Absent THEN Absent
  ELSE IF x.op = "update" THEN RuleOf(x.arg, old.cursor)
  ELSE [old EXCEPT !.enabled = x.op = "enable"]

Write(x) ==
  /\ RowOf(x) \in Rules
  /\ row' = [row EXCEPT ![RowOf(x)] = Written(x)]
  /\ lastId' = Max({lastId, RowOf(x)})

\* Mutant: PUT answers without refreshRules.
AfterWriteUnrefreshed(op) == IF op = "update" THEN "idle" ELSE "list"

\* Every handler that wrote goes on to refreshRules.
AfterWrite(op) == "list"

WriteRule(q) ==
  /\ At(q, "write")
  /\ Write(req[q])
  /\ req' = Soiled(q, [req EXCEPT ![q].pc = AfterWrite(req[q].op)])
  /\ UNCHANGED <<channels, traffic, engine, handler, handled, excused, outdated, used>>

\* The call fails: the handler answers 500 and refreshes nothing, although the
\* statement may have taken effect (the request's context ended too early).
StatementFails(q) ==
  /\ At(q, "get") \/ At(q, "write")
  /\ Spend("faults")
  /\ \/ req' = [req EXCEPT ![q] = IdleRequest] /\ UNCHANGED <<row, lastId, outdated>>
     \/ /\ At(q, "write")
        /\ Write(req[q])
        /\ req' = Soiled(q, [req EXCEPT ![q] = IdleRequest])
        /\ outdated' = TRUE
  /\ UNCHANGED <<channels, traffic, engine, handler, handled, excused>>

\* RefreshRules reads the list, and stores it under rulesMu in a later step.
RefreshLists(q) ==
  /\ At(q, "list")
  /\ req' = [req EXCEPT ![q] = [@ EXCEPT !.pc = "store", !.held = ListEnabled,
                                         !.clean = TRUE]]
  /\ UNCHANGED <<row, lastId, channels, traffic, engine, handler, handled, excused,
                 outdated, used>>

\* A handler only warns of a refresh that failed; Engine.Run returns the error
\* and the supervisor calls it again.
RefreshFails(q) ==
  /\ At(q, "list") /\ Spend("faults")
  /\ IF q = "run" THEN UNCHANGED <<req, outdated>>
     ELSE req' = [req EXCEPT ![q] = IdleRequest] /\ outdated' = TRUE
  /\ UNCHANGED <<row, lastId, channels, traffic, engine, handler, handled, excused>>

RefreshStores(q) ==
  /\ At(q, "store")
  /\ cache' = req[q].held
  /\ byName' = (\E r \in Present(cache') : cache'[r].name # NoName)
  /\ loaded' = (loaded \/ q = "run")
  /\ outdated' = ~req[q].clean
  /\ req' = Soiled(q, [req EXCEPT ![q] = IdleRequest])
  /\ UNCHANGED <<row, lastId, channels, traffic, usernames, trackers, handler, handled,
                 excused, used>>
-----------------------------------------------------------------------------
(* The channel handlers: the username is only looked at when a message     *)
(* comes, and the engine remembers what it saw.                            *)

GetChannel(c) == IF channels[c] = Absent THEN NoName ELSE channels[c]
Upserted(c, n) == [channels EXCEPT ![c] = n]

\* Two statements; the first, on channel_settings, touches nothing the program
\* reads, so that a failure between them leaves the channel as it was.
Deleted(c) == [channels EXCEPT ![c] = Absent]

UpsertChannel(c, n) ==
  /\ Spend("ops")
  /\ channels' = Upserted(c, n)
  /\ UNCHANGED <<row, lastId, traffic, engine, req, handler, handled, excused, outdated>>

DeleteChannel(c) ==
  /\ channels[c] # Absent /\ Spend("ops")
  /\ channels' = Deleted(c)
  /\ UNCHANGED <<row, lastId, traffic, engine, req, handler, handled, excused, outdated>>
-----------------------------------------------------------------------------
(* Messages.                                                               *)

Publish(c) ==
  /\ published[c] < Last[c]
  /\ published' = [published EXCEPT ![c] = @ + 1]
  /\ UNCHANGED <<row, lastId, channels, delivered, engine, req, handler, handled, excused,
                 outdated, used>>

\* The updates stream hands the next message of a channel to the engine.
Deliver(c) ==
  /\ Free("live") /\ delivered[c] < published[c]
  /\ delivered' = [delivered EXCEPT ![c] = @ + 1]
  /\ handler' = [handler EXCEPT !["live"] =
                   [@ EXCEPT !.chat = c, !.feed = {delivered[c] + 1}]]
  /\ UNCHANGED <<row, lastId, channels, published, engine, req, handled, excused, outdated, used>>

Current(r, v) == IF trackers[r] = Absent THEN v.cursor ELSE trackers[r]

\* POST .../backfill: the rule as cached, the history of its source above the
\* cursor.  A rule that is not in the cache is answered with 422.
Backfill(q, r) ==
  /\ At(q, "idle") /\ Free(q) /\ cache[r] # Absent
  /\ Spend("ops")
  /\ LET c == cache[r].source
         missing == {m \in 1 .. published[c] : m > Current(r, cache[r])}
     IN  /\ missing # {}
         /\ handler' = [handler EXCEPT ![q] = [@ EXCEPT !.chat = c, !.feed = missing]]
  /\ UNCHANGED <<row, lastId, channels, traffic, engine, req, handled, excused, outdated>>

\* The causes for which a rule that wants a message may not see it.
Wants(r, c) == row[r] # Absent /\ row[r].enabled /\ row[r].source = c
Refreshing == \E q \in DOMAIN req : req[q].pc \in {"list", "store"}
Excuse(r, c) == ~Wants(r, c) \/ ~loaded \/ outdated \/ Refreshing
Sees(r, c) == cache[r] # Absent /\ cache[r].source = c

Done(s) == IF s.feed = {} /\ s.todo = NoRules THEN IdleHandler ELSE s

\* processGroup takes the next message through a snapshot of the rules.
Snapshot(h) ==
  /\ handler[h].feed # {} /\ handler[h].todo = NoRules
  /\ LET s == handler[h]
         m == Min(s.feed)
     IN  /\ handler' = [handler EXCEPT ![h] = Done(
                          [s EXCEPT !.feed = @ \ {m}, !.msg = m, !.todo = cache])]
         /\ excused' = IF h # "live" THEN excused
                       ELSE [r \in Rules |-> IF ~Sees(r, s.chat) /\ Excuse(r, s.chat)
                               THEN excused[r] \cup {<<s.chat, m>>} ELSE excused[r]]
  /\ UNCHANGED <<row, lastId, channels, traffic, engine, req, handled, outdated, used>>

Next1(h) == Min(Present(handler[h].todo))
Version(h) == handler[h].todo[Next1(h)]

\* The next rule of the snapshot: a hit takes the message and moves the cursor
\* of the tracker, then of the row if it is still there.
Try(h, hit) ==
  LET r == Next1(h)  s == handler[h]  v == Version(h)
      cursor == Max({Current(r, v), s.msg})
  IN  /\ handler' = [handler EXCEPT ![h] = Done([s EXCEPT !.todo[r] = Absent])]
      /\ IF ~hit THEN UNCHANGED <<trackers, row, handled>>
         ELSE /\ trackers' = [trackers EXCEPT ![r] = cursor]
              /\ row' = IF row[r] = Absent \/ cursor = Current(r, v) THEN row
                        ELSE [row EXCEPT ![r].cursor = Max({@, cursor})]
              /\ handled' = [handled EXCEPT ![r] = @ \cup {<<s.chat, s.msg>>}]
      /\ UNCHANGED <<lastId, channels, traffic, cache, byName, loaded, req, excused, outdated>>

Busy(h) == handler[h].todo # NoRules

\* matchRule: the exact source first.
MatchSource(h) ==
  /\ Busy(h) /\ Version(h).source = handler[h].chat
  /\ Try(h, TRUE)
  /\ UNCHANGED <<usernames, used>>

NamesRule(h, n) == n # NoName /\ Version(h).name = n

\* Then the username, which lookupUsername has at hand.
MatchKnownName(h) ==
  /\ Busy(h) /\ Version(h).source # handler[h].chat
  /\ ~byName \/ usernames[handler[h].chat] # Absent
  /\ Try(h, byName /\ NamesRule(h, usernames[handler[h].chat]))
  /\ UNCHANGED <<usernames, used>>

\* Or reads from channels and remembers, an error as if there were none.
LookupUsername(h, n) ==
  /\ Busy(h) /\ Version(h).source # handler[h].chat
  /\ byName /\ usernames[handler[h].chat] = Absent
  /\ usernames' = [usernames EXCEPT ![handler[h].chat] = n]
  /\ Try(h, NamesRule(h, n))

MatchName(h) == LookupUsername(h, GetChannel(handler[h].chat)) /\ UNCHANGED used
LookupFails(h) == LookupUsername(h, NoName) /\ Spend("faults")

\* The process ends: the engine forgets, the messages in hand are not taken.
Restart ==
  /\ Spend("ends")
  /\ cache' = NoRules /\ byName' = FALSE /\ loaded' = FALSE /\ trackers' = NoRules
  /\ usernames' = [c \in Chats |-> Absent]
  /\ req' = [q \in DOMAIN req |-> IF q = "run" THEN RunStarts ELSE IdleRequest]
  /\ handler' = [h \in Handlers |-> IdleHandler]
  /\ excused' = [r \in Rules |-> excused[r] \cup
       UNION {{handler[h].chat} \X (handler[h].feed \cup {handler[h].msg}) : h \in Handlers}]
  /\ outdated' = FALSE
  /\ UNCHANGED <<row, lastId, channels, traffic, handled>>

Next ==
  \/ \E q \in DOMAIN req :
       \/ BeginRule(q) \/ GetRule(q) \/ WriteRule(q) \/ StatementFails(q)
       \/ RefreshLists(q) \/ RefreshFails(q) \/ RefreshStores(q)
  \/ \E q \in Requests, r \in Rules : Backfill(q, r)
  \/ \E c \in Chats, n \in Names \cup {NoName} : UpsertChannel(c, n)
  \/ \E c \in Chats : DeleteChannel(c) \/ Publish(c) \/ Deliver(c)
  \/ \E h \in Handlers :
       \/ Snapshot(h) \/ MatchSource(h) \/ MatchKnownName(h)
       \/ MatchName(h) \/ LookupFails(h)
  \/ Restart

Spec == Init /\ [][Next]_vars
-----------------------------------------------------------------------------
(* Properties.                                                             *)

ConfigOf(v) == IF v = Absent THEN Absent
               ELSE [source |-> v.source, name |-> v.name, enabled |-> v.enabled]

\* Between refreshes the engine works with exactly the enabled rules of the
\* database: unless a refresh failed, a statement took effect behind an error,
\* or two refreshes crossed, every handler left the cache up to date.
CacheFollowsRows ==
  loaded /\ ~outdated /\ ~Refreshing =>
    \A r \in Rules : ConfigOf(cache[r]) = ConfigOf(ListEnabled[r])

\* The live handler will still look for message m of channel c, or has it in
\* hand and is yet to try rule r on it.
InHand(r, c, m) ==
  LET s == handler["live"] IN
  /\ s.chat = c
  /\ m \in s.feed \/ (m = s.msg /\ s.todo[r] # Absent)

\* Every message the updates stream is past was, for every rule (and so for
\* each whose cursor it lies below, which no backfill will bring it again),
\* taken, is in hand, or was missed for a cause: the rule did not want it then,
\* or the engine's list was not yet loaded, not up to date or being refreshed,
\* or the process ended (processGroup, RefreshRules and the rule handlers).
SkippedHasCause ==
  \A r \in Rules, c \in Chats : \A m \in 1 .. delivered[c] :
    <<c, m>> \in handled[r] \cup excused[r] \/ InHand(r, c, m)

=============================================================================
