------------------------------ MODULE Delivery ------------------------------
(***************************************************************************)
(* How a copy leaves the program: the consumer's execute / sendWithRetry / *)
(* sendOnce (internal/forwarding/engine.go) over telegram.Outbound and     *)
(* MediaDownloader, the AI rewriting before it, and the Rich channel       *)
(* (richRouter over botapi.Client) that shares the Outbound.               *)
(*                                                                         *)
(* Every call to Telegram, the Bot API or the AI endpoint is a step, and   *)
(* any of them may fail, also after the server has acted on it.  Nothing   *)
(* bounds the failures: what ends a job is the code's own counting.  What  *)
(* the engine does with a result (record, cursor) is ForwardEngine's       *)
(* subject; here a result is only kept.                                    *)
(***************************************************************************)
EXTENDS Integers, Sequences, SequencesExt, FiniteSetsExt

CONSTANTS
  Engine,             \* the engine's one consumer
  Callers,            \* goroutines that send Content over the Rich channel
  Given,              \* Given[s]: what sender s may be given to send
  Segments,           \* Segments[body]: splitLongText's pieces of a text
  Limits,             \* values of media_max_size (0 = no limit)
  SendMaxAttempts,    \* sendMaxAttempts, 3 in the code
  CallMaxRetries,     \* botapi's maxRetries, 3 in the code
  RewriteMaxAttempts, \* rewriteMaxAttempts, 3 in the code
  Loads,              \* bound: how many jobs each sender is given
  MaxEnds             \* bound: process ends

Kinds == {"text", "files", "forward", "rich"}
JobSet == [kind : Kinds, footer : BOOLEAN, ai : BOOLEAN, chunks : Nat,
           style : {"auto", "rich"}, media : Seq([declared : Nat, real : Nat])]

ASSUME DeliveryAssumption ==
  /\ Engine \notin Callers
  /\ DOMAIN Given = {Engine} \cup Callers
  /\ \A s \in DOMAIN Given : \A j \in Given[s] :
       /\ j \in JobSet /\ (j.kind = "rich") = (s \in Callers)
       /\ (j.kind = "files") = (j.media # <<>>)
       /\ j.footer => j.kind # "rich"
  /\ Segments \in [{"original", "rewritten"} -> Nat \ {0}]
  /\ Limits # {} /\ Limits \subseteq Nat
  /\ {SendMaxAttempts, RewriteMaxAttempts} \subseteq Nat \ {0}
  /\ Loads # {} /\ Loads \subseteq [{Engine} \cup Callers -> Nat]
  /\ {CallMaxRetries, MaxEnds} \subseteq Nat

Senders == {Engine} \cup Callers

VARIABLES
  at,        \* each sender's goroutine: where it is and its locals
  load,      \* how many jobs each sender will still be given
  job,       \* the jobs given out so far
  result,    \* what became of each: "none" while it is being sent
  disabled,  \* richRouter.disabled
  limit,     \* params.MediaMaxSizeBytes
  cap,       \* MediaDownloader.maxBytes
  tmp,       \* fwd-* directories on disk
  cancelled, \* the engine's context
  ends,      \* how many times the process ended
  posts,     \* history: what each job put into the target channel
  undone,    \* history: failed calls of each job that had left something there
  why,       \* history: why Telegram or a limit refused each job for good
  asked,     \* history: jobs whose Rich form the server or a limit refused
  late,      \* history: file jobs tried after the limit had changed
  stale      \* history: directories whose removal failed or whose process ended

vars == <<at, load, job, result, disabled, limit, cap, tmp, cancelled, ends,
          posts, undone, why, asked, late, stale>>
shared == <<load, disabled, limit, cap, cancelled, ends>>

Idle == [pc |-> "idle", id |-> 0, tries |-> 0, calls |-> 0, piece |-> 0, body |-> "original",
         footers |-> 0, limit |-> 0, refetched |-> FALSE, raw |-> FALSE]

JobOf(s) == job[at[s].id]
Dir(s)   == <<at[s].id, at[s].tries>>
-----------------------------------------------------------------------------
(* NewOutbound, NewMediaDownloader and NewEngine: the process starts.      *)
Init ==
  /\ at = [s \in Senders |-> IF s = Engine THEN [Idle EXCEPT !.pc = "starting"] ELSE Idle]
  /\ load \in Loads
  /\ job = <<>> /\ result = <<>> /\ posts = <<>> /\ undone = <<>> /\ why = <<>>
  /\ disabled = FALSE /\ cancelled = FALSE /\ ends = 0
  /\ limit \in Limits /\ cap = limit
  /\ tmp = {} /\ stale = {} /\ asked = {} /\ late = {}

\* Mutant: the directories of an earlier process are left where they are.
CleanedNothing(dirs, failed) == dirs

(* cleanupStaleTemp, at the start of Engine.Run; a removal may fail.       *)
Cleaned(dirs, failed) == dirs \cap failed

CleanupStaleTemp ==
  /\ at[Engine].pc = "starting"
  /\ at' = [at EXCEPT ![Engine] = Idle]
  /\ \E failed \in SUBSET tmp : tmp' = Cleaned(tmp, failed) /\ stale' = failed
  /\ UNCHANGED <<job, result, posts, undone, why, asked, late, shared>>

(* execute receives a task, or a caller calls SendText with Content.       *)
Begin(s) ==
  /\ at[s].pc = "idle" /\ load[s] > 0
  /\ load' = [load EXCEPT ![s] = @ - 1]
  /\ \E j \in Given[s] :
       /\ job' = Append(job, j)
       /\ at' = [at EXCEPT ![s] = [Idle EXCEPT !.pc = IF s = Engine THEN "delay" ELSE "route",
                                               !.id = Len(job) + 1]]
  /\ result' = Append(result, "none") /\ posts' = Append(posts, <<>>)
  /\ undone' = Append(undone, 0) /\ why' = Append(why, "none")
  /\ UNCHANGED <<tmp, asked, late, stale, disabled, limit, cap, cancelled, ends>>
-----------------------------------------------------------------------------
(* The steps' common parts.                                                *)
Goto(s, r) == at' = [at EXCEPT ![s] = r]

Keeps == UNCHANGED <<job, result, posts, undone, why, tmp, asked, late, stale, shared>>

(* A return from sendAsFiles removes the task's directory (the deferred    *)
(* RemoveAll, whose error is ignored).                                     *)
RemoveDir(s) ==
  IF Dir(s) \notin tmp THEN UNCHANGED <<tmp, stale>>
  ELSE \/ tmp' = tmp \ {Dir(s)} /\ UNCHANGED stale
       \/ stale' = stale \cup {Dir(s)} /\ UNCHANGED tmp

Ends(s, r) == Goto(s, Idle) /\ result' = [result EXCEPT ![at[s].id] = r]

(* A piece appears in the target channel.                                  *)
Posted(s, form) ==
  posts' = [posts EXCEPT ![at[s].id] =
              Append(@, [form |-> form, try |-> at[s].tries, piece |-> at[s].piece,
                         body |-> at[s].body, footers |-> at[s].footers, limit |-> at[s].limit])]

(* History: a failure that leaves something of this attempt behind.        *)
InChannel(s) == \E k \in DOMAIN posts[at[s].id] : posts[at[s].id][k].try = at[s].tries
Leaves(s, effect) ==
  undone' = [undone EXCEPT ![at[s].id] = @ + IF effect \/ InChannel(s) THEN 1 ELSE 0]

(* An error reaches sendWithRetry, and with it classifyFailure: a          *)
(* permanent one ends the job, as does the last attempt; a cancelled       *)
(* context ends it without a verdict (execute).                            *)
Verdict(s, class) ==
  IF class = "permanent" THEN "permanent"
  ELSE IF at[s].tries + 1 < SendMaxAttempts THEN "again" ELSE "transient"

Fails(s, class) ==
  /\ RemoveDir(s)
  /\ IF s # Engine THEN Ends(s, "transient")
     ELSE IF Verdict(s, class) = "again"
     THEN Goto(s, [at[s] EXCEPT !.pc = "backoff"]) /\ UNCHANGED result
     ELSE Ends(s, IF cancelled THEN "dropped" ELSE Verdict(s, class))

FailsQuietly(s, class, reason) ==
  /\ Fails(s, class)
  /\ why' = IF reason = "none" THEN why ELSE [why EXCEPT ![at[s].id] = reason]
  /\ Leaves(s, FALSE)
  /\ UNCHANGED <<job, posts, asked, late, shared>>

(* What an MTProto call that posts may answer.  A lost answer is an error  *)
(* although the message is in the channel; it counts as transient.  An     *)
(* album with a member that is not registered is refused (MEDIA_INVALID).  *)
Finishes(s) == Ends(s, "sent") /\ RemoveDir(s)

\* Mutant: the next segment is the one just sent.
ProceedsInPlace(s) == Goto(s, at[s]) /\ UNCHANGED <<result, tmp, stale>>

Proceeds(s) == Goto(s, [at[s] EXCEPT !.piece = @ + 1]) /\ UNCHANGED <<result, tmp, stale>>

MTProto(s, last) ==
  \/ /\ ~at[s].raw /\ Posted(s, "plain")
     /\ IF last THEN Finishes(s) ELSE Proceeds(s)
     /\ UNCHANGED <<job, undone, why, asked, late, shared>>
  \/ /\ ~at[s].raw /\ Posted(s, "plain") /\ Leaves(s, TRUE) /\ Fails(s, "transient")
     /\ UNCHANGED <<job, why, asked, late, shared>>
  \/ FailsQuietly(s, "transient", "none")
  \/ FailsQuietly(s, "permanent", IF at[s].raw THEN "unregistered" ELSE "refused")
-----------------------------------------------------------------------------
(* execute, before the first attempt: the rule's delay, the rewriting, the *)
(* footer.  A timer and a cancelled context may both be ready: sleepCtx    *)
(* then picks either.                                                      *)
Wanted(j) == j.ai /\ j.kind # "forward"

\* Mutant: the footer is appended once more by every attempt.
FootedAgain(s) == IF JobOf(s).footer /\ JobOf(s).kind # "forward" THEN 1 + at[s].tries ELSE 0

Footed(s) == IF JobOf(s).footer /\ JobOf(s).kind # "forward" THEN 1 ELSE 0

Drop(s) == cancelled /\ Ends(s, "dropped") /\ UNCHANGED <<job, posts, undone, why, tmp, asked, late, stale, shared>>

Delay(s) ==
  /\ at[s].pc = "delay"
  /\ \/ Drop(s)
     \/ /\ Goto(s, [at[s] EXCEPT !.pc = IF Wanted(JobOf(s)) THEN "rewrite" ELSE "attempt"])
        /\ Keeps

(* Provider.Rewrite: only an API answer of 429 or 5xx is tried again; an   *)
(* error, or an empty text, leaves the original.                           *)
RewriteAgain(s) ==
  /\ at[s].pc = "rewrite" /\ at[s].calls + 1 < RewriteMaxAttempts
  /\ Goto(s, [at[s] EXCEPT !.calls = @ + 1])
  /\ Keeps

RewriteEnds(s) ==
  /\ at[s].pc = "rewrite"
  /\ \E body \in {"original", "rewritten"} :
       Goto(s, [at[s] EXCEPT !.pc = "attempt", !.calls = 0, !.body = body])
  /\ Keeps

(* sendOnce: the attempt is dispatched.  The footer is already part of the *)
(* text; inputPeer may fail; sendAsFiles checks the declared sizes against *)
(* the limit in force, then makes the task's directory.                    *)
Oversized(j, max) == \E k \in DOMAIN j.media : max > 0 /\ j.media[k].declared > max

Attempt(s) ==
  /\ at[s].pc = "attempt"
  /\ LET j == JobOf(s)
         r == [at[s] EXCEPT !.piece = 1, !.footers = Footed(s), !.limit = limit,
                            !.refetched = FALSE, !.raw = FALSE]
     IN \/ /\ j.kind \in {"text", "forward"}
           /\ \/ Goto(s, [r EXCEPT !.pc = IF j.kind = "text" THEN "segment" ELSE "forward"]) /\ Keeps
              \/ FailsQuietly(s, "transient", "none")
        \/ /\ j.kind = "files" /\ Oversized(j, limit)
           /\ FailsQuietly(s, "permanent", "too large")
        \/ /\ j.kind = "files" /\ ~Oversized(j, limit)
           /\ \/ /\ Goto(s, [r EXCEPT !.pc = "download"]) /\ tmp' = tmp \cup {Dir(s)}
                 /\ late' = IF limit = cap THEN late ELSE late \cup {at[s].id}
                 /\ UNCHANGED <<job, result, posts, undone, why, asked, stale, shared>>
              \/ FailsQuietly(s, "transient", "none")

\* Mutant: an attempt that failed is not counted.
BackoffUncounted(s) ==
  /\ at[s].pc = "backoff"
  /\ \/ Drop(s)
     \/ Goto(s, [at[s] EXCEPT !.pc = "attempt", !.piece = 0]) /\ Keeps

Backoff(s) ==
  /\ at[s].pc = "backoff"
  /\ \/ Drop(s)
     \/ /\ Goto(s, [at[s] EXCEPT !.pc = "attempt", !.tries = @ + 1, !.piece = 0])
        /\ Keeps
-----------------------------------------------------------------------------
(* sendTextMTProto: one message per segment, the first error ends it.      *)
Pieces(s) == Segments[at[s].body]

SendSegment(s) == at[s].pc = "segment" /\ MTProto(s, at[s].piece = Pieces(s))

(* ForwardMessages.                                                        *)
ForwardMessages(s) == at[s].pc = "forward" /\ MTProto(s, TRUE)
-----------------------------------------------------------------------------
\* Mutant: limitedWriter lets the last chunk through.
FitsLoosely(size, max) == max = 0 \/ size <= max + 1

(* limitedWriter: a write past the remaining budget is refused.            *)
Fits(size, max) == max = 0 \/ size <= max

(* DownloadMedia, one file of the group after the other: a fresh           *)
(* reference, then the stream; a reference that expired in between is      *)
(* fetched once more, with a new file and a new budget.  A source message  *)
(* that is gone is an error like any other.                                *)
Download(s) ==
  /\ at[s].pc = "download"
  /\ LET j == JobOf(s)
         size == j.media[at[s].piece].real
     IN \/ /\ Fits(size, cap)
           /\ Goto(s, IF at[s].piece = Len(j.media)
                      THEN [at[s] EXCEPT !.pc = "upload", !.piece = 1]
                      ELSE [at[s] EXCEPT !.piece = @ + 1, !.refetched = FALSE])
           /\ Keeps
        \/ /\ ~Fits(size, cap)
           /\ FailsQuietly(s, "permanent", IF size > at[s].limit THEN "too large" ELSE "capped")
        \/ ~at[s].refetched /\ Goto(s, [at[s] EXCEPT !.refetched = TRUE]) /\ Keeps
        \/ FailsQuietly(s, "transient", "none")
        \/ FailsQuietly(s, "permanent", "refused")

(* SendFiles: the uploads; the members of an album are registered one by   *)
(* one, and one that cannot be stays as it was uploaded (registeredMedias, *)
(* RegisteredInputMedia).  Then the group is posted in one call, the text  *)
(* as caption of its first member.                                         *)
Upload(s) ==
  /\ at[s].pc = "upload"
  /\ \/ /\ Goto(s, [at[s] EXCEPT !.pc = IF Len(JobOf(s).media) = 1 THEN "post" ELSE "register"])
        /\ Keeps
     \/ FailsQuietly(s, "transient", "none")

RegisteredMedias(s) ==
  /\ at[s].pc = "register"
  /\ \E failed \in BOOLEAN : Goto(s, [at[s] EXCEPT !.pc = "post", !.raw = failed])
  /\ Keeps

PostFiles(s) == at[s].pc = "post" /\ MTProto(s, TRUE)
-----------------------------------------------------------------------------
(* richRouter.send: the capability is read under mu and used after it.     *)
Fallback(s) == [at[s] EXCEPT !.pc = "fallback", !.piece = 0]

Route(s) ==
  /\ at[s].pc = "route"
  /\ LET j == JobOf(s)
     IN \/ /\ disabled /\ j.style = "rich" /\ Ends(s, "unavailable")
           /\ UNCHANGED <<job, posts, undone, why, tmp, asked, late, stale, shared>>
        \/ disabled /\ j.style # "rich" /\ Goto(s, Fallback(s)) /\ Keeps
        \/ /\ ~disabled /\ j.chunks = 0 /\ Goto(s, Fallback(s))
           /\ asked' = asked \cup {at[s].id}
           /\ UNCHANGED <<job, result, posts, undone, why, tmp, late, stale, shared>>
        \/ ~disabled /\ j.chunks > 0 /\ Goto(s, [at[s] EXCEPT !.pc = "chunk", !.piece = 1]) /\ Keeps

(* One attempt of Call: its answer, and what retryable and                 *)
(* classifyAndRecover make of it.                                          *)
ChunkAccepted(s) ==
  /\ at[s].pc = "chunk"
  /\ Posted(s, "rich")
  /\ IF at[s].piece = JobOf(s).chunks THEN Finishes(s)
     ELSE Goto(s, [at[s] EXCEPT !.piece = @ + 1, !.calls = 0]) /\ UNCHANGED <<result, tmp, stale>>
  /\ UNCHANGED <<job, undone, why, asked, late, shared>>

CallAgain(s) ==
  IF at[s].calls < CallMaxRetries
  THEN Goto(s, [at[s] EXCEPT !.calls = @ + 1]) /\ UNCHANGED result
  ELSE Ends(s, "transient")

\* 429, 5xx or no connection; the last may hide a message that was accepted.
ChunkRetryable(s) ==
  /\ at[s].pc = "chunk"
  /\ \E effect \in BOOLEAN :
       /\ IF effect THEN Posted(s, "rich") ELSE UNCHANGED posts
       /\ Leaves(s, effect)
  /\ CallAgain(s)
  /\ UNCHANGED <<job, why, tmp, asked, late, stale, shared>>

\* Mutant: a transient error falls back too.
ChunkFailsOver(s) ==
  /\ at[s].pc = "chunk"
  /\ Leaves(s, FALSE)
  /\ Goto(s, Fallback(s))
  /\ UNCHANGED <<job, result, posts, why, tmp, asked, late, stale, shared>>

\* Any other status, a cut or unreadable answer, a cancelled wait.
ChunkFails(s) ==
  /\ at[s].pc = "chunk"
  /\ \E effect \in BOOLEAN :
       /\ IF effect THEN Posted(s, "rich") ELSE UNCHANGED posts
       /\ Leaves(s, effect)
  /\ Ends(s, "transient")
  /\ UNCHANGED <<job, why, tmp, asked, late, stale, shared>>

\* 400 rejects the content, 404 the method: disable, and the MTProto fallback.
ChunkRejected(s) ==
  /\ at[s].pc = "chunk"
  /\ disabled' \in {disabled, TRUE}
  /\ Leaves(s, FALSE) /\ asked' = asked \cup {at[s].id}
  /\ Goto(s, Fallback(s))
  /\ UNCHANGED <<job, result, posts, why, tmp, late, stale, load, limit, cap, cancelled, ends>>

(* fallback: sendTextMTProto with the whole text.                          *)
StartFallback(s) ==
  /\ at[s].pc = "fallback"
  /\ \/ Goto(s, [at[s] EXCEPT !.pc = "segment", !.piece = 1]) /\ Keeps
     \/ FailsQuietly(s, "transient", "none")
-----------------------------------------------------------------------------
(* ApplySettings after a change of media_max_size, the end of the engine's *)
(* context, and the end of the process at any point.                       *)
ApplySettings ==
  /\ limit' \in Limits \ {limit}
  /\ UNCHANGED <<at, job, result, posts, undone, why, tmp, asked, late, stale,
                 load, disabled, cap, cancelled, ends>>

Cancel ==
  /\ ~cancelled /\ ends < MaxEnds
  /\ cancelled' = TRUE
  /\ UNCHANGED <<at, job, result, posts, undone, why, tmp, asked, late, stale,
                 load, disabled, limit, cap, ends>>

Restart ==
  /\ ends < MaxEnds
  /\ ends' = ends + 1
  /\ at' = [s \in Senders |-> IF s = Engine THEN [Idle EXCEPT !.pc = "starting"] ELSE Idle]
  /\ result' = [i \in DOMAIN result |-> IF result[i] = "none" THEN "lost" ELSE result[i]]
  /\ disabled' = FALSE /\ cancelled' = FALSE /\ cap' = limit
  /\ stale' = stale \cup tmp
  /\ UNCHANGED <<job, posts, undone, why, tmp, asked, late, load, limit>>

Step(s) ==
  \/ Delay(s) \/ RewriteAgain(s) \/ RewriteEnds(s) \/ Attempt(s) \/ Backoff(s)
  \/ SendSegment(s) \/ ForwardMessages(s)
  \/ Download(s) \/ Upload(s) \/ RegisteredMedias(s) \/ PostFiles(s)
  \/ Route(s) \/ ChunkAccepted(s) \/ ChunkRetryable(s) \/ ChunkFails(s) \/ ChunkRejected(s)
  \/ StartFallback(s)

Next ==
  \/ CleanupStaleTemp
  \/ \E s \in Senders : Begin(s) \/ Step(s)
  \/ ApplySettings \/ Cancel \/ Restart

(* A goroutine that is given a job keeps running: every remote call ends,  *)
(* the HTTP clients' by their timeouts; that gotd's do, with an answer or  *)
(* an error, is taken from the library: the code sets no deadline on them. *)
Spec == Init /\ [][Next]_vars /\ WF_vars(CleanupStaleTemp) /\ \A s \in Senders : WF_vars(Step(s))
-----------------------------------------------------------------------------
(* PROPERTIES *)

Jobs == DOMAIN job
FootersDue(j) == IF j.footer /\ j.kind # "forward" THEN 1 ELSE 0
Total(j, p) ==
  IF p.form = "rich" THEN j.chunks
  ELSE IF j.kind \in {"text", "rich"} THEN Segments[p.body] ELSE 1

\* The posts of one attempt of a job, by one of its two channels; the posts that
\* begin a copy.
Own(ps, try, form) == {k \in DOMAIN ps : ps[k].try = try /\ ps[k].form = form}
Firsts(ps) == {k \in DOMAIN ps : ps[k].piece = 1}

WholeCopy(j, ps) ==
  LET p   == Last(ps)
      own == Own(ps, p.try, p.form)
  IN /\ {ps[k].piece : k \in own} = 1 .. Total(j, p)
     /\ \A k, l \in own : k < l => ps[k].piece <= ps[l].piece
     /\ \A k \in own : ps[k].body = p.body /\ ps[k].footers = FootersDue(j)

(* Sent means sent: the attempt that succeeded put every piece of the text *)
(* into the channel, in order and of the same version, with the footer     *)
(* exactly once however often the task was tried (outbound.go:214-233,     *)
(* rich_outbound.go:107-121, engine.go:549-552).                           *)
SentIsWhole == \A i \in Jobs : result[i] = "sent" => WholeCopy(job[i], posts[i])

(* The beginning of a copy appears once, and once more at most for every   *)
(* failed call that had left something in the channel: the retries of      *)
(* sendWithRetry and Call and the fallback of the Rich channel start over  *)
(* (rich_outbound.go:115, engine.go:605-619), but nothing else repeats.    *)
CopiesHaveCause == \A i \in Jobs : Cardinality(Firsts(posts[i])) <= 1 + undone[i]

(* StyleRich is a hard requirement: such a content goes out over MTProto   *)
(* only after its own Rich form was refused, never because of a transient  *)
(* failure or of a channel that another sender found unsupported           *)
(* (rich_outbound.go:90-98, 127-138).                                      *)
StyleRichHonoured ==
  \A i \in Jobs \ asked :
    job[i].kind = "rich" /\ job[i].style = "rich" => \A q \in ToSet(posts[i]) : q.form = "rich"

(* A task's directory is on disk only while its attempt runs, or because   *)
(* its removal failed or its process ended, and then only until the engine *)
(* starts again (engine.go:703, 723-745).                                  *)
TempDirHasCause ==
  \A d \in tmp \ stale : d = Dir(Engine) /\ at[Engine].pc \in {"download", "upload", "register", "post"}

(* As long as media_max_size was not changed since the process started, no *)
(* file above it is copied, whatever size its message declared, and no     *)
(* group is given up for its size without such a file (engine.go:690-697,  *)
(* media.go:25-27).  After a change the stream keeps the old limit.        *)
SizeLimitHonoured ==
  \A i \in Jobs \ late :
    LET reals == {m.real : m \in ToSet(job[i].media)}
    IN /\ why[i] # "capped"
       /\ \A p \in ToSet(posts[i]) : \A size \in reals : p.limit = 0 \/ size <= p.limit

(* Every job ends, by the code's own counting of attempts, however many    *)
(* calls fail.                                                             *)
Pending(i) == i \in Jobs /\ result[i] = "none"
EveryJobEnds ==
  \A i \in UNION {1 .. SumSet({l[s] : s \in Senders}) : l \in Loads} : Pending(i) ~> ~Pending(i)
=============================================================================
