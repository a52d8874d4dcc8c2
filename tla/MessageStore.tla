---------------------------- MODULE MessageStore ----------------------------
(***************************************************************************)
(* One message of the canonical store: its row in `messages` and its rows  *)
(* in `message_revisions`, written by MessageRepository.WriteNew, WriteEdit *)
(* and WriteDelete (src/internal/platform/mysql/messages.go).              *)
(*                                                                         *)
(* Each call reads the row (findByRef) outside the transaction in which it *)
(* writes what it computed from that read, so a call is two steps, an edit *)
(* of an unknown message three.  The callers are the updates stream of a   *)
(* channel and the recovery of a global gap, which runs beside it: calls   *)
(* of all kinds may overlap.  A transaction is one step because InnoDB     *)
(* locks the row (or the unique key) until it ends; only a commit whose    *)
(* answer is lost stays in the server, holding its lock, after the call    *)
(* has returned.                                                           *)
(***************************************************************************)
EXTENDS Naturals

CONSTANTS
    Calls,      \* the calls of the repository, each made at most once
    Texts,      \* the contents a message can have
    NoText      \* the content of a deletion: NULL

ASSUME NoTextAssumption == NoText \notin Texts

VARIABLES
    row,        \* the row of `messages`
    revisions,  \* the rows of `message_revisions`
    pc,         \* where each call is
    op,         \* what each call writes
    text,       \* the content each call carries
    seen,       \* current_revision as the call's findByRef read it
    limbo,      \* the call whose transaction the server was left with, if any
    outcome,    \* what the call returned, or "none"
    alone,      \* history: no other call or open transaction ran beside it
    unseen      \* history: deletions that found no row

vars == <<row, revisions, pc, op, text, seen, limbo, outcome, alone, unseen>>

Outcomes == {"none", "recorded", "absorbed", "ignored", "conflict", "failed", "unknown"}

Revisions == [rev : Nat, kind : {"create", "edit", "delete"},
              text : Texts \cup {NoText}, by : Calls]

NoRow == [stored |-> FALSE, rev |-> 0, text |-> NoText, deleted |-> FALSE]

TypeOK ==
    /\ row \in [stored : BOOLEAN, rev : Nat, text : Texts \cup {NoText}, deleted : BOOLEAN]
    /\ row.stored => row.text \in Texts
    /\ revisions \subseteq Revisions
    /\ pc \in [Calls -> {"idle", "again", "insert", "update", "delete", "done"}]
    /\ op \in [Calls -> {"none", "new", "edit", "delete"}]
    /\ text \in [Calls -> Texts \cup {NoText}]
    /\ seen \in [Calls -> Nat]
    /\ limbo \subseteq Calls
    /\ outcome \in [Calls -> Outcomes]
    /\ alone \in [Calls -> BOOLEAN]
    /\ unseen \subseteq Calls

Init ==
    /\ row = NoRow
    /\ revisions = {}
    /\ pc = [c \in Calls |-> "idle"]
    /\ op = [c \in Calls |-> "none"]
    /\ text = [c \in Calls |-> NoText]
    /\ seen = [c \in Calls |-> 0]
    /\ limbo = {}
    /\ outcome = [c \in Calls |-> "none"]
    /\ alone = [c \in Calls |-> FALSE]
    /\ unseen = {}

-----------------------------------------------------------------------------
Running(c) == pc[c] \notin {"idle", "done"}

\* Call c goes on at step p, or returns with result r.
GoTo(c, p) == pc' = [pc EXCEPT ![c] = p] /\ UNCHANGED outcome
Return(c, r) ==
    /\ pc' = [pc EXCEPT ![c] = "done"]
    /\ outcome' = [outcome EXCEPT ![c] = r]

\* Call c begins as operation o with content t, and overlaps what is running.
Begin(c, o, t) ==
    /\ pc[c] = "idle"
    /\ op' = [op EXCEPT ![c] = o]
    /\ text' = [text EXCEPT ![c] = t]
    /\ alone' = [d \in Calls |-> IF d = c THEN \A e \in Calls : ~Running(e)
                                 ELSE alone[d] /\ ~Running(d)]
    /\ UNCHANGED <<row, revisions, limbo>>

\* messageSink.OnNew: WriteNew absorbs a message that is stored.
FindNew(c) == \E t \in Texts :
    /\ Begin(c, "new", t)
    /\ IF row.stored THEN Return(c, "absorbed") ELSE GoTo(c, "insert")
    /\ UNCHANGED <<seen, unseen>>

\* Mutant: An edit is handed to WriteNew although the message is known.
FindEditAsNew(c) == \E t \in Texts :
    /\ Begin(c, "edit", t)
    /\ GoTo(c, "again")
    /\ UNCHANGED <<seen, unseen>>

\* messageSink.OnEdit: the revision to write is computed from this read.
FindEdit(c) == \E t \in Texts :
    /\ Begin(c, "edit", t)
    /\ GoTo(c, IF row.stored THEN "update" ELSE "again")
    /\ seen' = [seen EXCEPT ![c] = row.rev]
    /\ UNCHANGED unseen

\* WriteEdit of an unknown message calls WriteNew, which looks once more.
FindAgain(c) ==
    /\ pc[c] = "again"
    /\ IF row.stored THEN Return(c, "absorbed") ELSE GoTo(c, "insert")
    /\ UNCHANGED <<row, revisions, op, text, seen, limbo, alone, unseen>>

\* messageSink.OnDelete: an unknown or deleted message is nothing to do.
FindDelete(c) ==
    /\ Begin(c, "delete", NoText)
    /\ IF row.stored /\ ~row.deleted THEN GoTo(c, "delete") ELSE Return(c, "ignored")
    /\ seen' = [seen EXCEPT ![c] = row.rev]
    /\ unseen' = IF row.stored THEN unseen ELSE unseen \cup {c}

\* A read that fails, or a context that is cancelled: nothing is written.
Fails(c) ==
    /\ pc[c] \in {"again", "insert", "update", "delete"} /\ c \notin limbo
    /\ Return(c, "failed")
    /\ UNCHANGED <<row, revisions, op, text, seen, limbo, alone, unseen>>

-----------------------------------------------------------------------------
(* The transactions. *)

\* Mutant: The schema without its UNIQUE key.
TakenNever(n) == FALSE

\* UNIQUE (message_id, revision)
Taken(n) == \E r \in revisions : r.rev = n

\* INSERT of a revision.
Append(c, n, kind, t) ==
    revisions' = revisions \cup {[rev |-> n, kind |-> kind, text |-> t, by |-> c]}

\* A transaction waits for the locks of one that has not ended.
Unlocked == limbo = {}

\* insertNew: INSERT ... ON DUPLICATE KEY UPDATE, then the create revision.
Inserted(c) ==
    /\ pc[c] = "insert" /\ ~row.stored
    /\ row' = [stored |-> TRUE, rev |-> 0, text |-> text[c], deleted |-> FALSE]
    /\ Append(c, 0, "create", text[c])

\* The transaction of WriteEdit; it does not look at deleted_at.
Updated(c) ==
    /\ pc[c] = "update" /\ ~Taken(seen[c] + 1)
    /\ row' = [row EXCEPT !.text = text[c], !.rev = seen[c] + 1]
    /\ Append(c, seen[c] + 1, "edit", text[c])

\* The transaction of WriteDelete: UPDATE ... WHERE deleted_at IS NULL, whose
\* count of rows is not looked at.  `deleted` stands for deleted_at and for
\* embedding_state = 'delete_pending', set by the same statement.
Deleted(c) ==
    /\ pc[c] = "delete" /\ ~Taken(seen[c] + 1)
    /\ row' = IF row.deleted THEN row
              ELSE [row EXCEPT !.deleted = TRUE, !.rev = seen[c] + 1]
    /\ Append(c, seen[c] + 1, "delete", NoText)

Written(c) == Inserted(c) \/ Updated(c) \/ Deleted(c)

\* WithTx: the statements succeed and so does the commit.
Commit(c) ==
    /\ Unlocked
    /\ Written(c)
    /\ Return(c, "recorded")
    /\ UNCHANGED <<op, text, seen, limbo, alone, unseen>>

\* insertNew finds the row of a concurrent call: RowsAffected is 0.
Absorbed(c) ==
    /\ Unlocked
    /\ pc[c] = "insert" /\ row.stored
    /\ Return(c, "absorbed")
    /\ UNCHANGED <<row, revisions, op, text, seen, limbo, alone, unseen>>

\* Mutant: Without the transaction: the row is updated although the revision is not.
ConflictKeepsRow(c) ==
    /\ Unlocked
    /\ pc[c] \in {"update", "delete"} /\ Taken(seen[c] + 1)
    /\ row' = IF pc[c] = "update" THEN [row EXCEPT !.text = text[c]] ELSE [row EXCEPT !.deleted = TRUE]
    /\ Return(c, "conflict")
    /\ UNCHANGED <<revisions, op, text, seen, limbo, alone, unseen>>

\* Mutant: A deletion whose revision is taken is taken for one that was done before.
ConflictIgnored(c) ==
    /\ Unlocked
    /\ pc[c] \in {"update", "delete"} /\ Taken(seen[c] + 1)
    /\ Return(c, IF pc[c] = "delete" THEN "ignored" ELSE "conflict")
    /\ UNCHANGED <<row, revisions, op, text, seen, limbo, alone, unseen>>

\* The revision is taken: the statement fails and everything is rolled back.
Conflict(c) ==
    /\ Unlocked
    /\ pc[c] \in {"update", "delete"} /\ Taken(seen[c] + 1)
    /\ Return(c, "conflict")
    /\ UNCHANGED <<row, revisions, op, text, seen, limbo, alone, unseen>>

\* The answer to COMMIT is lost: the call returns an error and is not made
\* again, the transaction stays in the server with its locks.
CommitUnknown(c) ==
    /\ Unlocked
    /\ \/ pc[c] = "insert" /\ ~row.stored
       \/ pc[c] \in {"update", "delete"} /\ ~Taken(seen[c] + 1)
    /\ limbo' = {c}
    /\ outcome' = [outcome EXCEPT ![c] = "unknown"]
    /\ UNCHANGED <<row, revisions, pc, op, text, seen, alone, unseen>>

\* The server ends the transaction it was left with, one way or the other.
LateEnd(c) ==
    /\ c \in limbo
    /\ Written(c) \/ UNCHANGED <<row, revisions>>
    /\ limbo' = {}
    /\ pc' = [pc EXCEPT ![c] = "done"]
    /\ UNCHANGED <<op, text, seen, outcome, alone, unseen>>

Next == \E c \in Calls :
    \/ FindNew(c) \/ FindEdit(c) \/ FindDelete(c) \/ FindAgain(c)
    \/ Fails(c) \/ Commit(c) \/ Absorbed(c) \/ Conflict(c)
    \/ CommitUnknown(c) \/ LateEnd(c)

Spec == Init /\ [][Next]_vars

-----------------------------------------------------------------------------
(* Properties. *)

\* The history of a message has no hole and no branch: whatever overlaps, its
\* revisions are numbered from 0 (the only `create`) to the current_revision of
\* the row, each once (the UNIQUE key in place of a lock, messages.go:130-145).
Contiguous ==
    /\ row.stored <=> revisions # {}
    /\ row.stored => \A n \in 0 .. row.rev : Taken(n)
    /\ \A r \in revisions : r.rev <= row.rev
    /\ \A r, s \in revisions : r.rev = s.rev => r = s
    /\ \A r \in revisions : r.kind = "create" <=> r.rev = 0

\* The row shows what the history says: the content of its last create or edit,
\* deleted exactly if there is a deletion, and one deletion at most, although
\* an edit does not look at deleted_at and a deletion not at the row count
\* (messages.go:128-173).
RowMatchesHistory ==
    /\ row.deleted <=> \E r \in revisions : r.kind = "delete"
    /\ \A r, s \in revisions : r.kind = "delete" /\ s.kind = "delete" => r = s
    /\ \A r \in revisions :
         r.kind # "delete" /\ (\A s \in revisions : s.rev > r.rev => s.kind = "delete")
           => row.text = r.text

\* What a call returns is true: a recorded call has exactly one revision, with
\* its content; one that was absorbed, ignored or refused, or failed, has none;
\* only a lost commit leaves the caller without an answer (database.go:30-51).
OutcomeHonest ==
    /\ \A r, s \in revisions : r.by = s.by => r = s
    /\ \A r \in revisions : outcome[r.by] \in {"recorded", "unknown"} /\ r.text = text[r.by]
    /\ \A c \in Calls : outcome[c] = "recorded" => \E r \in revisions : r.by = c

\* Calls that overlap nothing are never refused, and never lose an edit: the
\* conflict on the revision (messages.go:137) and the edit absorbed by another's
\* insert (messages.go:124-127) need a call beside them.
AloneTakesEffect == \A c \in Calls :
    alone[c] => /\ outcome[c] # "conflict"
                /\ op[c] = "edit" => outcome[c] # "absorbed"

\* A deletion that was acknowledged stays, except one that found no row: the
\* message that a slower call then inserts is never deleted (messages.go:153).
AcknowledgedDeletionHolds == \A c \in Calls :
    op[c] = "delete" /\ outcome[c] \in {"recorded", "ignored"} /\ c \notin unseen
      => row.deleted

\* The history is only appended to, and a deleted message does not come back
\* (docs/design/02-storage.md:157).
HistoryImmutable == [][revisions \subseteq revisions' /\ (row.deleted => row'.deleted)]_vars

=============================================================================
