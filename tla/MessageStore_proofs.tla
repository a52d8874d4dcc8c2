------------------------ MODULE MessageStore_proofs ------------------------
(***************************************************************************)
(* The history of a message is exact for any number of calls and contents.  *)
(*                                                                         *)
(* The argument: a call that writes has read a revision that is not above   *)
(* the row's (Reads); if the next number is free it has read the newest     *)
(* one, because the numbers in use are 0 .. row.rev (FreshIsNewest).  So a  *)
(* write always extends the history by exactly one revision, and a deletion *)
(* that writes has seen a row that is still not deleted.                    *)
(***************************************************************************)
EXTENDS MessageStore, TLAPS

\* What a call that is under way knows, and what it will write.
Reads == \A c \in Calls :
    /\ pc[c] \in {"update", "delete"} => row.stored /\ seen[c] <= row.rev
    /\ pc[c] = "delete" /\ row.deleted => seen[c] < row.rev
    /\ pc[c] = "delete" => op[c] = "delete" /\ text[c] = NoText
    /\ pc[c] \in {"again", "insert", "update"} => op[c] \in {"new", "edit"} /\ text[c] \in Texts
    /\ pc[c] \in {"idle", "again"} => outcome[c] = "none"
    /\ pc[c] \notin {"idle", "done"} => outcome[c] \in {"none", "unknown"}

\* The server is left with one transaction at most, of a call that wrote it.
OneOpen ==
    /\ \A c \in limbo : pc[c] \in {"insert", "update", "delete"} /\ outcome[c] = "unknown"
    /\ \A c, d \in limbo : c = d

\* Only calls that are over have written.
Authors == \A r \in revisions : pc[r.by] = "done"

\* A call that runs alone still sees the store as it found it.
Solo == \A c \in Calls :
    alone[c] /\ pc[c] \notin {"idle", "done"} =>
        /\ \A d \in Calls : d # c => pc[d] \in {"idle", "done"}
        /\ pc[c] \in {"update", "delete"} => seen[c] = row.rev
        /\ pc[c] \in {"again", "insert"} => ~row.stored

IInv ==
    /\ TypeOK /\ Contiguous /\ RowMatchesHistory /\ OutcomeHonest
    /\ AloneTakesEffect /\ AcknowledgedDeletionHolds
    /\ Reads /\ OneOpen /\ Authors /\ Solo
    /\ row.deleted => row.stored

-----------------------------------------------------------------------------
\* A call that finds the next number free has read the newest revision.
LEMMA FreshIsNewest ==
    ASSUME IInv, NEW c \in Calls, pc[c] \in {"update", "delete"}, ~Taken(seen[c] + 1)
    PROVE  seen[c] = row.rev /\ row.stored
<1>1. row.rev \in Nat /\ seen[c] \in Nat /\ row.stored /\ seen[c] <= row.rev
  BY DEF IInv, TypeOK, Reads
<1>2. \A n \in 0 .. row.rev : Taken(n)
  BY <1>1 DEF IInv, Contiguous
<1> QED
  BY <1>1, <1>2

-----------------------------------------------------------------------------
(* What a transaction does to the history. *)

\* The revision that call c adds, and the row it leaves.
Extends(c, n, k) ==
    /\ revisions' = revisions \cup {[rev |-> n, kind |-> k, text |-> text[c], by |-> c]}
    /\ row'.stored /\ row'.rev = n

\* The first revision creates the row.
LEMMA InsertExtends ==
    ASSUME IInv, NEW c \in Calls, Inserted(c)
    PROVE  /\ Extends(c, 0, "create") /\ revisions = {} /\ ~row.stored
           /\ row'.text = text[c] /\ ~row'.deleted /\ op[c] # "delete"
BY DEF IInv, Contiguous, Reads, Inserted, Append, Extends

\* An edit extends the history by the next revision.
LEMMA UpdateExtends ==
    ASSUME IInv, NEW c \in Calls, Updated(c)
    PROVE  /\ Extends(c, row.rev + 1, "edit") /\ row.stored
           /\ row'.text = text[c] /\ row'.deleted = row.deleted /\ op[c] # "delete"
<1>1. seen[c] = row.rev /\ row.stored
  BY FreshIsNewest DEF Updated
<1>2. row' = [row EXCEPT !.text = text[c], !.rev = row.rev + 1]
  BY <1>1 DEF Updated
<1>3. row'.stored /\ row'.rev = row.rev + 1 /\ row'.text = text[c] /\ row'.deleted = row.deleted
  BY <1>1, <1>2 DEF IInv, TypeOK
<1>4. op[c] # "delete"
  BY DEF IInv, Reads, Updated
<1> QED
  BY <1>1, <1>3, <1>4 DEF Updated, Append, Extends

\* A deletion extends it too, and has seen a row that was not deleted since.
LEMMA DeleteExtends ==
    ASSUME IInv, NEW c \in Calls, Deleted(c)
    PROVE  /\ Extends(c, row.rev + 1, "delete") /\ row.stored
           /\ row'.text = row.text /\ ~row.deleted /\ row'.deleted
           /\ op[c] = "delete" /\ text[c] = NoText
<1>1. seen[c] = row.rev /\ row.stored
  BY FreshIsNewest DEF Deleted
<1>2. ~row.deleted
  BY <1>1 DEF IInv, TypeOK, Reads, Deleted
<1>3. row' = [row EXCEPT !.deleted = TRUE, !.rev = row.rev + 1]
  BY <1>1, <1>2 DEF Deleted
<1>4. row'.stored /\ row'.rev = row.rev + 1 /\ row'.text = row.text /\ row'.deleted
  BY <1>1, <1>3 DEF IInv, TypeOK
<1>5. op[c] = "delete" /\ text[c] = NoText
  BY DEF IInv, Reads, Deleted
<1> QED
  BY <1>1, <1>2, <1>4, <1>5 DEF Deleted, Append, Extends

\* Every transaction that takes effect leaves a history without hole or branch.
LEMMA WrittenContiguous ==
    ASSUME IInv, NEW c \in Calls, Written(c)
    PROVE  Contiguous'
<1>0. /\ row.rev \in Nat
      /\ row.stored <=> revisions # {}
      /\ row.stored => \A n \in 0 .. row.rev : \E r \in revisions : r.rev = n
      /\ \A r \in revisions : r.rev <= row.rev /\ r.rev \in Nat
      /\ \A r, s \in revisions : r.rev = s.rev => r = s
      /\ \A r \in revisions : r.kind = "create" <=> r.rev = 0
  BY DEF IInv, Contiguous, TypeOK, Revisions, Taken
<1>1. CASE Inserted(c)
  <2>1. Extends(c, 0, "create") /\ revisions = {}
    BY <1>1, InsertExtends
  <2> QED
    BY <2>1 DEF Extends, Contiguous, Taken
<1>2. ASSUME NEW k \in {"edit", "delete"}, Extends(c, row.rev + 1, k), row.stored
      PROVE  Contiguous'
  <2> DEFINE new == [rev |-> row.rev + 1, kind |-> k, text |-> text[c], by |-> c]
  <2>1. revisions' = revisions \cup {new} /\ row'.stored /\ row'.rev = row.rev + 1
    BY <1>2 DEF Extends
  <2>2. new.rev = row.rev + 1 /\ new.kind = k /\ new.kind # "create" /\ new.rev # 0
    BY <1>0, <1>2
  <2>3. \A n \in 0 .. row'.rev : \E r \in revisions' : r.rev = n
    <3> SUFFICES ASSUME NEW n \in 0 .. row'.rev
                 PROVE  \E r \in revisions' : r.rev = n
      OBVIOUS
    <3>1. CASE n = row.rev + 1
      BY <2>1, <2>2, <3>1
    <3>2. CASE n # row.rev + 1
      <4>1. n \in 0 .. row.rev
        BY <1>0, <2>1, <3>2
      <4> QED
        BY <4>1, <1>0, <1>2, <2>1
    <3> QED
      BY <3>1, <3>2
  <2>4. \A r \in revisions' : r.rev <= row'.rev
    BY <1>0, <2>1, <2>2
  <2>5. \A r, s \in revisions' : r.rev = s.rev => r = s
    BY <1>0, <2>1, <2>2
  <2>6. \A r \in revisions' : r.kind = "create" <=> r.rev = 0
    BY <1>0, <2>1, <2>2
  <2>7. row'.stored <=> revisions' # {}
    BY <2>1
  <2> QED
    BY <2>3, <2>4, <2>5, <2>6, <2>7 DEF Contiguous, Taken
<1>3. CASE Updated(c)
  BY <1>2, <1>3, UpdateExtends
<1>4. CASE Deleted(c)
  BY <1>2, <1>4, DeleteExtends
<1> QED
  BY <1>1, <1>3, <1>4 DEF Written

\* Every transaction that takes effect leaves the row the history tells of.
LEMMA WrittenMatches ==
    ASSUME IInv, NEW c \in Calls, Written(c)
    PROVE  RowMatchesHistory'
<1>0. /\ row.rev \in Nat
      /\ \A r \in revisions : r.rev <= row.rev /\ r.rev \in Nat
      /\ row.deleted <=> \E r \in revisions : r.kind = "delete"
      /\ \A r, s \in revisions : r.kind = "delete" /\ s.kind = "delete" => r = s
      /\ \A r \in revisions :
           r.kind # "delete" /\ (\A s \in revisions : s.rev > r.rev => s.kind = "delete")
             => row.text = r.text
  BY DEF IInv, Contiguous, RowMatchesHistory, TypeOK, Revisions
<1>1. CASE Inserted(c)
  <2>1. /\ Extends(c, 0, "create") /\ revisions = {} /\ row'.text = text[c] /\ ~row'.deleted
    BY <1>1, InsertExtends
  <2> QED
    BY <2>1 DEF Extends, RowMatchesHistory
<1>2. CASE Updated(c)
  <2> DEFINE new == [rev |-> row.rev + 1, kind |-> "edit", text |-> text[c], by |-> c]
  <2>1. /\ revisions' = revisions \cup {new}
        /\ row'.text = text[c] /\ row'.deleted = row.deleted
    BY <1>2, UpdateExtends DEF Extends
  <2>2. new.kind = "edit" /\ new.text = text[c] /\ \A r \in revisions : new.rev > r.rev
    BY <1>0
  <2>3. row'.deleted <=> \E r \in revisions' : r.kind = "delete"
    BY <1>0, <2>1, <2>2
  <2>4. \A r, s \in revisions' : r.kind = "delete" /\ s.kind = "delete" => r = s
    BY <1>0, <2>1, <2>2
  <2>5. \A r \in revisions' :
           r.kind # "delete" /\ (\A s \in revisions' : s.rev > r.rev => s.kind = "delete")
             => row'.text = r.text
    BY <2>1, <2>2
  <2> QED
    BY <2>3, <2>4, <2>5 DEF RowMatchesHistory
<1>3. CASE Deleted(c)
  <2> DEFINE new == [rev |-> row.rev + 1, kind |-> "delete", text |-> text[c], by |-> c]
  <2>1. /\ revisions' = revisions \cup {new}
        /\ row'.text = row.text /\ row'.deleted /\ ~row.deleted
    BY <1>3, DeleteExtends DEF Extends
  <2>2. new.kind = "delete"
    OBVIOUS
  <2>3. row'.deleted <=> \E r \in revisions' : r.kind = "delete"
    BY <2>1, <2>2
  <2>4. \A r, s \in revisions' : r.kind = "delete" /\ s.kind = "delete" => r = s
    BY <1>0, <2>1, <2>2
  <2>5. \A r \in revisions' :
           r.kind # "delete" /\ (\A s \in revisions' : s.rev > r.rev => s.kind = "delete")
             => row'.text = r.text
    BY <1>0, <2>1, <2>2
  <2> QED
    BY <2>3, <2>4, <2>5 DEF RowMatchesHistory
<1> QED
  BY <1>1, <1>2, <1>3 DEF Written

\* The rest of what a transaction does, as the other calls see it.
LEMMA WrittenFacts ==
    ASSUME IInv, NEW c \in Calls, Written(c)
    PROVE  /\ \E n \in Nat, k \in {"create", "edit", "delete"} : Extends(c, n, k)
           /\ row' \in [stored : BOOLEAN, rev : Nat, text : Texts \cup {NoText}, deleted : BOOLEAN]
           /\ row'.stored /\ row'.text \in Texts
           /\ row.stored => row'.rev = row.rev + 1
           /\ row.deleted => row'.deleted
           /\ op[c] = "delete" => row'.deleted
           /\ pc[c] \in {"insert", "update", "delete"}
<1>0. row \in [stored : BOOLEAN, rev : Nat, text : Texts \cup {NoText}, deleted : BOOLEAN]
  BY DEF IInv, TypeOK
<1>1. CASE Inserted(c)
  <2>1. row' = [stored |-> TRUE, rev |-> 0, text |-> text[c], deleted |-> FALSE]
    BY <1>1 DEF Inserted
  <2>2. text[c] \in Texts /\ op[c] # "delete" /\ pc[c] = "insert" /\ ~row.stored /\ ~row.deleted
    BY <1>1 DEF Inserted, IInv, Reads
  <2> QED
    BY <1>1, <2>1, <2>2, InsertExtends
<1>2. CASE Updated(c)
  <2>1. /\ Extends(c, row.rev + 1, "edit") /\ row.stored /\ row'.text = text[c]
        /\ row'.deleted = row.deleted /\ op[c] # "delete"
    BY <1>2, UpdateExtends
  <2>2. row' = [stored |-> row.stored, rev |-> seen[c] + 1, text |-> text[c], deleted |-> row.deleted]
    BY <1>0, <1>2 DEF Updated
  <2>3. text[c] \in Texts /\ pc[c] = "update" /\ seen[c] \in Nat
    BY <1>2 DEF Updated, IInv, Reads, TypeOK
  <2>4. row' \in [stored : BOOLEAN, rev : Nat, text : Texts \cup {NoText}, deleted : BOOLEAN]
    BY <1>0, <2>2, <2>3
  <2>5. \E n \in Nat, k \in {"create", "edit", "delete"} : Extends(c, n, k)
    BY <1>0, <2>1
  <2>6. row'.stored /\ row'.rev = row.rev + 1
    BY <2>1 DEF Extends
  <2> QED
    BY <2>1, <2>3, <2>4, <2>5, <2>6
<1>3. CASE Deleted(c)
  <2>1. /\ Extends(c, row.rev + 1, "delete") /\ row.stored
        /\ row'.text = row.text /\ ~row.deleted /\ row'.deleted
    BY <1>3, DeleteExtends
  <2>2. row' = [stored |-> row.stored, rev |-> seen[c] + 1, text |-> row.text, deleted |-> TRUE]
    BY <1>0, <1>3, <2>1 DEF Deleted
  <2>3. pc[c] = "delete" /\ seen[c] \in Nat /\ row.text \in Texts
    BY <1>3, <2>1 DEF Deleted, IInv, TypeOK
  <2>4. row' \in [stored : BOOLEAN, rev : Nat, text : Texts \cup {NoText}, deleted : BOOLEAN]
    BY <1>0, <2>2, <2>3
  <2>5. \E n \in Nat, k \in {"create", "edit", "delete"} : Extends(c, n, k)
    BY <1>0, <2>1
  <2>6. row'.stored /\ row'.rev = row.rev + 1
    BY <2>1 DEF Extends
  <2> QED
    BY <2>1, <2>3, <2>4, <2>5, <2>6
<1> QED
  BY <1>1, <1>2, <1>3 DEF Written

-----------------------------------------------------------------------------
(* The steps that write nothing. *)

\* What speaks of the row and the revisions only stays as it is.
LEMMA HistoryUnchanged ==
    ASSUME IInv, UNCHANGED <<row, revisions>>
    PROVE  Contiguous' /\ RowMatchesHistory' /\ (row'.deleted => row'.stored)
BY DEF IInv, Contiguous, RowMatchesHistory, Taken

\* A call begins, having read the row, and goes on at p or returns r.
LEMMA BeginKeeps ==
    ASSUME IInv, NEW c \in Calls, NEW o \in {"new", "edit", "delete"}, NEW t \in Texts \cup {NoText},
           NEW p \in {"again", "insert", "update", "delete", "done"},
           NEW r \in {"none", "absorbed", "ignored"},
           Begin(c, o, t),
           pc' = [pc EXCEPT ![c] = p], outcome' = [outcome EXCEPT ![c] = r],
           seen' \in [Calls -> Nat], \A d \in Calls : d # c => seen'[d] = seen[d],
           unseen \subseteq unseen', unseen' \subseteq Calls,
           p # "done" => r = "none",
           o # "delete" => t \in Texts,
           p \in {"again", "insert"} => ~row.stored /\ o # "delete",
           p = "update" => row.stored /\ seen'[c] = row.rev /\ o # "delete",
           p = "delete" => row.stored /\ seen'[c] = row.rev /\ ~row.deleted /\ o = "delete" /\ t = NoText,
           r = "absorbed" => o # "edit",
           r = "ignored" => row.deleted \/ c \in unseen'
    PROVE  IInv'
<1>0. /\ pc[c] = "idle" /\ outcome[c] = "none"
      /\ op' = [op EXCEPT ![c] = o] /\ text' = [text EXCEPT ![c] = t]
      /\ UNCHANGED <<row, revisions, limbo>>
  BY DEF Begin, IInv, Reads
<1>1. /\ pc'[c] = p /\ outcome'[c] = r /\ op'[c] = o /\ text'[c] = t
      /\ \A d \in Calls : d # c => /\ pc'[d] = pc[d] /\ outcome'[d] = outcome[d]
                                   /\ op'[d] = op[d] /\ text'[d] = text[d]
  BY <1>0 DEF IInv, TypeOK
<1>2. Contiguous' /\ RowMatchesHistory' /\ (row'.deleted => row'.stored)
  BY <1>0, HistoryUnchanged
<1>3. \A x \in revisions : x.by \in Calls /\ x.by # c
  BY <1>0 DEF IInv, TypeOK, Authors, Revisions
<1>4. alone' \in [Calls -> BOOLEAN]
  BY DEF Begin, IInv, TypeOK, Running
<1>5. TypeOK'
  BY <1>0, <1>4 DEF IInv, TypeOK, Outcomes
<1>6. OutcomeHonest'
  BY <1>0, <1>1, <1>3 DEF IInv, OutcomeHonest
<1>7. Authors'
  BY <1>0, <1>1, <1>3 DEF IInv, Authors
<1>8. OneOpen'
  BY <1>0, <1>1 DEF IInv, OneOpen, TypeOK
<1>9. Reads'
  <2>1. row.rev \in Nat
    BY DEF IInv, TypeOK
  <2> SUFFICES ASSUME NEW d \in Calls PROVE Reads!(d)'
    BY DEF Reads
  <2>2. CASE d = c
    BY <1>0, <1>1, <2>1, <2>2
  <2>3. CASE d # c
    BY <1>0, <1>1, <2>3 DEF IInv, Reads
  <2> QED
    BY <2>2, <2>3
<1>10. AcknowledgedDeletionHolds'
  BY <1>0, <1>1 DEF IInv, AcknowledgedDeletionHolds
<1>11. \A d \in Calls : /\ d # c => (alone'[d] => alone[d] /\ pc[d] \in {"idle", "done"})
                        /\ alone'[c] => pc[d] \in {"idle", "done"}
  BY DEF Begin, Running, IInv, TypeOK
<1>12. AloneTakesEffect'
  BY <1>0, <1>1, <1>11 DEF IInv, AloneTakesEffect
<1>13. Solo'
  <2> SUFFICES ASSUME NEW d \in Calls, alone'[d], pc'[d] \notin {"idle", "done"}
               PROVE  /\ \A e \in Calls : e # d => pc'[e] \in {"idle", "done"}
                      /\ pc'[d] \in {"update", "delete"} => seen'[d] = row'.rev
                      /\ pc'[d] \in {"again", "insert"} => ~row'.stored
    BY DEF Solo
  <2>1. d = c
    BY <1>1, <1>11
  <2> QED
    BY <1>0, <1>1, <1>11, <2>1
<1> QED
  BY <1>2, <1>5, <1>6, <1>7, <1>8, <1>9, <1>10, <1>12, <1>13 DEF IInv

\* A call that is under way returns r without having written.
LEMMA ReturnKeeps ==
    ASSUME IInv, NEW c \in Calls, NEW r \in {"absorbed", "conflict", "failed"},
           Return(c, r), c \notin limbo,
           pc[c] \in {"again", "insert", "update", "delete"},
           r = "absorbed" => row.stored /\ pc[c] \in {"again", "insert"},
           r = "conflict" => pc[c] \in {"update", "delete"} /\ Taken(seen[c] + 1),
           UNCHANGED <<row, revisions, op, text, seen, limbo, alone, unseen>>
    PROVE  IInv'
<1>1. /\ pc'[c] = "done" /\ outcome'[c] = r
      /\ \A d \in Calls : d # c => pc'[d] = pc[d] /\ outcome'[d] = outcome[d]
  BY DEF Return, IInv, TypeOK
<1>2. Contiguous' /\ RowMatchesHistory' /\ (row'.deleted => row'.stored)
  BY HistoryUnchanged
<1>3. \A x \in revisions : x.by \in Calls /\ x.by # c
  BY DEF IInv, TypeOK, Authors, Revisions
<1>4. TypeOK'
  BY DEF Return, IInv, TypeOK, Outcomes
<1>5. OutcomeHonest'
  BY <1>1, <1>3 DEF IInv, OutcomeHonest
<1>6. Authors'
  BY <1>1, <1>3 DEF IInv, Authors
<1>7. OneOpen'
  BY <1>1 DEF IInv, OneOpen, TypeOK
<1>8. Reads'
  <2> SUFFICES ASSUME NEW d \in Calls PROVE Reads!(d)'
    BY DEF Reads
  <2> QED
    BY <1>1 DEF IInv, Reads
<1>9. AcknowledgedDeletionHolds'
  BY <1>1 DEF IInv, AcknowledgedDeletionHolds
<1>10. AloneTakesEffect'
  <2>1. ASSUME alone[c] PROVE r # "conflict" /\ r # "absorbed"
    <3>1. /\ pc[c] \in {"update", "delete"} => seen[c] = row.rev
          /\ pc[c] \in {"again", "insert"} => ~row.stored
      BY <2>1 DEF IInv, Solo
    <3>2. ~Taken(row.rev + 1)
      BY DEF IInv, Contiguous, Taken, TypeOK, Revisions
    <3> QED
      BY <3>1, <3>2
  <2> QED
    BY <1>1, <2>1 DEF IInv, AloneTakesEffect
<1>11. Solo'
  BY <1>1 DEF IInv, Solo
<1> QED
  BY <1>2, <1>4, <1>5, <1>6, <1>7, <1>8, <1>9, <1>10, <1>11 DEF IInv

\* WriteEdit's own call of WriteNew finds nothing either, and will insert.
LEMMA FindAgainKeeps ==
    ASSUME IInv, NEW c \in Calls, FindAgain(c)
    PROVE  IInv'
<1>1. c \notin limbo
  BY DEF FindAgain, IInv, OneOpen
<1>2. CASE row.stored
  BY <1>1, <1>2, ReturnKeeps DEF FindAgain
<1>3. CASE ~row.stored
  <2>0. /\ pc[c] = "again" /\ pc' = [pc EXCEPT ![c] = "insert"]
        /\ UNCHANGED <<row, revisions, op, text, seen, limbo, outcome, alone, unseen>>
    BY <1>3 DEF FindAgain, GoTo
  <2>1. pc'[c] = "insert" /\ \A d \in Calls : d # c => pc'[d] = pc[d]
    BY <2>0 DEF IInv, TypeOK
  <2>2. Contiguous' /\ RowMatchesHistory' /\ (row'.deleted => row'.stored)
    BY <2>0, HistoryUnchanged
  <2>3. TypeOK'
    BY <2>0 DEF IInv, TypeOK
  <2>4. OutcomeHonest' /\ AcknowledgedDeletionHolds' /\ AloneTakesEffect'
    BY <2>0 DEF IInv, OutcomeHonest, AcknowledgedDeletionHolds, AloneTakesEffect
  <2>5. Authors'
    BY <2>0, <2>1 DEF IInv, Authors, TypeOK, Revisions
  <2>6. OneOpen'
    BY <1>1, <2>0, <2>1 DEF IInv, OneOpen, TypeOK
  <2>7. Reads'
    <3> SUFFICES ASSUME NEW d \in Calls PROVE Reads!(d)'
      BY DEF Reads
    <3> QED
      BY <2>0, <2>1 DEF IInv, Reads
  <2>8. Solo'
    BY <1>3, <2>0, <2>1 DEF IInv, Solo
  <2> QED
    BY <2>2, <2>3, <2>4, <2>5, <2>6, <2>7, <2>8 DEF IInv
<1> QED
  BY <1>2, <1>3

\* The commit whose answer is lost leaves its call where it was, open.
LEMMA CommitUnknownKeeps ==
    ASSUME IInv, NEW c \in Calls, CommitUnknown(c)
    PROVE  IInv'
<1>0. /\ limbo = {} /\ limbo' = {c} /\ outcome' = [outcome EXCEPT ![c] = "unknown"]
      /\ pc[c] \in {"insert", "update", "delete"}
      /\ UNCHANGED <<row, revisions, pc, op, text, seen, alone, unseen>>
  BY DEF CommitUnknown, Unlocked
<1>1. outcome'[c] = "unknown" /\ \A d \in Calls : d # c => outcome'[d] = outcome[d]
  BY <1>0 DEF IInv, TypeOK
<1>2. Contiguous' /\ RowMatchesHistory' /\ (row'.deleted => row'.stored)
  BY <1>0, HistoryUnchanged
<1>3. \A x \in revisions : x.by \in Calls /\ x.by # c
  BY <1>0 DEF IInv, TypeOK, Authors, Revisions
<1>4. TypeOK'
  BY <1>0 DEF IInv, TypeOK, Outcomes
<1>5. OutcomeHonest'
  BY <1>0, <1>1, <1>3 DEF IInv, OutcomeHonest
<1>6. AcknowledgedDeletionHolds' /\ AloneTakesEffect'
  BY <1>0, <1>1 DEF IInv, AcknowledgedDeletionHolds, AloneTakesEffect
<1>7. Authors' /\ Solo'
  BY <1>0 DEF IInv, Authors, Solo
<1>8. OneOpen'
  BY <1>0, <1>1 DEF IInv, OneOpen
<1>9. Reads'
  <2> SUFFICES ASSUME NEW d \in Calls PROVE Reads!(d)'
    BY DEF Reads
  <2> QED
    BY <1>0, <1>1 DEF IInv, Reads
<1> QED
  BY <1>2, <1>4, <1>5, <1>6, <1>7, <1>8, <1>9 DEF IInv

-----------------------------------------------------------------------------
(* The steps that end a transaction. *)

\* A transaction takes effect, at once or late, and its call is over.
LEMMA WrittenKeeps ==
    ASSUME IInv, NEW c \in Calls, NEW r \in {"recorded", "unknown"}, Written(c),
           pc' = [pc EXCEPT ![c] = "done"], outcome' = [outcome EXCEPT ![c] = r],
           limbo \subseteq {c}, limbo' = {},
           UNCHANGED <<op, text, seen, alone, unseen>>
    PROVE  IInv'
<1>0. /\ row' \in [stored : BOOLEAN, rev : Nat, text : Texts \cup {NoText}, deleted : BOOLEAN]
      /\ row'.stored /\ row'.text \in Texts
      /\ row.stored => row'.rev = row.rev + 1
      /\ row.deleted => row'.deleted
      /\ op[c] = "delete" => row'.deleted
      /\ pc[c] \in {"insert", "update", "delete"}
  BY WrittenFacts
<1>1. /\ pc'[c] = "done" /\ outcome'[c] = r
      /\ \A d \in Calls : d # c => pc'[d] = pc[d] /\ outcome'[d] = outcome[d]
  BY DEF IInv, TypeOK
<1>2. PICK n \in Nat, k \in {"create", "edit", "delete"} : Extends(c, n, k)
  BY WrittenFacts
<1> DEFINE new == [rev |-> n, kind |-> k, text |-> text[c], by |-> c]
<1>3. revisions' = revisions \cup {new} /\ new.by = c /\ new.text = text[c] /\ new \in Revisions
  BY <1>2 DEF Extends, Revisions, IInv, TypeOK
<1>4. \A x \in revisions : x.by \in Calls /\ x.by # c
  BY <1>0 DEF IInv, TypeOK, Authors, Revisions
<1>5. Contiguous' /\ RowMatchesHistory'
  BY WrittenContiguous, WrittenMatches
<1>6. TypeOK'
  BY <1>0, <1>3 DEF IInv, TypeOK, Outcomes
<1>7. OutcomeHonest'
  <2>1. \A x, y \in revisions' : x.by = y.by => x = y
    BY <1>3, <1>4 DEF IInv, OutcomeHonest
  <2>2. \A x \in revisions' : outcome'[x.by] \in {"recorded", "unknown"} /\ x.text = text'[x.by]
    BY <1>1, <1>3, <1>4 DEF IInv, OutcomeHonest
  <2>3. \A d \in Calls : outcome'[d] = "recorded" => \E x \in revisions' : x.by = d
    BY <1>1, <1>3 DEF IInv, OutcomeHonest
  <2> QED
    BY <2>1, <2>2, <2>3 DEF OutcomeHonest
<1>8. Authors'
  BY <1>1, <1>3, <1>4 DEF IInv, Authors
<1>9. OneOpen'
  BY DEF OneOpen
<1>10. Reads'
  <2>1. row.rev \in Nat /\ row'.rev \in Nat /\ seen \in [Calls -> Nat]
    BY <1>0 DEF IInv, TypeOK
  <2> SUFFICES ASSUME NEW d \in Calls PROVE Reads!(d)'
    BY DEF Reads
  <2>2. CASE d = c
    BY <1>1, <2>2
  <2>3. CASE d # c
    BY <1>0, <1>1, <2>1, <2>3 DEF IInv, Reads
  <2> QED
    BY <2>2, <2>3
<1>11. AcknowledgedDeletionHolds'
  BY <1>0, <1>1 DEF IInv, AcknowledgedDeletionHolds
<1>12. AloneTakesEffect'
  BY <1>1 DEF IInv, AloneTakesEffect
<1>13. Solo'
  BY <1>0, <1>1 DEF IInv, Solo
<1> QED
  BY <1>0, <1>5, <1>6, <1>7, <1>8, <1>9, <1>10, <1>11, <1>12, <1>13 DEF IInv

\* The server rolls back the transaction it was left with.
LEMMA LateRollbackKeeps ==
    ASSUME IInv, NEW c \in Calls, LateEnd(c), UNCHANGED <<row, revisions>>
    PROVE  IInv'
<1>0. /\ outcome[c] = "unknown" /\ pc[c] \in {"insert", "update", "delete"}
      /\ limbo' = {} /\ pc' = [pc EXCEPT ![c] = "done"]
      /\ UNCHANGED <<op, text, seen, outcome, alone, unseen>>
  BY DEF LateEnd, IInv, OneOpen
<1>1. pc'[c] = "done" /\ \A d \in Calls : d # c => pc'[d] = pc[d]
  BY <1>0 DEF IInv, TypeOK
<1>2. Contiguous' /\ RowMatchesHistory' /\ (row'.deleted => row'.stored)
  BY HistoryUnchanged
<1>3. TypeOK'
  BY <1>0 DEF IInv, TypeOK
<1>4. OutcomeHonest' /\ AcknowledgedDeletionHolds' /\ AloneTakesEffect' /\ OneOpen'
  BY <1>0 DEF IInv, OutcomeHonest, AcknowledgedDeletionHolds, AloneTakesEffect, OneOpen
<1>5. Authors'
  BY <1>1 DEF IInv, Authors, TypeOK, Revisions
<1>6. Reads'
  <2> SUFFICES ASSUME NEW d \in Calls PROVE Reads!(d)'
    BY DEF Reads
  <2> QED
    BY <1>0, <1>1 DEF IInv, Reads
<1>7. Solo'
  BY <1>0, <1>1 DEF IInv, Solo
<1> QED
  BY <1>2, <1>3, <1>4, <1>5, <1>6, <1>7 DEF IInv

-----------------------------------------------------------------------------
\* The strengthened invariant holds at the start ...
LEMMA InitIInv == Init => IInv
BY NoTextAssumption
   DEF Init, NoRow, IInv, TypeOK, Contiguous, RowMatchesHistory, OutcomeHonest, AloneTakesEffect,
       AcknowledgedDeletionHolds, Reads, OneOpen, Authors, Solo, Taken, Outcomes

\* ... and every step keeps it.
LEMMA NextIInv == IInv /\ [Next]_vars => IInv'
<1> SUFFICES ASSUME IInv, [Next]_vars PROVE IInv'
  OBVIOUS
<1>1. CASE UNCHANGED vars
  BY <1>1 DEF vars, IInv, TypeOK, Contiguous, RowMatchesHistory, OutcomeHonest, AloneTakesEffect,
              AcknowledgedDeletionHolds, Reads, OneOpen, Authors, Solo, Taken
<1> SUFFICES ASSUME NEW c \in Calls,
                    \/ FindNew(c) \/ FindEdit(c) \/ FindDelete(c) \/ FindAgain(c)
                    \/ Fails(c) \/ Commit(c) \/ Absorbed(c) \/ Conflict(c)
                    \/ CommitUnknown(c) \/ LateEnd(c)
             PROVE  IInv'
  BY <1>1 DEF Next
<1>2. /\ pc[c] = "idle" => outcome = [outcome EXCEPT ![c] = "none"]
      /\ outcome[c] = "unknown" => outcome = [outcome EXCEPT ![c] = "unknown"]
  <2>1. outcome \in [Calls -> Outcomes] /\ (pc[c] = "idle" => outcome[c] = "none")
    BY DEF IInv, TypeOK, Reads
  <2> QED
    BY <2>1
<1>3. CASE FindNew(c)
  <2>1. PICK t \in Texts : /\ Begin(c, "new", t)
                           /\ IF row.stored THEN Return(c, "absorbed") ELSE GoTo(c, "insert")
                           /\ UNCHANGED <<seen, unseen>>
    BY <1>3 DEF FindNew
  <2>2. seen' \in [Calls -> Nat] /\ unseen' \subseteq Calls
    BY <2>1 DEF IInv, TypeOK
  <2>3. CASE row.stored
    BY <2>1, <2>2, <2>3, BeginKeeps DEF Return
  <2>4. CASE ~row.stored
    <3>1. outcome' = [outcome EXCEPT ![c] = "none"]
      BY <1>2, <2>1, <2>4 DEF GoTo, Begin
    <3> QED
      BY <2>1, <2>2, <2>4, <3>1, BeginKeeps DEF GoTo
  <2> QED
    BY <2>3, <2>4
<1>4. CASE FindEdit(c)
  <2>1. PICK t \in Texts : /\ Begin(c, "edit", t)
                           /\ GoTo(c, IF row.stored THEN "update" ELSE "again")
                           /\ seen' = [seen EXCEPT ![c] = row.rev]
                           /\ UNCHANGED unseen
    BY <1>4 DEF FindEdit
  <2>2. /\ seen' \in [Calls -> Nat] /\ seen'[c] = row.rev /\ unseen' \subseteq Calls
        /\ \A d \in Calls : d # c => seen'[d] = seen[d]
    BY <2>1 DEF IInv, TypeOK
  <2>3. outcome' = [outcome EXCEPT ![c] = "none"]
    BY <1>2, <2>1 DEF GoTo, Begin
  <2>4. CASE row.stored
    BY <2>1, <2>2, <2>3, <2>4, BeginKeeps DEF GoTo
  <2>5. CASE ~row.stored
    BY <2>1, <2>2, <2>3, <2>5, BeginKeeps DEF GoTo
  <2> QED
    BY <2>4, <2>5
<1>5. CASE FindDelete(c)
  <2>1. /\ Begin(c, "delete", NoText)
        /\ IF row.stored /\ ~row.deleted THEN GoTo(c, "delete") ELSE Return(c, "ignored")
        /\ seen' = [seen EXCEPT ![c] = row.rev]
        /\ unseen' = IF row.stored THEN unseen ELSE unseen \cup {c}
    BY <1>5 DEF FindDelete
  <2>2. /\ seen' \in [Calls -> Nat] /\ seen'[c] = row.rev
        /\ unseen' \subseteq Calls /\ unseen \subseteq unseen'
        /\ \A d \in Calls : d # c => seen'[d] = seen[d]
    BY <2>1 DEF IInv, TypeOK
  <2>3. CASE row.stored /\ ~row.deleted
    <3>1. outcome' = [outcome EXCEPT ![c] = "none"]
      BY <1>2, <2>1, <2>3 DEF GoTo, Begin
    <3> QED
      BY <2>1, <2>2, <2>3, <3>1, BeginKeeps DEF GoTo
  <2>4. CASE ~(row.stored /\ ~row.deleted)
    <3>1. row.deleted \/ c \in unseen'
      BY <2>1, <2>4
    <3> QED
      BY <2>1, <2>2, <2>4, <3>1, BeginKeeps DEF Return
  <2> QED
    BY <2>3, <2>4
<1>6. CASE FindAgain(c)
  BY <1>6, FindAgainKeeps
<1>7. CASE Fails(c)
  BY <1>7, ReturnKeeps DEF Fails
<1>8. CASE Commit(c)
  <2>1. limbo = {} /\ UNCHANGED limbo /\ Written(c) /\ Return(c, "recorded")
    BY <1>8 DEF Commit, Unlocked
  <2> QED
    BY <1>8, <2>1, WrittenKeeps DEF Commit, Return
<1>9. CASE Absorbed(c)
  BY <1>9, ReturnKeeps DEF Absorbed, Unlocked
<1>10. CASE Conflict(c)
  BY <1>10, ReturnKeeps DEF Conflict, Unlocked
<1>11. CASE CommitUnknown(c)
  BY <1>11, CommitUnknownKeeps
<1>12. CASE LateEnd(c)
  <2>1. CASE Written(c)
    <3>1. /\ limbo \subseteq {c} /\ limbo' = {} /\ pc' = [pc EXCEPT ![c] = "done"]
          /\ UNCHANGED <<op, text, seen, outcome, alone, unseen>> /\ outcome[c] = "unknown"
      BY <1>12 DEF LateEnd, IInv, OneOpen
    <3>2. outcome' = [outcome EXCEPT ![c] = "unknown"]
      BY <1>2, <3>1
    <3> QED
      BY <2>1, <3>1, <3>2, WrittenKeeps
  <2>2. CASE UNCHANGED <<row, revisions>>
    BY <1>12, <2>2, LateRollbackKeeps
  <2> QED
    BY <1>12, <2>1, <2>2 DEF LateEnd
<1> QED
  BY <1>3, <1>4, <1>5, <1>6, <1>7, <1>8, <1>9, <1>10, <1>11, <1>12

LEMMA AlwaysIInv == Spec => []IInv
BY InitIInv, NextIInv, PTL DEF Spec

\* The store's variables keep their types, for every number of calls.
THEOREM TypeCorrect == Spec => []TypeOK
<1>1. IInv => TypeOK
  BY DEF IInv
<1> QED
  BY <1>1, AlwaysIInv, PTL

\* However calls overlap, the revisions of a message are numbered without hole
\* or branch up to current_revision.
THEOREM HistoryContiguous == Spec => []Contiguous
<1>1. IInv => Contiguous
  BY DEF IInv
<1> QED
  BY <1>1, AlwaysIInv, PTL

\* The row agrees with the history: last content, and deleted once at most.
THEOREM RowCorrect == Spec => []RowMatchesHistory
<1>1. IInv => RowMatchesHistory
  BY DEF IInv
<1> QED
  BY <1>1, AlwaysIInv, PTL

\* What calls return agrees with the revisions they left.
THEOREM OutcomesCorrect == Spec => []OutcomeHonest
<1>1. IInv => OutcomeHonest
  BY DEF IInv
<1> QED
  BY <1>1, AlwaysIInv, PTL

\* A call that overlaps nothing is neither refused nor, if an edit, absorbed.
THEOREM AloneCorrect == Spec => []AloneTakesEffect
<1>1. IInv => AloneTakesEffect
  BY DEF IInv
<1> QED
  BY <1>1, AlwaysIInv, PTL

\* An acknowledged deletion of a message that was stored stays.
THEOREM DeletionHolds == Spec => []AcknowledgedDeletionHolds
<1>1. IInv => AcknowledgedDeletionHolds
  BY DEF IInv
<1> QED
  BY <1>1, AlwaysIInv, PTL

\* No step removes a revision or brings a deleted message back.
THEOREM AppendOnly == Spec => HistoryImmutable
<1>1. IInv /\ [Next]_vars => [revisions \subseteq revisions' /\ (row.deleted => row'.deleted)]_vars
  <2> SUFFICES ASSUME IInv, Next
               PROVE  revisions \subseteq revisions' /\ (row.deleted => row'.deleted)
    BY DEF vars
  <2>1. PICK c \in Calls : \/ FindNew(c) \/ FindEdit(c) \/ FindDelete(c) \/ FindAgain(c)
                           \/ Fails(c) \/ Commit(c) \/ Absorbed(c) \/ Conflict(c)
                           \/ CommitUnknown(c) \/ LateEnd(c)
    BY DEF Next
  <2>2. CASE Written(c)
    BY <2>2, WrittenFacts DEF Extends
  <2>3. CASE UNCHANGED <<row, revisions>>
    BY <2>3
  <2> QED
    BY <2>1, <2>2, <2>3 DEF FindNew, FindEdit, FindDelete, FindAgain, Begin, Fails, Commit, Absorbed,
                            Conflict, CommitUnknown, LateEnd
<1> QED
  BY <1>1, AlwaysIInv, PTL DEF Spec, HistoryImmutable

=============================================================================
