----------------------------- MODULE DeliveryMC -----------------------------
(* Delivery on small instances. *)
EXTENDS Delivery

File(declared, real) == [declared |-> declared, real |-> real]
Task(kind, footer, ai, media) ==
  [kind |-> kind, footer |-> footer, ai |-> ai, chunks |-> 0, style |-> "auto", media |-> media]
Content(style, chunks) ==
  [kind |-> "rich", footer |-> FALSE, ai |-> FALSE, chunks |-> chunks, style |-> style, media |-> <<>>]

\* A text of two segments, its rewriting of one; an undeclared photo and an album.
Tasks == { Task("text", TRUE, TRUE, <<>>), Task("forward", TRUE, TRUE, <<>>),
           Task("files", FALSE, FALSE, <<File(0, 2)>>),
           Task("files", TRUE, FALSE, <<File(1, 1), File(0, 1)>>) }
\* A content of two messages, one that cannot be split, and one that insists on Rich.
CONSTANTS c1, c2
Work == [s \in Senders |->
           IF s = Engine THEN Tasks
           ELSE IF s = c1 THEN {Content("auto", 2), Content("auto", 0)} ELSE {Content("rich", 1)}]
\* The engine and the callers share no state their steps read: each alone.
Alone == {[s \in Senders |-> IF s = Engine THEN 1 ELSE 0],
          [s \in Senders |-> IF s = Engine THEN 0 ELSE 1]}
TwoOrOne == [original |-> 2, rewritten |-> 1]
=============================================================================
