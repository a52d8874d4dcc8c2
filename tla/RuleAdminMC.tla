----------------------------- MODULE RuleAdminMC -----------------------------
(* One rule, on channel a or b; a message may come from either. *)
EXTENDS RuleAdmin

CONSTANTS a, b, n, q1

\* Only b is registered; a has two messages and b one.
OnlyB == [c \in {a, b} |-> IF c = b THEN n ELSE Absent]
TwoAndOne == [c \in {a, b} |-> IF c = a THEN 2 ELSE 1]

\* A rule on a, the same matching b by username as well, and a rule on b.
ThreeRules ==
  {[source |-> a, name |-> NoName, enabled |-> TRUE],
   [source |-> a, name |-> n, enabled |-> TRUE],
   [source |-> b, name |-> NoName, enabled |-> TRUE]}
=============================================================================
