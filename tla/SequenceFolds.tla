--------------------------- MODULE SequenceFolds ---------------------------
(***************************************************************************)
(* The loops over a sequence that RichText and CopyText have in common,    *)
(* each as a function of how many elements it has gone through, so that a  *)
(* proof can go through them with it.                                      *)
(***************************************************************************)
EXTENDS Integers, Sequences

(* Sums(ns)[i] is the sum of the first i numbers.                          *)
Sums(ns) == LET upTo[i \in 0 .. Len(ns)] == IF i = 0 THEN 0 ELSE upTo[i - 1] + ns[i] IN upTo
Total(ns) == Sums(ns)[Len(ns)]

(* The elements of s that are in S.                                        *)
Only(s, S) ==
  LET upTo[i \in 0 .. Len(s)] ==
        IF i = 0 THEN <<>> ELSE IF s[i] \in S THEN Append(upTo[i - 1], s[i]) ELSE upTo[i - 1]
  IN upTo[Len(s)]

(* s in groups: an element joins the group before it when the group stays  *)
(* in S.                                                                   *)
Gathered(s, S) ==
  LET upTo[i \in 0 .. Len(s)] ==
        IF i = 0 THEN [done |-> <<>>, group |-> <<>>]
        ELSE LET before == upTo[i - 1]
                 joined == Append(before.group, s[i])
             IN IF before.group = <<>> \/ joined \in S THEN [before EXCEPT !.group = joined]
                ELSE [done |-> Append(before.done, before.group), group |-> <<s[i]>>]
  IN IF s = <<>> THEN <<>> ELSE Append(upTo[Len(s)].done, upTo[Len(s)].group)
=============================================================================
