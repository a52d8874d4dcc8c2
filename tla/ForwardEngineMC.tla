--------------------------- MODULE ForwardEngineMC ---------------------------
(* Small channels for ForwardEngine. *)
EXTENDS ForwardEngine

\* Where the messages belong: none to an album, or the first two to one.
Singles == [m \in Ids |-> 0]
PairFirst == [m \in Ids |-> IF m <= 2 THEN 7 ELSE 0]

\* Their texts: none has any, or all have the same.
NoText == [m \in Ids |-> 0]
SameText == [m \in Ids |-> 5]

OneRule == <<"r1">>
TwoRules == <<"r1", "r2">>
OneTarget == [r \in {"r1", "r2"} |-> "t1"]

\* The filters pass everything, or rule r2 wants message 1 (so the album it is
\* in, but nothing else).
AllAccepted == [r \in Rules |-> Ids]
SecondPicky == [r \in Rules |-> IF r = "r2" THEN {1} ELSE Ids]
=============================================================================
