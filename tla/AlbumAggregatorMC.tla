-------------------------- MODULE AlbumAggregatorMC --------------------------
(* Two albums, of two messages and of one, and the windows of settings.        *)
EXTENDS AlbumAggregator

MCMessages == 1 .. 3
MCGroupedID == [m \in MCMessages |-> IF m < 3 THEN 7 ELSE 8]

Short == [quiet |-> 1, hard |-> 4, size |-> 3]
Wide == [quiet |-> 2, hard |-> 3, size |-> 4]
Broken == [quiet |-> 3, hard |-> 2, size |-> 2]
MCWindows == {Short, Wide, Broken}
=============================================================================
