------------------------- MODULE ContiguousWatermark -------------------------
(***************************************************************************)
(* What the contiguous cursor promises (docs/plans/p0-implementation.md,   *)
(* section 6), without any algorithm.  Some message IDs were opened, some  *)
(* ended; the mark is, at every moment, the highest ended ID (or the start *)
(* of the current epoch) that lies below every ID still open.              *)
(***************************************************************************)
EXTENDS Integers

CONSTANT Ids

VARIABLES
  start,   \* the mark the current epoch (process lifetime) started from
  open,    \* IDs opened and not ended
  ended,   \* IDs ended since the epoch started
  mark     \* the watermark

wvars == <<start, open, ended, mark>>

\* m is the highest member of {s} \cup E that lies below every member of O.
IsWatermark(m, s, O, E) ==
  /\ m \in {s} \cup E
  /\ \A u \in O : m < u
  /\ \A e \in E : (\A u \in O : e < u) => e <= m

Init == /\ start \in Nat
        /\ open = {} /\ ended = {} /\ mark = start

\* IDs at or below the mark are settled for good: opening them is no event.
Open(S) ==
  /\ open' = open \cup {i \in S : i > mark}
  /\ UNCHANGED <<start, ended, mark>>

\* Ending IDs moves the mark to the new watermark, wherever that is.
End(S) ==
  /\ open'  = open \ {i \in S : i > mark}
  /\ ended' = ended \cup {i \in S : i > mark}
  /\ IsWatermark(mark', start, open', ended')
  /\ UNCHANGED start

\* A new epoch starts from a mark that is not beyond the old one.
NewEpoch ==
  /\ start' \in Nat /\ start' <= mark
  /\ open' = {} /\ ended' = {} /\ mark' = start'

Next == \/ \E S \in SUBSET Ids : Open(S) \/ End(S)
        \/ NewEpoch

Spec == Init /\ [][Next]_wvars
=============================================================================
