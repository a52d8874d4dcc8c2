----------------------------- MODULE LifecycleMC -----------------------------
(***************************************************************************)
(* Lifecycle with a degradable service between two core ones.              *)
(***************************************************************************)
EXTENDS Lifecycle

MCCore == {1, 3}

\* The degradable one: the engine is registered so (production.go:147).
MCMayHang == {2}

\* A run that fails at once, and one that lasts half a StableRun: with the
\* longest wait the second counts as stable.
MCLengths == {0, 3}
=============================================================================
