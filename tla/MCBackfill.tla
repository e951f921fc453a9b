----------------------------- MODULE MCBackfill -----------------------------
(***************************************************************************)
(* Instance of Backfill for TLC: a slot that changes hands, two channels,  *)
(* two backfills.                                                          *)
(***************************************************************************)
EXTENDS Backfill, TLC

\* Channels and texts are interchangeable.
Symmetric == Permutations(Channels) \cup Permutations(Texts)

\* When a message for others is sent shows in nothing but its packet, so it may as
\* well be sent before the others: fewer states, the same behaviours.
ForeignFirst ==
    \A n, k \in Sends : n < k /\ sends[k].slot = Nothing => sends[n].slot = Nothing
=============================================================================
