------------------------- MODULE MCSessionConnector -------------------------
(* A small instance of SessionConnector for TLC. *)
EXTENDS SessionConnector, TLC

CONSTANTS s1, s2, r1, r2, h1, h2

\* The run session_overlap does without it.
Serialized == ~overlapped

MCSymmetry == Permutations(Sessions) \cup Permutations(Handlers)
=============================================================================
