---------------------------- MODULE MCInvitations ----------------------------
(* A small instance of Invitations for TLC. *)
EXTENDS Invitations, TLC

CONSTANTS r1, r2, ann, bob, a1, a2

=============================================================================
