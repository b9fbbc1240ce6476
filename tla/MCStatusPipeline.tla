-------------------------- MODULE MCStatusPipeline --------------------------
(* A small instance of StatusPipeline for TLC. *)
EXTENDS StatusPipeline, TLC

=============================================================================
