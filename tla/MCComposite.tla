---------------------------- MODULE MCComposite -----------------------------
(* Two subrepositories and one crash for TLC. *)
EXTENDS Composite
=============================================================================
