------------------------------- MODULE MCPool -------------------------------
(* The pool on three hardware threads: two workers and the coordinator. *)
EXTENDS Pool
=============================================================================
