------------------------------ MODULE MCStream ------------------------------
(* A ring of two slots: it wraps around and runs full within six pushes. *)
EXTENDS Stream
=============================================================================
