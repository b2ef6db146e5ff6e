------------------------------ MODULE MCDevice ------------------------------
(* Two groups, so that a device can fail between their spike downloads. *)
EXTENDS Device
=============================================================================
