----------------------------- MODULE MCWorkJson -----------------------------
(* WorkJson on small sets for TLC. *)
EXTENDS WorkJson, MCControlPlane
=============================================================================
