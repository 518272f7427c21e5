------------------------- MODULE MCGlobalAttributes -------------------------
(* Small instances of GlobalAttributes for TLC. *)
EXTENDS GlobalAttributes
=============================================================================
