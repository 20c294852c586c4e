--------------------------- MODULE MCEffectLedger ---------------------------
(* Instances of EffectLedger for TLC. *)
EXTENDS EffectLedger
=============================================================================
