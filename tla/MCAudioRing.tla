---------------------------- MODULE MCAudioRing ----------------------------
(* AudioRing for TLC: the sizes are in the configurations.                 *)
EXTENDS AudioRing
=============================================================================
