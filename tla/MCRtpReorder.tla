---------------------------- MODULE MCRtpReorder ----------------------------
(* RtpReorder for TLC: the sizes are in the configurations.                *)
EXTENDS RtpReorder
=============================================================================
