------------------------------ MODULE MCTvRing ------------------------------
(* TvRing for TLC: the sizes are in the configuration.                     *)
EXTENDS TvRing
=============================================================================
