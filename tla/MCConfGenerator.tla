---------------------------- MODULE MCConfGenerator ----------------------------
(* Small instances of ConfGenerator for TLC. *)
EXTENDS ConfGenerator, TLC

CONSTANTS g1, g2
=============================================================================
