---------------------------- MODULE MCSessionStore ----------------------------
(* Small instances of SessionStore for TLC. *)
EXTENDS SessionStore, TLC

CONSTANTS r1, r2, s1, s2
=============================================================================
