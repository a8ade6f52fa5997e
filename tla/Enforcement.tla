------------------------------ MODULE Enforcement ------------------------------
(***************************************************************************)
(* What the controller promises as a whole: the database says who may use  *)
(* what, and smbd is only ever moved to what the database says at that     *)
(* moment.  It may lag behind, since a change is one step and its          *)
(* enforcement another and a command can fail in between, but it is never  *)
(* taken to a configuration the database has already left.                 *)
(***************************************************************************)
VARIABLES
  desired,    \* the configuration that the database describes
  enforced    \* the configuration that smbd runs with

Init == enforced = desired

\* The tables change: to what, is for the administrators to say.
Change == UNCHANGED enforced

\* applyConfig
Apply == enforced' = desired /\ UNCHANGED desired

Next == Change \/ Apply

Spec == Init /\ [][Next]_<<desired, enforced>>
=============================================================================
