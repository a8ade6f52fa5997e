------------------------------- MODULE ConfFile -------------------------------
(***************************************************************************)
(* What Generator.Write (internal/smb/generator.go) promises about         *)
(* smb.conf: a call either replaces the whole file by what that call       *)
(* rendered, and only if testparm accepts it, or leaves the file alone.    *)
(***************************************************************************)
EXTENDS Naturals

CONSTANTS
  Writer,       \* goroutines that may be inside Write
  MaxWrites,    \* bound: versions rendered, numbered from 1
  Bad,          \* the versions testparm rejects
  Testparm      \* whether testparm is installed

Version == 1 .. MaxWrites
Absent == 0           \* no file; in "asked", no call
Original == MaxWrites + 1     \* the file found at the first start

VARIABLES file, asked

Accepted(v) == Testparm => v \notin Bad

Init ==
  /\ file \in {Absent, Original}
  /\ asked = [w \in Writer |-> Absent]

\* A call begins, with a version of its own.
Ask(w) == \E v \in Version :
  /\ asked[w] = Absent
  /\ asked' = [asked EXCEPT ![w] = v]
  /\ UNCHANGED file

Replace(w) ==
  /\ asked[w] # Absent /\ Accepted(asked[w])
  /\ file' = asked[w]
  /\ asked' = [asked EXCEPT ![w] = Absent]

GiveUp(w) ==
  /\ asked[w] # Absent
  /\ asked' = [asked EXCEPT ![w] = Absent]
  /\ UNCHANGED file

Crash ==
  /\ asked' = [w \in Writer |-> Absent]
  /\ UNCHANGED file

Next ==
  \/ \E w \in Writer : Ask(w) \/ Replace(w) \/ GiveUp(w)
  \/ Crash

Spec == Init /\ [][Next]_<<file, asked>>
=============================================================================
