------------------------------ MODULE AdminSetup ------------------------------
(***************************************************************************)
(* AdminService.Init, the one-time setup of the administrator: the flag is *)
(* read, the row inserted and the flag set by three statements, with no    *)
(* lock and no transaction around them, and with the validation and bcrypt *)
(* (some hundred milliseconds) between the first two.                      *)
(***************************************************************************)
EXTENDS Naturals, FiniteSets

CONSTANTS
  Client,        \* goroutines serving POST /setup/init
  AdminName,     \* names that validateUsername accepts
  NoName,        \* what it refuses; also the name of a call that is idle
  MaxFaults      \* bound: restarts and failing statements

ASSUME SetupAssumption ==
  NoName \notin AdminName /\ MaxFaults \in Nat

VARIABLES
  admins,        \* the names in the admins table
  initialized,   \* the flag in system_settings
  pc, name,      \* each call's place and its name
  late,          \* whether the flag was set when the call began
  answered,      \* the names whose call was answered with success
  faults         \* restarts and failing statements so far

vars == <<admins, initialized, pc, name, late, answered, faults>>

Init ==
  /\ admins = {} /\ initialized = FALSE
  /\ pc = [c \in Client |-> "idle"]
  /\ name = [c \in Client |-> NoName]
  /\ late = [c \in Client |-> FALSE]
  /\ answered = {} /\ faults = 0

\* To a further place, or back to idle with the locals forgotten.
Goto(c, place) ==
  /\ pc' = [pc EXCEPT ![c] = place]
  /\ name' = [name EXCEPT ![c] = IF place = "idle" THEN NoName ELSE @]
  /\ late' = [late EXCEPT ![c] = place # "idle" /\ @]

Call(c, n) ==
  /\ pc[c] = "idle"
  /\ pc' = [pc EXCEPT ![c] = "check"]
  /\ name' = [name EXCEPT ![c] = n]
  /\ late' = [late EXCEPT ![c] = initialized]
  /\ UNCHANGED <<admins, initialized, answered, faults>>

\* Mutants: the flag is not looked at; the flag is set before the row is
\* there; the name is not validated.
CheckNameOnly(c) ==
  /\ pc[c] = "check"
  /\ Goto(c, IF name[c] \in AdminName THEN "insert" ELSE "idle")
  /\ UNCHANGED <<admins, initialized, answered, faults>>

CheckFlagFirst(c) ==
  /\ pc[c] = "check"
  /\ Goto(c, IF ~initialized /\ name[c] \in AdminName THEN "flag" ELSE "idle")
  /\ UNCHANGED <<admins, initialized, answered, faults>>

CheckAnyName(c) ==
  /\ pc[c] = "check"
  /\ Goto(c, IF ~initialized THEN "insert" ELSE "idle")
  /\ UNCHANGED <<admins, initialized, answered, faults>>

\* The flag, then the validation of the name and the password.
Check(c) ==
  /\ pc[c] = "check"
  /\ Goto(c, IF ~initialized /\ name[c] \in AdminName THEN "insert" ELSE "idle")
  /\ UNCHANGED <<admins, initialized, answered, faults>>

\* admins.username is UNIQUE.
Insert(c) ==
  /\ pc[c] = "insert"
  /\ IF name[c] \in admins
     THEN Goto(c, "idle") /\ UNCHANGED admins
     ELSE Goto(c, "flag") /\ admins' = admins \cup {name[c]}
  /\ UNCHANGED <<initialized, answered, faults>>

SetFlag(c) ==
  /\ pc[c] = "flag"
  /\ initialized' = TRUE
  /\ answered' = answered \cup {name[c]}
  /\ Goto(c, "idle")
  /\ UNCHANGED <<admins, faults>>

Fail(c) ==
  /\ faults < MaxFaults
  /\ faults' = faults + 1
  /\ pc[c] # "idle"
  /\ Goto(c, "idle")
  /\ UNCHANGED <<admins, initialized, answered>>

Crash ==
  /\ faults < MaxFaults
  /\ faults' = faults + 1
  /\ pc' = [c \in Client |-> "idle"]
  /\ name' = [c \in Client |-> NoName]
  /\ late' = [c \in Client |-> FALSE]
  /\ UNCHANGED <<admins, initialized, answered>>

Next ==
  \/ \E c \in Client : \/ \E n \in AdminName \cup {NoName} : Call(c, n)
                       \/ Check(c) \/ Insert(c) \/ SetFlag(c) \/ Fail(c)
  \/ Crash

Spec == Init /\ [][Next]_vars

-----------------------------------------------------------------------------
(* Properties *)

TypeOK ==
  /\ admins \subseteq AdminName /\ answered \subseteq AdminName
  /\ initialized \in BOOLEAN
  /\ pc \in [Client -> {"idle", "check", "insert", "flag"}]
  /\ name \in [Client -> AdminName \cup {NoName}]
  /\ late \in [Client -> BOOLEAN]
  /\ faults \in 0 .. MaxFaults

\* A system that counts as set up has every administrator whose setup
\* succeeded, and at least one: a failure or a crash between the two writes
\* of Init never closes the setup with nobody able to log in.
NeverLockedOut == initialized => answered # {} /\ answered \subseteq admins

\* A call that begins after the setup changes nothing.
SetupCloses == \A c \in Client : late[c] => pc[c] \in {"check", "idle"}
=============================================================================
