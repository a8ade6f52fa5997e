---------------------------- MODULE ConfGenerator ----------------------------
(***************************************************************************)
(* Generator.Write step by step: the generator's own mutex, the backup of  *)
(* the current file under a name that carries the wall clock's second, the *)
(* pruning of old backups, the temporary file every call shares, testparm, *)
(* and the rename.  os.WriteFile truncates first and fills afterwards.     *)
(***************************************************************************)
EXTENDS Integers, FiniteSets, Sequences

CONSTANTS
  Writer, MaxWrites, Bad, Testparm,   \* as in ConfFile
  NoWriter,         \* the owner of a free mutex
  BackupMaxCount,   \* smb.backup_max_count as configured
  MaxClock,         \* bound: seconds of the wall clock in play
  MaxSetBacks,      \* bound: times the wall clock is set back
  MaxCrashes,       \* bound: restarts
  Faults            \* whether file operations may fail

ASSUME GeneratorAssumption ==
  /\ MaxWrites \in Nat
  /\ Bad \subseteq 1 .. MaxWrites
  /\ Testparm \in BOOLEAN /\ Faults \in BOOLEAN
  /\ NoWriter \notin Writer
  /\ MaxClock \in Nat /\ MaxSetBacks \in Nat /\ MaxCrashes \in Nat
  /\ BackupMaxCount \in Int

Version == 1 .. MaxWrites
Absent == 0
Original == MaxWrites + 1
Partial == MaxWrites + 2      \* a file truncated and not yet filled

VARIABLES
  file, tmp,       \* smb.conf and smb.conf.tmp
  backups,         \* the backup files: [at |-> second in the name, of |-> content]
  stamp,           \* the name of the backup being written
  holder,          \* Generator.mu
  pc, asked,       \* each writer's place, and the version it has rendered
  clock, setBacks, rendered, crashes

vars == <<file, tmp, backups, stamp, holder, pc, asked, clock, setBacks, rendered,
          crashes>>
counters == <<clock, setBacks, rendered, crashes>>

\* NewGenerator
Keep == IF BackupMaxCount <= 0 THEN 5 ELSE BackupMaxCount

Accepted(v) == Testparm => v \notin Bad

Init ==
  /\ file \in {Absent, Original}
  /\ tmp = Absent
  /\ backups = {} /\ stamp = 0
  /\ holder = NoWriter
  /\ pc = [w \in Writer |-> "idle"]
  /\ asked = [w \in Writer |-> Absent]
  /\ clock = 0 /\ setBacks = 0 /\ rendered = 0 /\ crashes = 0

Move(w, from, to) == pc[w] = from /\ pc' = [pc EXCEPT ![w] = to]

-----------------------------------------------------------------------------
Call(w) ==
  /\ rendered < MaxWrites
  /\ Move(w, "idle", "lock")
  /\ rendered' = rendered + 1
  /\ asked' = [asked EXCEPT ![w] = rendered + 1]
  /\ UNCHANGED <<file, tmp, backups, stamp, holder, clock, setBacks, crashes>>

\* Mutant: no mutex.
AcquireAnyway(w) ==
  /\ Move(w, "lock", "backup")
  /\ holder' = w
  /\ UNCHANGED <<file, tmp, backups, stamp, asked, counters>>

Acquire(w) ==
  /\ holder = NoWriter
  /\ Move(w, "lock", "backup")
  /\ holder' = w
  /\ UNCHANGED <<file, tmp, backups, stamp, asked, counters>>

\* Mutant: the time in the name is rounded up.
BackupRoundedUp(w) ==
  /\ \/ /\ file = Absent
        /\ Move(w, "backup", "create")
        /\ UNCHANGED <<backups, stamp>>
     \/ /\ file # Absent
        /\ Move(w, "backup", "copy")
        /\ backups' = {b \in backups : b.at # clock + 1}
                         \cup {[at |-> clock + 1, of |-> Partial]}
        /\ stamp' = clock + 1
  /\ UNCHANGED <<file, tmp, holder, asked, counters>>

\* backupCurrent: nothing to back up, or the backup file is truncated ...
Backup(w) ==
  /\ \/ /\ file = Absent
        /\ Move(w, "backup", "create")
        /\ UNCHANGED backups
     \/ /\ file # Absent
        /\ Move(w, "backup", "copy")
        /\ backups' = {b \in backups : b.at # clock} \cup {[at |-> clock, of |-> Partial]}
  /\ stamp' = clock
  /\ UNCHANGED <<file, tmp, holder, asked, counters>>

\* ... and filled.  The name was made when it was opened.
Copy(w) ==
  /\ Move(w, "copy", "prune")
  /\ backups' = {b \in backups : b.at # stamp} \cup {[at |-> stamp, of |-> file]}
  /\ UNCHANGED <<file, tmp, stamp, holder, asked, counters>>

\* Mutants: one backup too few is kept, one too many.
PruneOneMore(w) ==
  /\ \/ /\ Cardinality(backups) > Keep - 1
        /\ \E b \in backups : /\ \A c \in backups : b.at <= c.at
                              /\ backups' = backups \ {b}
        /\ Move(w, "prune", "prune")
     \/ /\ Cardinality(backups) <= Keep - 1
        /\ Move(w, "prune", "create")
        /\ UNCHANGED backups
  /\ UNCHANGED <<file, tmp, stamp, holder, asked, counters>>

PruneOneOnly(w) ==
  /\ Move(w, "prune", "create")
  /\ \/ /\ Cardinality(backups) > Keep
        /\ \E b \in backups : /\ \A c \in backups : b.at <= c.at
                              /\ backups' = backups \ {b}
     \/ Cardinality(backups) <= Keep /\ UNCHANGED backups
  /\ UNCHANGED <<file, tmp, stamp, holder, asked, counters>>

\* pruneBackups: while there are too many, the one whose name sorts first.
Prune(w) ==
  /\ \/ /\ Cardinality(backups) > Keep
        /\ \E b \in backups : /\ \A c \in backups : b.at <= c.at
                              /\ backups' = backups \ {b}
        /\ Move(w, "prune", "prune")
     \/ /\ Cardinality(backups) <= Keep
        /\ Move(w, "prune", "create")
        /\ UNCHANGED backups
  /\ UNCHANGED <<file, tmp, stamp, holder, asked, counters>>

CreateTmp(w) ==
  /\ Move(w, "create", "fill")
  /\ tmp' = Partial
  /\ UNCHANGED <<file, backups, stamp, holder, asked, counters>>

FillTmp(w) ==
  /\ Move(w, "fill", "validate")
  /\ tmp' = asked[w]
  /\ UNCHANGED <<file, backups, stamp, holder, asked, counters>>

\* validateWithTestparm; a rejected file is removed.
Validate(w) ==
  /\ \/ Accepted(tmp) /\ Move(w, "validate", "rename") /\ UNCHANGED tmp
     \/ ~Accepted(tmp) /\ Move(w, "validate", "unlock") /\ tmp' = Absent
  /\ UNCHANGED <<file, backups, stamp, holder, asked, counters>>

Rename(w) ==
  /\ Move(w, "rename", "unlock")
  /\ file' = tmp
  /\ tmp' = Absent
  /\ asked' = [asked EXCEPT ![w] = Absent]
  /\ UNCHANGED <<backups, stamp, holder, counters>>

\* Mutant: no deferred Unlock.
ReturnLocked(w) ==
  /\ Move(w, "unlock", "idle")
  /\ asked' = [asked EXCEPT ![w] = Absent]
  /\ UNCHANGED <<file, tmp, backups, stamp, holder, counters>>

\* The deferred Unlock.
Return(w) ==
  /\ Move(w, "unlock", "idle")
  /\ holder' = NoWriter
  /\ asked' = [asked EXCEPT ![w] = Absent]
  /\ UNCHANGED <<file, tmp, backups, stamp, counters>>

\* A file operation fails: the temporary or backup file stays as it is.
Fail(w) ==
  /\ Faults
  /\ pc[w] \in {"backup", "copy", "prune", "create", "fill", "validate", "rename"}
  /\ pc' = [pc EXCEPT ![w] = "unlock"]
  /\ UNCHANGED <<file, tmp, backups, stamp, holder, asked, counters>>

Crash ==
  /\ crashes < MaxCrashes
  /\ crashes' = crashes + 1
  /\ holder' = NoWriter
  /\ pc' = [w \in Writer |-> "idle"]
  /\ asked' = [w \in Writer |-> Absent]
  /\ UNCHANGED <<file, tmp, backups, stamp, clock, setBacks, rendered>>

Tick ==
  /\ clock < MaxClock
  /\ clock' = clock + 1
  /\ UNCHANGED <<file, tmp, backups, stamp, holder, pc, asked, setBacks, rendered,
                 crashes>>

\* The wall clock is corrected, by NTP or by hand.
SetBack ==
  /\ setBacks < MaxSetBacks /\ clock > 0
  /\ clock' = clock - 1
  /\ setBacks' = setBacks + 1
  /\ UNCHANGED <<file, tmp, backups, stamp, holder, pc, asked, rendered, crashes>>

Work(w) ==
  \/ Backup(w) \/ Copy(w) \/ Prune(w) \/ CreateTmp(w) \/ FillTmp(w)
  \/ Validate(w) \/ Rename(w) \/ Return(w) \/ Fail(w)

Next ==
  \/ \E w \in Writer : Call(w) \/ Acquire(w) \/ Work(w)
  \/ Crash \/ Tick \/ SetBack

Spec == Init /\ [][Next]_vars

\* File operations and testparm return; a sync.Mutex goes to each waiter in
\* the end.
FairSpec ==
  /\ Spec
  /\ \A w \in Writer : WF_vars(Work(w)) /\ SF_vars(Acquire(w))

-----------------------------------------------------------------------------
(* Properties *)

Stored == 0 .. MaxWrites + 2

TypeOK ==
  /\ file \in Stored /\ tmp \in Stored
  /\ backups \subseteq [at : 0 .. MaxClock, of : Stored]
  /\ stamp \in 0 .. MaxClock
  /\ holder \in Writer \cup {NoWriter}
  /\ pc \in [Writer -> {"idle", "lock", "backup", "copy", "prune", "create", "fill",
                        "validate", "rename", "unlock"}]
  /\ asked \in [Writer -> 0 .. MaxWrites]
  /\ clock \in 0 .. MaxClock /\ setBacks \in 0 .. MaxSetBacks
  /\ rendered \in 0 .. MaxWrites /\ crashes \in 0 .. MaxCrashes

\* smb.conf changes only whole, to the version the call rendered and testparm
\* accepted: the shared temporary file, failures and crashes included.
File == INSTANCE ConfFile WITH file <- file, asked <- asked
Refines == File!Spec

\* A whole copy of the current version is among the backups, unless the name
\* of the one made last is older than those of as many as are kept.
BackedUp ==
  \/ \E b \in backups : b.of = file
  \/ Cardinality({b \in backups : b.at > stamp}) >= Keep

\* When a version is replaced, it is backed up; only a clock that was set
\* back makes the pruning take the fresh copy.
ReplacedIsBackedUp == [][file' # file => file = Absent \/ BackedUp]_vars

\* A write that replaces the file leaves no more backups than configured,
\* even if an earlier one was cut off before it had pruned.
BackupsBounded ==
  [][file' # file /\ file # Absent => Cardinality(backups) <= Keep]_vars

\* Every call of Write returns.
WritesReturn == \A w \in Writer : pc[w] # "idle" ~> pc[w] = "idle"
=============================================================================
