-------------------------- MODULE ConfGeneratorProofs --------------------------
(***************************************************************************)
(* Generator.Write implements the atomic replacement of ConfFile, for any  *)
(* number of writers, versions, restarts and failures, and replaces only   *)
(* what it has backed up.  What makes it so is that the temporary file and *)
(* the backups belong to whoever holds the mutex.                          *)
(***************************************************************************)
EXTENDS ConfGenerator, FiniteSetTheorems, TLAPS

Place == {"idle", "lock", "backup", "copy", "prune", "create", "fill",
          "validate", "rename", "unlock"}
Inside == Place \ {"idle", "lock"}
Pruned == {"create", "fill", "validate", "rename"}

\* Only the holder of the mutex is inside Write.
MutualExclusion == \A w \in Writer : pc[w] \in Inside => holder = w

\* From its check on, the temporary file holds what this call rendered, and
\* it is renamed only if testparm has accepted it.
TmpIsOwn ==
  \A w \in Writer :
    /\ pc[w] \in {"validate", "rename"} => tmp = asked[w]
    /\ pc[w] = "rename" => Accepted(asked[w])

\* A call has a version exactly until it has replaced the file.
AskedWhileCalled ==
  \A w \in Writer :
    /\ pc[w] = "idle" => asked[w] = Absent
    /\ pc[w] \notin {"idle", "unlock"} => asked[w] # Absent

\* No two backups have the same name, and there are finitely many.
NamesDiffer ==
  /\ IsFiniteSet(backups)
  /\ \A b, c \in backups : b.at = c.at => b = c

\* What has been done to the backups when a call has come so far.
BackupsReady ==
  \A w \in Writer :
    /\ pc[w] = "copy" => \E b \in backups : b.at = stamp
    /\ pc[w] = "prune" => \/ \E b \in backups : b.at = stamp /\ b.of = file
                         \/ Cardinality({b \in backups : b.at > stamp}) >= Keep
    /\ pc[w] \in Pruned /\ file # Absent => BackedUp /\ Cardinality(backups) <= Keep

IInv ==
  /\ TypeOK /\ MutualExclusion /\ TmpIsOwn /\ AskedWhileCalled
  /\ NamesDiffer /\ BackupsReady

LEMMA KeepIsNat == Keep \in Nat
BY GeneratorAssumption DEF Keep

LEMMA InitIInv == Init => IInv
BY GeneratorAssumption, FS_EmptySet DEF Init, IInv, TypeOK, MutualExclusion, TmpIsOwn,
   AskedWhileCalled, NamesDiffer, BackupsReady, Place, Inside, Pruned, Stored, Absent,
   Original

\* A backup written under the name of a second replaces the one of that name.
LEMMA NameTaken ==
  ASSUME NamesDiffer, NEW at, NEW of,
         backups' = {b \in backups : b.at # at} \cup {[at |-> at, of |-> of]}
  PROVE  NamesDiffer'
<1>1. IsFiniteSet({b \in backups : b.at # at})
  BY FS_Subset DEF NamesDiffer
<1>2. IsFiniteSet(backups')
  BY <1>1, FS_AddElement
<1> QED BY <1>2 DEF NamesDiffer

\* Pruning the backup with the oldest name, when there are too many.
LEMMA PruneKeeps ==
  ASSUME TypeOK, NamesDiffer, NEW b \in backups, \A c \in backups : b.at <= c.at,
         Cardinality(backups) > Keep, backups' = backups \ {b},
         UNCHANGED <<file, stamp>>,
         \/ \E c \in backups : c.at = stamp /\ c.of = file
         \/ Cardinality({c \in backups : c.at > stamp}) >= Keep
  PROVE  /\ NamesDiffer'
         /\ \/ \E c \in backups' : c.at = stamp /\ c.of = file
            \/ Cardinality({c \in backups' : c.at > stamp}) >= Keep
<1> DEFINE Later == {c \in backups : c.at > stamp}
<1>1. /\ IsFiniteSet(backups') /\ Cardinality(backups') = Cardinality(backups) - 1
      /\ Cardinality(backups) \in Nat
  BY FS_RemoveElement, FS_CardinalityType DEF NamesDiffer
<1>2. /\ \A c \in backups : c.at \in Int
      /\ stamp \in Int
  BY GeneratorAssumption DEF TypeOK
<1>3. NamesDiffer'
  BY <1>1 DEF NamesDiffer
<1>4. CASE b.at = stamp
  <2>1. \A c \in backups' : c.at > stamp
    BY <1>2, <1>4 DEF NamesDiffer
  <2>2. {c \in backups' : c.at > stamp} = backups'
    BY <2>1
  <2>3. Cardinality(backups') >= Keep
    BY <1>1, KeepIsNat
  <2> QED BY <1>3, <2>2, <2>3, Zenon
<1>5. CASE b.at > stamp
  <2>1. \A c \in backups : c.at > stamp
    BY <1>2, <1>5
  <2>2. {c \in backups' : c.at > stamp} = backups'
    BY <2>1
  <2>3. Cardinality(backups') >= Keep
    BY <1>1, KeepIsNat
  <2> QED BY <1>3, <2>2, <2>3, Zenon
<1>6. CASE b.at < stamp
  <2>1. {c \in backups' : c.at > stamp} = Later
    BY <1>2, <1>6
  <2>2. \A c \in backups : c.at = stamp => c \in backups'
    BY <1>2, <1>6
  <2> QED BY <1>3, <2>1, <2>2
<1> QED BY <1>2, <1>4, <1>5, <1>6

\* While one writer is inside Write, the others are outside.
LEMMA OnlyOneInside ==
  ASSUME TypeOK, MutualExclusion, NEW w \in Writer, pc[w] \in Inside
  PROVE  \A v \in Writer : v # w => pc[v] \in {"idle", "lock"}
BY DEF TypeOK, MutualExclusion, Inside, Place

\* The steps of one writer inside Write, and what the others keep.
LEMMA WorkIInv ==
  ASSUME IInv, NEW w \in Writer, Work(w)
  PROVE  IInv'
<1> USE GeneratorAssumption DEF IInv, TypeOK, MutualExclusion, TmpIsOwn,
        AskedWhileCalled, BackupsReady, BackedUp, Place, Inside, Pruned, Move, Absent,
        Stored, counters
<1>1. CASE Backup(w)
  <2>1. NamesDiffer'
    BY <1>1, NameTaken DEF Backup, NamesDiffer
  <2>2. TypeOK'
    BY <1>1 DEF Backup, Partial
  <2>3. (MutualExclusion /\ TmpIsOwn /\ AskedWhileCalled)'
    BY <1>1 DEF Backup
  <2>4. \A v \in Writer : v # w => pc'[v] \in {"idle", "lock"}
    BY <1>1, OnlyOneInside DEF Backup
  <2>5. pc'[w] = "copy" => \E b \in backups' : b.at = stamp'
    <3>1. pc'[w] = "copy" => [at |-> clock, of |-> Partial] \in backups'
      BY <1>1 DEF Backup
    <3> QED BY <1>1, <3>1 DEF Backup
  <2>6. pc'[w] = "copy" \/ (pc'[w] = "create" /\ file' = Absent)
    BY <1>1 DEF Backup
  <2>7. BackupsReady'
    BY <2>4, <2>5, <2>6
  <2> QED BY <2>1, <2>2, <2>3, <2>7
<1>2. CASE Copy(w)
  <2>1. NamesDiffer'
    BY <1>2, NameTaken DEF Copy
  <2>2. TypeOK'
    BY <1>2 DEF Copy
  <2>3. (MutualExclusion /\ TmpIsOwn /\ AskedWhileCalled)'
    BY <1>2 DEF Copy
  <2>4. \A v \in Writer : v # w => pc'[v] \in {"idle", "lock"}
    BY <1>2, OnlyOneInside DEF Copy
  <2>5. pc'[w] = "prune" /\ [at |-> stamp, of |-> file] \in backups'
    BY <1>2 DEF Copy
  <2>6. \E b \in backups' : b.at = stamp' /\ b.of = file'
    BY <1>2, <2>5 DEF Copy
  <2>7. BackupsReady'
    BY <2>4, <2>5, <2>6
  <2> QED BY <2>1, <2>2, <2>3, <2>7
<1>3. CASE Prune(w)
  <2>1. CASE Cardinality(backups) > Keep /\ pc' = [pc EXCEPT ![w] = "prune"]
    <3>1. PICK b \in backups : /\ \A c \in backups : b.at <= c.at
                               /\ backups' = backups \ {b}
      BY <1>3, <2>1 DEF Prune
    <3>2. /\ NamesDiffer'
          /\ \/ \E c \in backups' : c.at = stamp /\ c.of = file
             \/ Cardinality({c \in backups' : c.at > stamp}) >= Keep
      BY <1>3, <2>1, <3>1, PruneKeeps DEF Prune
    <3> QED BY <1>3, <2>1, <3>1, <3>2 DEF Prune
  <2>2. CASE Cardinality(backups) <= Keep /\ Move(w, "prune", "create")
             /\ UNCHANGED backups
    BY <1>3, <2>2 DEF Prune, NamesDiffer
  <2> QED BY <1>3, <2>1, <2>2 DEF Prune
<1>4. CASE CreateTmp(w)
  BY <1>4 DEF CreateTmp, NamesDiffer, Partial
<1>5. CASE FillTmp(w)
  BY <1>5 DEF FillTmp, NamesDiffer
<1>6. CASE Validate(w)
  BY <1>6 DEF Validate, NamesDiffer
<1>7. CASE Rename(w)
  BY <1>7 DEF Rename, NamesDiffer
<1>8. CASE Return(w)
  BY <1>8 DEF Return, NamesDiffer
<1>9. CASE Fail(w)
  BY <1>9 DEF Fail, NamesDiffer
<1> QED BY <1>1, <1>2, <1>3, <1>4, <1>5, <1>6, <1>7, <1>8, <1>9 DEF Work

LEMMA StepIInv == IInv /\ [Next]_vars => IInv'
<1> SUFFICES ASSUME IInv, [Next]_vars PROVE IInv'
  OBVIOUS
<1> USE GeneratorAssumption DEF IInv, TypeOK, MutualExclusion, TmpIsOwn,
        AskedWhileCalled, NamesDiffer, BackupsReady, BackedUp, Place, Inside, Pruned,
        Move, Absent, Stored
<1>1. ASSUME NEW w \in Writer, Call(w) PROVE IInv'
  BY <1>1 DEF Call
<1>2. ASSUME NEW w \in Writer, Acquire(w) PROVE IInv'
  BY <1>2 DEF Acquire, counters
<1>3. ASSUME NEW w \in Writer, Work(w) PROVE IInv'
  BY <1>3, WorkIInv
<1>4. CASE Crash
  BY <1>4 DEF Crash
<1>5. CASE Tick \/ SetBack \/ UNCHANGED vars
  BY <1>5 DEF Tick, SetBack, vars
<1> QED BY <1>1, <1>2, <1>3, <1>4, <1>5 DEF Next

\* The strengthening holds in every reachable state.
THEOREM GeneratorInvariant == Spec => []IInv
BY InitIInv, StepIInv, PTL DEF Spec

\* Every variable keeps its type.
THEOREM GeneratorTyped == Spec => []TypeOK
BY GeneratorInvariant, PTL DEF IInv

\* The file changes in Rename only, which finds the backups ready.
LEMMA StepBackedUp ==
  ASSUME IInv, [Next]_vars, file' # file
  PROVE  file = Absent \/ (BackedUp /\ Cardinality(backups) <= Keep)
<1>1. PICK w \in Writer : Rename(w)
  BY DEF Next, Call, Acquire, Work, Backup, Copy, Prune, CreateTmp, FillTmp, Validate,
     Return, Fail, Crash, Tick, SetBack, vars
<1> QED BY <1>1 DEF IInv, BackupsReady, Pruned, Rename, Move

\* What a write replaces is backed up, unless the clock stands behind as many
\* names as are kept.
THEOREM GeneratorBacksUp == Spec => ReplacedIsBackedUp
<1>1. IInv /\ [Next]_vars =>
        [file' # file => file = Absent \/ BackedUp]_vars
  BY StepBackedUp
<1> QED BY <1>1, GeneratorInvariant, PTL DEF Spec, ReplacedIsBackedUp

\* A write that replaces the file leaves no more backups than configured.
THEOREM GeneratorBounded == Spec => BackupsBounded
<1>1. IInv /\ [Next]_vars =>
        [file' # file /\ file # Absent => Cardinality(backups) <= Keep]_vars
  BY StepBackedUp
<1> QED BY <1>1, GeneratorInvariant, PTL DEF Spec, BackupsBounded

-----------------------------------------------------------------------------
LEMMA InitRefines == Init => File!Init
BY DEF Init, File!Init, Absent, Original, File!Absent, File!Original

\* A call begins with Ask, takes effect with Rename and gives up, if it has
\* not, with Return; every other step of a writer leaves ConfFile's state.
LEMMA StepRefines == IInv /\ [Next]_vars => [File!Next]_<<file, asked>>
<1> SUFFICES ASSUME IInv, [Next]_vars PROVE [File!Next]_<<file, asked>>
  OBVIOUS
<1> USE GeneratorAssumption DEF IInv, TypeOK, Move, Absent, File!Absent
<1>1. ASSUME NEW w \in Writer, Call(w) PROVE File!Ask(w)
  <2>1. rendered + 1 \in File!Version /\ asked[w] = Absent
    BY <1>1 DEF Call, AskedWhileCalled, File!Version
  <2>2. asked' = [asked EXCEPT ![w] = rendered + 1] /\ UNCHANGED file
    BY <1>1 DEF Call
  <2> QED BY <2>1, <2>2 DEF File!Ask
<1>2. ASSUME NEW w \in Writer, Rename(w) PROVE File!Replace(w)
  BY <1>2 DEF Rename, AskedWhileCalled, TmpIsOwn, File!Replace, Accepted, File!Accepted
<1>3. ASSUME NEW w \in Writer, Return(w)
      PROVE  File!GiveUp(w) \/ UNCHANGED <<file, asked>>
  BY <1>3 DEF Return, File!GiveUp
<1>4. CASE Crash
  BY <1>4 DEF Crash, File!Crash, File!Next
<1>5. ASSUME NEW w \in Writer, Acquire(w) PROVE UNCHANGED <<file, asked>>
  BY <1>5 DEF Acquire
<1>6. ASSUME NEW w \in Writer,
             Work(w), ~Rename(w), ~Return(w)
      PROVE  UNCHANGED <<file, asked>>
  BY <1>6 DEF Work, Backup, Copy, Prune, CreateTmp, FillTmp, Validate, Fail
<1>7. CASE Tick \/ SetBack \/ UNCHANGED vars
  BY <1>7 DEF Tick, SetBack, vars
<1> QED BY <1>1, <1>2, <1>3, <1>4, <1>5, <1>6, <1>7 DEF Next, File!Next

\* Generator.Write replaces smb.conf whole, by what testparm accepted of that
\* very call, or not at all: whatever interleaves, fails or is cut off.
THEOREM GeneratorRefines == Spec => Refines
BY GeneratorInvariant, InitRefines, StepRefines, PTL DEF Spec, Refines, File!Spec
=============================================================================
