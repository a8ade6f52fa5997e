------------------------- MODULE SmbEnforcementProofs -------------------------
(***************************************************************************)
(* That the service implements Enforcement, when no two handlers work at a *)
(* time: either there is one process, or only the operations that take the *)
(* mutex are requested, from any number of processes, with the cleanup and *)
(* the repair at start among them.                                         *)
(* And that every handler which has changed a row goes on to its apply.    *)
(***************************************************************************)
EXTENDS SmbControlProofs

Locking == Ops \subseteq {"setPermission", "bulk", "repair"}

Exclusion == (\A p, q \in Proc : p = q) \/ Locking

\* At most one section, which ends the handler, and no inner operations.
OneSection(s) == \A i \in 1 .. Len(s) :
  s[i] # "nextGrant" /\ (s[i] = "unlock" => i = Len(s))

\* With the locking operations only, a process works only while it owns the
\* mutex.
LockingInv == Locking => \A p \in Proc :
  /\ prog[p] = <<>> \/ At(p, "lock") \/ mu = p
  /\ ~job[p].temp
  /\ OneSection(prog[p])

Within(p, S) == \E s \in S : At(p, s)

\* What p has read or written of an apply is what the tables say now.
Fresh(p) ==
  /\ Within(p, {"readVolumes", "readGrants", "ensureShares", "writeConf"}) =>
       snap[p].settings = settings
  /\ Within(p, {"readGrants", "ensureShares", "writeConf"}) =>
       snap[p].volumes = EnabledVolumes
  /\ Within(p, {"ensureShares", "writeConf"}) => snap[p].grants = ForConfig
  /\ Within(p, {"reload", "restart"}) => conf = Described

FreshInv == \A p \in Proc : Fresh(p)

\* No other process is past its Lock.
Alone(p) == \A q \in Proc \ {p} : prog[q] = <<>> \/ At(q, "lock")

-----------------------------------------------------------------------------
(* One section at a time. *)

LEMMA TailOneSection ==
  ASSUME NEW s \in Seq(Step), s # <<>>, OneSection(s)
  PROVE  /\ OneSection(Tail(s)) /\ Head(s) # "nextGrant"
         /\ Head(s) = "unlock" => Tail(s) = <<>>
<1> DEFINE t == Tail(s)
<1>1. /\ Len(s) \in Nat /\ Len(s) > 0 /\ Len(t) = Len(s) - 1
      /\ t \in Seq(Step) /\ Head(s) = s[1]
      /\ \A i \in 1 .. Len(s) - 1 : t[i] = s[i + 1]
  BY TailIndex
<1> HIDE DEF t
<1>2. ASSUME NEW i \in 1 .. Len(t)
      PROVE  t[i] # "nextGrant" /\ (t[i] = "unlock" => i = Len(t))
  <2>1. i + 1 \in 1 .. Len(s) /\ t[i] = s[i + 1]
    BY <1>1, <1>2
  <2>2. s[i + 1] # "nextGrant" /\ (s[i + 1] = "unlock" => i + 1 = Len(s))
    BY <2>1 DEF OneSection
  <2> QED BY <1>1, <2>1, <2>2
<1>3. 1 \in 1 .. Len(s)
  BY <1>1
<1>4. s[1] # "nextGrant" /\ (s[1] = "unlock" => 1 = Len(s))
  BY <1>3 DEF OneSection
<1>5. Len(t) = 0 => t = <<>>
  BY <1>1, EmptySeq
<1>6. OneSection(t)
  BY <1>2 DEF OneSection
<1> QED BY <1>1, <1>4, <1>5, <1>6 DEF t

LEMMA BareOneSection ==
  ASSUME NEW x \in Seq(Step), NEW s \in Seq(Step), Bare(x), OneSection(s)
  PROVE  OneSection(x \o s)
<1> DEFINE n == Len(x)
           t == x \o s
<1>1. /\ n \in Nat /\ Len(s) \in Nat /\ Len(t) = n + Len(s)
      /\ \A i \in 1 .. n : t[i] = x[i]
      /\ \A i \in 1 .. Len(s) : t[n + i] = s[i]
      /\ \A i \in 1 .. Len(t) : i <= n \/ i - n \in 1 .. Len(s)
  BY ConcatIndex
<1> SUFFICES ASSUME NEW i \in 1 .. Len(t)
             PROVE  t[i] # "nextGrant" /\ (t[i] = "unlock" => i = Len(t))
  BY DEF OneSection
<1>2. CASE i <= n
  BY <1>1, <1>2 DEF Bare
<1>3. CASE i - n \in 1 .. Len(s)
  <2>1. t[n + (i - n)] = s[i - n] /\ n + (i - n) = i
    BY <1>1, <1>3
  <2> QED BY <1>1, <1>3, <2>1 DEF OneSection
<1> QED BY <1>1, <1>2, <1>3

LEMMA StepsOneSection ==
  /\ OneSection(<<>>) /\ OneSection(<<"unlock">>)
  /\ OneSection(SetPermissionSteps) /\ OneSection(BulkSteps)
  /\ OneSection(RepairVolumeSteps) /\ OneSection(RepairAllSteps)
  /\ OneSection(CleanupSteps)
<1>1. OneSection(<<>>) /\ OneSection(<<"unlock">>)
  BY DEF OneSection
<1>2. OneSection(RepairVolumeSteps) /\ OneSection(RepairAllSteps) /\ OneSection(CleanupSteps)
  BY DEF OneSection, RepairVolumeSteps, RepairAllSteps, CleanupSteps
<1>3. ASSUME NEW s \in Seq(Step), s[Len(s)] = "unlock",
             \A i \in 1 .. Len(s) - 1 : s[i] \notin {"unlock", "nextGrant"}
      PROVE  OneSection(s)
  BY <1>3 DEF OneSection
<1>4. OneSection(SetPermissionSteps) /\ OneSection(BulkSteps)
  BY <1>3, GrantStartable DEF Startable, Sound
<1> QED BY <1>1, <1>2, <1>4

LEMMA LockFirst ==
  \A s \in {SetPermissionSteps, BulkSteps, RepairVolumeSteps, RepairAllSteps, CleanupSteps} :
    s # <<>> /\ Head(s) = "lock"
<1>1. /\ RepairVolumeSteps # <<>> /\ Head(RepairVolumeSteps) = "lock"
      /\ RepairAllSteps # <<>> /\ Head(RepairAllSteps) = "lock"
      /\ CleanupSteps # <<>> /\ Head(CleanupSteps) = "lock"
  BY DEF RepairVolumeSteps, RepairAllSteps, CleanupSteps
<1>2. ASSUME NEW s \in Seq(Step), Len(s) > 1, s[1] = "lock"
      PROVE  s # <<>> /\ Head(s) = "lock"
  BY <1>2, EmptySeq, TailIndex
<1> QED BY <1>1, <1>2, GrantStartable DEF Startable, Sound

LEMMA AdvancesOneSection ==
  ASSUME ProcInv, LockingInv, Locking, NEW p \in Proc, Advances(p)
  PROVE  \E s : prog' = [prog EXCEPT ![p] = s] /\ OneSection(s)
<1> DEFINE old == prog[p]
           t == Tail(old)
<1>1. old \in Seq(Step) /\ OneSection(old) /\ ~job[p].temp
  BY DEF ProcInv, LockingInv
<1>2. old # <<>> => t \in Seq(Step) /\ OneSection(t) /\ Head(old) # "nextGrant"
  BY <1>1, TailOneSection, TailIndex
<1> HIDE DEF t, old
<1>3. CASE old # <<>> /\ prog' = [prog EXCEPT ![p] = t]
  BY <1>2, <1>3
<1>4. CASE prog' = [prog EXCEPT ![p] = Unwind(p)]
  BY <1>4, StepsOneSection DEF Unwind
<1>5. CASE At(p, "lookup") /\ prog' = [prog EXCEPT ![p] = <<"useradd">> \o t]
  <2>1. Bare(<<"useradd">>) /\ <<"useradd">> \in Seq(Step)
    BY DEF Bare, Step, CmdSteps
  <2>2. OneSection(<<"useradd">> \o t)
    BY <2>1, <1>2, <1>5, BareOneSection DEF At, old
  <2> QED BY <2>2, <1>5
<1>6. CASE /\ At(p, "selectExpired")
           /\ prog' = [prog EXCEPT ![p] = (<<"nextExpired">> \o ApplySteps) \o t]
  <2> DEFINE x == <<"nextExpired">> \o ApplySteps
  <2>1. Piece(<<"nextExpired">>) /\ <<"nextExpired">>[Len(<<"nextExpired">>)] = "nextExpired"
    BY DEF Piece, Bare, Chained, Step
  <2>2. Bare(x) /\ x \in Seq(Step)
    BY <2>1, ApplyPiece, PieceConcat DEF Link, Piece
  <2> HIDE DEF x
  <2>3. OneSection(x \o t)
    BY <2>2, <1>2, <1>6, BareOneSection DEF At, old
  <2> QED BY <2>3, <1>6 DEF x
<1>7. CASE At(p, "nextExpired") /\ prog' = [prog EXCEPT ![p] = ExpiredSteps \o old]
  <2>1. Bare(ExpiredSteps) /\ ExpiredSteps \in Seq(Step)
    BY DEF ExpiredSteps, Bare, Step, DbSteps, CmdSteps
  <2>2. OneSection(ExpiredSteps \o old)
    BY <2>1, <1>1, BareOneSection
  <2> QED BY <2>2, <1>7
<1>8. CASE prog' = [prog EXCEPT ![p] = old]
  BY <1>1, <1>8
<1>9. ~At(p, "nextGrant")
  BY <1>2 DEF At, old
<1> QED BY <1>1, <1>3, <1>4, <1>5, <1>6, <1>7, <1>8, <1>9 DEF Advances, t, old

LEMMA RunKeepsLocking ==
  ASSUME ProcInv, ControlInv, LockingInv, NEW p \in Proc, Run(p)
  PROVE  LockingInv'
<1> SUFFICES ASSUME Locking PROVE LockingInv'
  BY DEF LockingInv, Locking
<1>1. CASE Unlock(p)
  <2>1. prog[p] # <<>> /\ Head(prog[p]) = "unlock" /\ mu = p
    BY <1>1, UnlockKeepsControl DEF Unlock, At
  <2>2. prog' = [prog EXCEPT ![p] = <<>>] /\ job' = [job EXCEPT ![p] = NoJob]
    BY <1>1, <2>1, TailOneSection
       DEF Unlock, Done, Continue, Goto, LockingInv, ProcInv
  <2>3. ~NoJob.temp
    BY DEF NoJob
  <2>4. \A q \in Proc : q # p => prog[q] = <<>> \/ At(q, "lock")
    BY <2>1 DEF LockingInv
  <2> QED BY <2>2, <2>3, <2>4, StepsOneSection DEF LockingInv, ProcInv, At
<1>2. CASE ~Unlock(p)
  <2>1. Advances(p) /\ TempKept /\ mu' = mu /\ Within(p, Step \ {"lock", "unlock"})
    <3>1. CASE Ordinary(p)
      BY <3>1 DEF Ordinary, Elsewhere, Within
    <3>2. CASE Applying(p)
      BY <3>2 DEF Applying, ApplyStep, Step, DbSteps, CmdSteps, Within
    <3>3. CASE Fail(p)
      BY <3>3, FailControl DEF Within
    <3> QED BY <1>2, <3>1, <3>2, <3>3, RunControl
  <2>2. PICK s : prog' = [prog EXCEPT ![p] = s] /\ OneSection(s)
    BY <2>1, AdvancesOneSection
  <2>3. mu = p
    BY <2>1 DEF Within, At, LockingInv
  <2> QED BY <2>1, <2>2, <2>3 DEF LockingInv, TempKept, At, ProcInv
<1> QED BY <1>1, <1>2

LEMMA NextLocking ==
  ProcInv /\ ControlInv /\ LockingInv /\ [Next]_vars => LockingInv'
<1> SUFFICES ASSUME ProcInv, ControlInv, LockingInv, Locking, [Next]_vars
             PROVE  LockingInv'
  BY DEF LockingInv, Locking
<1>0. ~NoJob.temp
  BY DEF NoJob
<1>1. ASSUME NEW p \in Proc, NEW j, ~j.temp, mu' = mu,
             NEW s, s \in {SetPermissionSteps, BulkSteps, RepairVolumeSteps, CleanupSteps},
             Goto(p, s, j)
      PROVE  LockingInv'
  <2>1. s # <<>> /\ Head(s) = "lock" /\ OneSection(s)
    BY <1>1, LockFirst, StepsOneSection
  <2>2. prog' = [prog EXCEPT ![p] = s] /\ job' = [job EXCEPT ![p] = j]
    BY <1>1, <2>1 DEF Goto
  <2> QED BY <1>1, <2>1, <2>2 DEF LockingInv, ProcInv, At
<1>2. ASSUME NEW p \in Worker, Request(p) PROVE LockingInv'
  <2>1. p \in Proc
    BY DEF Proc
  <2>2. PICK op, steps, j :
          /\ Begin(p, op, steps, j) /\ ~j.temp
          /\ steps \in {SetPermissionSteps, BulkSteps, RepairVolumeSteps}
    BY <1>2, <2>1, RequestStarts DEF Locking
  <2> QED BY <1>1, <2>1, <2>2 DEF Begin
<1>3. ASSUME NEW p \in Janitor, Tick(p) PROVE LockingInv'
  BY <1>0, <1>1, <1>3 DEF Tick, Moves, Proc
<1>4. ASSUME NEW p \in Proc, Lock(p) PROVE LockingInv'
  <2>1. /\ prog[p] # <<>> /\ mu' = p /\ mu = NoProc
        /\ prog' = [prog EXCEPT ![p] = Tail(prog[p])]
        /\ \A q \in Proc : ~job'[q].temp
    BY <1>0, <1>4 DEF Lock, Done, Continue, Goto, At, LockingInv, ProcInv
  <2>2. OneSection(Tail(prog[p]))
    BY <2>1, TailOneSection DEF LockingInv, ProcInv
  <2>3. \A q \in Proc : mu # q
    BY <2>1, ProcAssumption
  <2> QED BY <2>1, <2>2, <2>3 DEF LockingInv, ProcInv, At
<1>5. CASE LeaseExpires \/ UNCHANGED vars
  BY <1>5 DEF LeaseExpires, vars, LockingInv, At
<1>6. CASE Crash
  BY <1>0, <1>6, LockFirst, StepsOneSection DEF Crash, AtStart, LockingInv, At
<1> QED BY <1>2, <1>3, <1>4, <1>5, <1>6, RunKeepsLocking DEF Next

LEMMA InitLocking == Init => LockingInv
<1>1. ~NoJob.temp
  BY DEF NoJob
<1> QED BY <1>1, LockFirst, StepsOneSection DEF Init, AtStart, LockingInv, At

-----------------------------------------------------------------------------
(* Who works, works alone. *)

LEMMA WorksAlone ==
  ASSUME Exclusion, ProcInv, LockingInv, NEW p \in Proc, prog[p] # <<>>, ~At(p, "lock")
  PROVE  Alone(p)
BY DEF Exclusion, LockingInv, Alone

\* A step of an apply is come to only from the step before it.
LEMMA Arrives ==
  ASSUME ProcInv, ControlInv, NEW p \in Proc, Advances(p),
         NEW x \in Linked, At(p, x)', ~At(p, x)
  PROVE  prog[p] # <<>> /\ prog'[p] = Tail(prog[p]) /\ Link(Head(prog[p]), x)
<1> DEFINE old == prog[p]
           t == Tail(old)
           new == prog'[p]
<1>1. old \in Seq(Step) /\ Chained(old) /\ new # <<>> /\ Head(new) = x
  BY DEF ProcInv, ControlInv, At
<1>2. old # <<>> => t \in Seq(Step) /\ (t # <<>> => Link(Head(old), Head(t)))
  BY <1>1, TailChained, TailIndex
<1>h. \A y, z \in Seq(Step) : y # <<>> => Head(y \o z) = Head(y)
  <2> SUFFICES ASSUME NEW y \in Seq(Step), NEW z \in Seq(Step), y # <<>>
               PROVE  Head(y \o z) = Head(y)
    OBVIOUS
  <2>1. Len(y) \in Nat /\ Len(y) > 0 /\ Head(y) = y[1]
    BY TailIndex
  <2>2. y \o z \in Seq(Step) /\ Len(y \o z) > 0 /\ (y \o z)[1] = y[1]
    BY <2>1, ConcatIndex
  <2>3. y \o z # <<>>
    BY <2>2, EmptySeq
  <2> QED BY <2>1, <2>2, <2>3, TailIndex
<1> HIDE DEF t, old
<1>4. new # Unwind(p)
  BY <1>1 DEF Unwind, Linked
<1>5. ~(mu = p /\ new = Unwind(p) \o <<"nextGrant">>)
  <2> SUFFICES ASSUME mu = p, new = Unwind(p) \o <<"nextGrant">> PROVE FALSE
    OBVIOUS
  <2>1. Head(new) = "unlock"
    BY DEF Unwind
  <2> QED BY <2>1, <1>1 DEF Linked
<1>6. ~(At(p, "lookup") /\ new = <<"useradd">> \o t)
  <2> SUFFICES ASSUME At(p, "lookup"), new = <<"useradd">> \o t PROVE FALSE
    OBVIOUS
  <2>1. <<"useradd">> \in Seq(Step) /\ <<"useradd">> # <<>> /\ Head(<<"useradd">>) = "useradd"
    BY DEF Step, CmdSteps
  <2>2. Head(new) = "useradd"
    BY <2>1, <1>2, <1>h DEF At, old
  <2> QED BY <2>2, <1>1 DEF Linked
<1>7. ~(At(p, "selectExpired") /\ new = (<<"nextExpired">> \o ApplySteps) \o t)
  <2> SUFFICES ASSUME At(p, "selectExpired"),
                      new = (<<"nextExpired">> \o ApplySteps) \o t
               PROVE  FALSE
    OBVIOUS
  <2>1. /\ <<"nextExpired">> \in Seq(Step) /\ <<"nextExpired">> # <<>>
        /\ Head(<<"nextExpired">>) = "nextExpired" /\ ApplySteps \in Seq(Step)
    BY ApplyPiece DEF Step, Piece
  <2>2. <<"nextExpired">> \o ApplySteps \in Seq(Step)
    BY <2>1, ConcatIndex
  <2>3. Head(<<"nextExpired">> \o ApplySteps) = "nextExpired"
    BY <2>1, <1>h
  <2>4. <<"nextExpired">> \o ApplySteps # <<>>
    BY <2>1
  <2>5. Head(new) = "nextExpired"
    BY <2>2, <2>3, <2>4, <1>2, <1>h DEF At, old
  <2> QED BY <2>5, <1>1 DEF Linked
<1>8. ~(At(p, "nextExpired") /\ new = ExpiredSteps \o old)
  <2> SUFFICES ASSUME new = ExpiredSteps \o old PROVE FALSE
    OBVIOUS
  <2>1. ExpiredSteps \in Seq(Step) /\ ExpiredSteps # <<>> /\ Head(ExpiredSteps) = "pdbDelete"
    BY DEF ExpiredSteps, Step, DbSteps, CmdSteps
  <2>2. Head(new) = "pdbDelete"
    BY <2>1, <1>1, <1>h
  <2> QED BY <2>2, <1>1 DEF Linked
<1>9. ~(At(p, "nextGrant") /\ new = SetPermissionSteps \o old)
  <2> SUFFICES ASSUME new = SetPermissionSteps \o old PROVE FALSE
    OBVIOUS
  <2>1. SetPermissionSteps \in Seq(Step)
    BY GrantStartable DEF Startable, Sound
  <2>2. Head(new) = "lock"
    BY <2>1, <1>1, <1>h, LockFirst
  <2> QED BY <2>2, <1>1 DEF Linked
<1>10. new # old
  BY <1>1 DEF At, old
<1>11. ASSUME NEW s, prog' = [prog EXCEPT ![p] = s] PROVE new = s
  BY <1>11 DEF ProcInv
<1> HIDE DEF new
<1>12. old # <<>> /\ new = t
  <2>1. \/ old # <<>> /\ prog' = [prog EXCEPT ![p] = t]
        \/ prog' = [prog EXCEPT ![p] = Unwind(p)]
        \/ mu = p /\ prog' = [prog EXCEPT ![p] = Unwind(p) \o <<"nextGrant">>]
        \/ At(p, "lookup") /\ prog' = [prog EXCEPT ![p] = <<"useradd">> \o t]
        \/ /\ At(p, "selectExpired")
           /\ prog' = [prog EXCEPT ![p] = (<<"nextExpired">> \o ApplySteps) \o t]
        \/ At(p, "nextExpired") /\ prog' = [prog EXCEPT ![p] = ExpiredSteps \o old]
        \/ At(p, "nextGrant") /\ prog' = [prog EXCEPT ![p] = SetPermissionSteps \o old]
        \/ prog' = [prog EXCEPT ![p] = old]
    BY DEF Advances, t, old
  <2> QED BY <2>1, <1>4, <1>5, <1>6, <1>7, <1>8, <1>9, <1>10, <1>11
<1>13. Link(Head(old), x)
  BY <1>1, <1>2, <1>12
<1> QED BY <1>12, <1>13 DEF t, old, new

-----------------------------------------------------------------------------
(* Applies stay fresh. *)

LEMMA SameTables ==
  ASSUME UNCHANGED tableVars
  PROVE  /\ settings' = settings /\ EnabledVolumes' = EnabledVolumes
         /\ ForConfig' = ForConfig /\ Described' = Described
BY DEF tableVars, EnabledVolumes, ForConfig, HasVolume, Described

\* Nobody's configuration asks for the lease.
LEMMA LeaseSameConfig ==
  ASSUME IInv, LeaseExpires
  PROVE  /\ settings' = settings /\ EnabledVolumes' = EnabledVolumes
         /\ ForConfig' = ForConfig /\ Described' = Described
<1>1. PICK u \in users : users' = (users \ {u}) \cup {[u EXCEPT !.lease = "expired"]}
  BY DEF LeaseExpires
<1>2. u \in UserRow
  BY DEF IInv, DataInv, StoreInv, StoreTypeOK
<1> DEFINE w == [u EXCEPT !.lease = "expired"]
<1>3. w.id = u.id /\ w.name = u.name /\ w.enabled = u.enabled
  BY <1>2 DEF UserRow
<1> HIDE DEF w
<1>4. users' = (users \ {u}) \cup {w}
  BY <1>1 DEF w
<1>5. \A id, n : (\E r \in users' : r.id = id /\ r.name = n /\ r.enabled)
                   <=> (\E r \in users : r.id = id /\ r.name = n /\ r.enabled)
  BY <1>3, <1>4
<1>6. volumes' = volumes /\ perms' = perms /\ settings' = settings
  BY DEF LeaseExpires
<1>7. ForConfig' = ForConfig
  BY <1>5, <1>6 DEF ForConfig
<1> QED BY <1>6, <1>7 DEF EnabledVolumes, Described

LEMMA OffApplyFresh ==
  ASSUME NEW p \in Proc, \A x \in Linked : ~At(p, x)'
  PROVE  Fresh(p)'
BY DEF Fresh, Within, Linked

LEMMA OthersFresh ==
  ASSUME ProcInv, NEW p \in Proc, Alone(p), NEW s, prog' = [prog EXCEPT ![p] = s],
         Fresh(p)'
  PROVE  FreshInv'
<1>1. ASSUME NEW q \in Proc, q # p PROVE Fresh(q)'
  <2>1. \A x \in Linked : ~At(q, x)'
    BY <1>1 DEF Alone, At, Linked, ProcInv
  <2> QED BY <2>1, OffApplyFresh
<1> QED BY <1>1 DEF FreshInv

LEMMA AdvancesAlone ==
  ASSUME ProcInv, NEW p \in Proc, Alone(p), Advances(p), Fresh(p)'
  PROVE  FreshInv'
BY OthersFresh DEF Advances

\* A step off an apply does not come to the middle of one.
LEMMA ElsewhereFresh ==
  ASSUME ProcInv, ControlInv, NEW p \in Proc, Alone(p), Advances(p),
         NEW s, At(p, s), s \notin ApplyStep \cup {"restart"}
  PROVE  FreshInv'
<1>1. ASSUME NEW x \in Linked, At(p, x)' PROVE FALSE
  <2>1. ~At(p, x)
    BY DEF At, Linked, ApplyStep
  <2>2. Link(s, x)
    BY <1>1, <2>1, Arrives DEF At
  <2> QED BY <2>2 DEF Link, Linked, ApplyStep
<1> QED BY <1>1, OffApplyFresh, AdvancesAlone

\* Nor does one that gives up.
LEMMA GivesUpFresh ==
  ASSUME ProcInv, NEW p \in Proc, Alone(p), Abort(p) \/ ApplyFailed(p)
  PROVE  FreshInv'
<1> DEFINE s == prog'[p]
<1>1. Unwind(p) \o <<>> = Unwind(p)
  BY UnwindTyped, ConcatEmptySeq
<1>2. s \in {<<>>, <<"unlock">>, <<"unlock">> \o <<"nextGrant">>}
  BY <1>1 DEF Abort, ApplyFailed, Goto, Unwind, ProcInv
<1>3. s = <<>> \/ Head(s) = "unlock"
  BY <1>2
<1>4. \A x \in Linked : ~At(p, x)'
  BY <1>3 DEF At, Linked
<1> QED BY <1>4, OffApplyFresh, AdvancesAlone, AbortAdvances, ApplyFailedAdvances

\* A step of the handler that moves on by one.
LEMMA NextLinked ==
  ASSUME ProcInv, ControlInv, NEW p \in Proc, NEW s, At(p, s), Done(p), NEW x, At(p, x)'
  PROVE  Link(s, x)
<1>1. /\ prog'[p] = Tail(prog[p]) /\ prog[p] # <<>> /\ Head(prog[p]) = s
      /\ prog[p] \in Seq(Step) /\ Chained(prog[p])
  BY DEF Done, Continue, Goto, At, ProcInv, ControlInv
<1>2. prog'[p] # <<>> => Link(s, Head(prog'[p]))
  BY <1>1, TailChained, TailIndex
<1> QED BY <1>2 DEF At

LEMMA ReadsFresh ==
  ASSUME IInv, ControlInv, NEW p \in Proc, Alone(p), Fresh(p), ReadTables(p)
  PROVE  FreshInv'
<1>1. ProcInv /\ snap \in [Proc -> Snapshot]
  BY DEF IInv, RestInv
<1>2. Advances(p) /\ UNCHANGED tableVars
  BY <1>1, ApplyControl DEF Applying
<1>3. PICK s \in {"readSettings", "readVolumes", "readGrants"} :
        /\ At(p, s)
        /\ s = "readSettings" => snap' = [snap EXCEPT ![p].settings = settings]
        /\ s = "readVolumes" => snap' = [snap EXCEPT ![p].volumes = EnabledVolumes]
        /\ s = "readGrants" => snap' = [snap EXCEPT ![p].grants = ForConfig]
  BY DEF ReadTables
<1>6. \A x \in Linked : At(p, x)' => Link(s, x)
  BY <1>1, <1>3, NextLinked DEF ReadTables
<1>7. /\ settings' = settings /\ EnabledVolumes' = EnabledVolumes
      /\ ForConfig' = ForConfig
  BY <1>2, SameTables
<1>8. CASE s = "readSettings"
  <2>1. snap'[p].settings = settings
    BY <1>1, <1>3, <1>8 DEF Snapshot
  <2>2. \A x \in Linked : At(p, x)' => x = "readVolumes"
    BY <1>6, <1>8 DEF Link, Linked
  <2> QED BY <1>1, <1>2, <1>7, <2>1, <2>2, AdvancesAlone DEF Fresh, Within, Linked
<1>9. CASE s = "readVolumes"
  <2>1. snap'[p].settings = snap[p].settings /\ snap'[p].volumes = EnabledVolumes
    BY <1>1, <1>3, <1>9 DEF Snapshot
  <2>2. snap[p].settings = settings
    BY <1>3, <1>9 DEF Fresh, Within
  <2>3. \A x \in Linked : At(p, x)' => x = "readGrants"
    BY <1>6, <1>9 DEF Link, Linked
  <2> QED BY <1>1, <1>2, <1>7, <2>1, <2>2, <2>3, AdvancesAlone DEF Fresh, Within, Linked
<1>10. CASE s = "readGrants"
  <2>1. /\ snap'[p].settings = snap[p].settings /\ snap'[p].volumes = snap[p].volumes
        /\ snap'[p].grants = ForConfig
    BY <1>1, <1>3, <1>10 DEF Snapshot
  <2>2. snap[p].settings = settings /\ snap[p].volumes = EnabledVolumes
    BY <1>3, <1>10 DEF Fresh, Within
  <2>3. \A x \in Linked : At(p, x)' => x = "ensureShares"
    BY <1>6, <1>10 DEF Link, Linked
  <2> QED BY <1>1, <1>2, <1>7, <2>1, <2>2, <2>3, AdvancesAlone DEF Fresh, Within, Linked
<1> QED BY <1>3, <1>8, <1>9, <1>10

LEMMA ApplyFresh ==
  ASSUME IInv, ControlInv, NEW p \in Proc, Alone(p), Fresh(p),
         EnsureShares(p) \/ WriteConf(p) \/ ReloadSmbd(p) \/ RestartSmbd(p)
  PROVE  FreshInv'
<1>1. ProcInv /\ snap \in [Proc -> Snapshot]
  BY DEF IInv, RestInv
<1>2. Advances(p) /\ UNCHANGED tableVars
  BY <1>1, ApplyControl DEF Applying
<1>3. /\ settings' = settings /\ EnabledVolumes' = EnabledVolumes
      /\ ForConfig' = ForConfig /\ Described' = Described
  BY <1>2, SameTables
<1>4. ASSUME ApplyFailed(p) PROVE FreshInv'
  BY <1>1, <1>4, GivesUpFresh
<1>5. CASE EnsureShares(p) /\ Done(p) /\ Moves
  <2>1. At(p, "ensureShares") /\ snap' = snap
    BY <1>5 DEF EnsureShares, Moves
  <2>2. \A x \in Linked : At(p, x)' => x = "writeConf"
    BY <1>1, <1>5, <2>1, NextLinked DEF Link, Linked
  <2>3. /\ snap[p].settings = settings /\ snap[p].volumes = EnabledVolumes
        /\ snap[p].grants = ForConfig
    BY <2>1 DEF Fresh, Within
  <2> QED BY <1>1, <1>2, <1>3, <2>1, <2>2, <2>3, AdvancesAlone DEF Fresh, Within, Linked
<1>6. CASE WriteConf(p)
  <2>1. At(p, "writeConf") /\ Done(p)
    BY <1>6 DEF WriteConf
  <2>2. conf' = Described
    BY <1>6, <2>1 DEF WriteConf, Fresh, Within, Described
  <2>3. \A x \in Linked : At(p, x)' => x = "reload"
    BY <1>1, <2>1, NextLinked DEF Link, Linked
  <2> QED BY <1>1, <1>2, <1>3, <2>2, <2>3, AdvancesAlone DEF Fresh, Within, Linked
<1>7. CASE ReloadSmbd(p) /\ Done(p)
  <2>1. At(p, "reload") /\ conf' = conf
    BY <1>7 DEF ReloadSmbd
  <2>2. conf' = Described
    BY <2>1 DEF Fresh, Within
  <2>3. \A x \in Linked : At(p, x)' => x = "restart"
    BY <1>1, <1>7, <2>1, NextLinked DEF Link, Linked
  <2> QED BY <1>1, <1>2, <1>3, <2>2, <2>3, AdvancesAlone DEF Fresh, Within, Linked
<1>8. CASE RestartSmbd(p)
  <2>1. At(p, "restart") /\ Done(p)
    BY <1>8 DEF RestartSmbd
  <2>2. \A x \in Linked : ~At(p, x)'
    BY <1>1, <2>1, NextLinked DEF Link, Linked
  <2> QED BY <1>1, <1>2, <2>2, OffApplyFresh, AdvancesAlone
<1> QED BY <1>4, <1>5, <1>6, <1>7, <1>8 DEF EnsureShares, ReloadSmbd

\* What a step makes of the two variables of Enforcement.
Refined == [Abstract!Next]_<<Described, loaded>>

LEMMA LoadedKept == ASSUME loaded' = loaded PROVE Refined
BY DEF Refined, Abstract!Next, Abstract!Change

LEMMA LoadedDescribed ==
  ASSUME loaded' = Described, UNCHANGED tableVars PROVE Refined
BY SameTables DEF Refined, Abstract!Next, Abstract!Apply

LEMMA RunFresh ==
  ASSUME IInv, ControlInv, NEW p \in Proc, Alone(p), Fresh(p), Run(p)
  PROVE  FreshInv' /\ Refined
<1>0. ProcInv
  BY DEF IInv
<1>1. CASE Unlock(p)
  <2>1. At(p, "unlock") /\ Advances(p) /\ loaded' = loaded
    BY <1>1 DEF Unlock, Done, Continue, Goto, Advances, At, smbVars
  <2> QED BY <1>0, <2>1, ElsewhereFresh, LoadedKept DEF ApplyStep
<1>2. CASE Ordinary(p)
  <2>1. PICK s \in Elsewhere : At(p, s)
    BY <1>2 DEF Ordinary
  <2>2. Advances(p) /\ loaded' = loaded
    BY <1>2 DEF Ordinary, smbVars
  <2> QED BY <1>0, <2>1, <2>2, ElsewhereFresh, LoadedKept DEF Elsewhere
<1>3. CASE ReadTables(p)
  BY <1>3, ReadsFresh, LoadedKept DEF ReadTables, smbVars
<1>4. CASE EnsureShares(p) \/ WriteConf(p)
  <2>1. loaded' = loaded
    BY <1>4 DEF EnsureShares, WriteConf, Moves, smbVars
  <2> QED BY <1>4, <2>1, ApplyFresh, LoadedKept
<1>5. CASE ReloadSmbd(p) \/ RestartSmbd(p)
  <2>1. UNCHANGED tableVars
    BY <1>0, <1>5, ApplyControl DEF Applying
  <2>2. loaded' = conf /\ Within(p, {"reload", "restart"})
    BY <1>5 DEF ReloadSmbd, RestartSmbd, Within
  <2>3. loaded' = Described
    BY <2>2 DEF Fresh
  <2> QED BY <1>5, <2>1, <2>3, ApplyFresh, LoadedDescribed
<1>6. CASE Fail(p)
  <2>1. loaded' = loaded
    BY <1>0, <1>6, FailControl DEF smbVars
  <2>2. Abort(p) \/ ApplyFailed(p)
    BY <1>6 DEF Fail
  <2> QED BY <1>0, <2>1, <2>2, GivesUpFresh, LoadedKept
<1> QED BY <1>0, <1>1, <1>2, <1>3, <1>4, <1>5, <1>6,
           CheckingOrdinary, WorkOrdinary, OtherOrdinary DEF Run

LEMMA StartFresh ==
  ASSUME ProcInv, FreshInv, NEW p \in Proc, NEW s, Startable(s), NEW j, Goto(p, s, j),
         UNCHANGED <<tableVars, smbVars, snap>>
  PROVE  FreshInv'
<1>1. prog' = [prog EXCEPT ![p] = s] /\ s \in Seq(Step)
  BY DEF Goto, Startable, Sound
<1>2. \A x \in Linked : ~At(p, x)'
  BY <1>1, TailIndex DEF At, Startable, ProcInv
<1>3. /\ settings' = settings /\ EnabledVolumes' = EnabledVolumes
      /\ ForConfig' = ForConfig /\ Described' = Described
  BY SameTables
<1>4. ASSUME NEW q \in Proc, q # p PROVE Fresh(q)'
  <2>1. \A x : At(q, x)' <=> At(q, x)
    BY <1>1, <1>4 DEF At, ProcInv
  <2> QED BY <1>3, <2>1 DEF FreshInv, Fresh, Within, smbVars
<1> QED BY <1>2, <1>4, OffApplyFresh DEF FreshInv

LEMMA NextFresh ==
  ASSUME Exclusion, IInv, ControlInv, LockingInv, FreshInv, [Next]_vars
  PROVE  FreshInv' /\ Refined
<1>0. ProcInv
  BY DEF IInv
<1>1. ASSUME NEW p \in Worker, Request(p) PROVE FreshInv' /\ Refined
  <2>1. p \in Proc
    BY DEF Proc
  <2>2. PICK op, steps, j : Startable(steps) /\ Begin(p, op, steps, j)
    BY <1>0, <1>1, <2>1, RequestStarts
  <2> QED BY <1>0, <2>1, <2>2, StartFresh, LoadedKept DEF Begin, smbVars
<1>2. ASSUME NEW p \in Janitor, Tick(p) PROVE FreshInv' /\ Refined
  BY <1>0, <1>2, StartFresh, ShortStartable, LoadedKept DEF Tick, Moves, Proc, smbVars
<1>3. ASSUME NEW p \in Proc, Lock(p) PROVE FreshInv' /\ Refined
  <2>1. /\ prog[p] \in Seq(Step) /\ prog[p] # <<>> /\ Head(prog[p]) = "lock"
        /\ At(p, "lock") /\ Done(p)
        /\ Goto(p, Tail(prog[p]), job[p])
    BY <1>0, <1>3 DEF Lock, At, Done, Continue, ProcInv
  <2>2. \A x \in Linked : ~At(p, x)'
    BY <1>0, <2>1, NextLinked DEF Link, Linked
  <2>3. prog' = [prog EXCEPT ![p] = Tail(prog[p])] /\ UNCHANGED <<tableVars, smbVars, snap>>
    BY <1>3, <2>1 DEF Lock, Goto
  <2>4. ASSUME NEW q \in Proc, q # p PROVE Fresh(q)'
    <3>1. \A x : At(q, x)' <=> At(q, x)
      BY <1>0, <2>3, <2>4 DEF At, ProcInv
    <3> QED BY <2>3, <3>1, SameTables DEF FreshInv, Fresh, Within, smbVars
  <2> QED BY <2>2, <2>3, <2>4, OffApplyFresh, LoadedKept DEF FreshInv, smbVars
<1>4. ASSUME NEW p \in Proc, Run(p) PROVE FreshInv' /\ Refined
  <2>1. CASE prog[p] # <<>> /\ ~At(p, "lock")
    BY <1>0, <1>4, <2>1, WorksAlone, RunFresh DEF FreshInv
  <2>2. prog[p] # <<>> /\ ~At(p, "lock")
    <3>1. CASE Unlock(p)
      BY <3>1 DEF Unlock, At
    <3>2. CASE Ordinary(p)
      BY <3>2 DEF Ordinary, Elsewhere, At
    <3>3. CASE Applying(p)
      BY <3>3 DEF Applying, ApplyStep, At
    <3>4. CASE Fail(p)
      BY <1>0, <3>4, FailControl DEF At
    <3> QED BY <1>0, <1>4, <3>1, <3>2, <3>3, <3>4, RunControl
  <2> QED BY <2>1, <2>2
<1>5. CASE LeaseExpires
  <2>1. /\ settings' = settings /\ EnabledVolumes' = EnabledVolumes
        /\ ForConfig' = ForConfig /\ Described' = Described
    BY <1>5, LeaseSameConfig
  <2>2. UNCHANGED <<prog, snap, conf, loaded>>
    BY <1>5 DEF LeaseExpires, smbVars
  <2> QED BY <2>1, <2>2, LoadedKept DEF FreshInv, Fresh, Within, At
<1>6. CASE Crash
  <2>1. loaded' = loaded /\ prog' = AtStart
    BY <1>6 DEF Crash, smbVars
  <2>2. \A p \in Proc : \A x \in Linked : ~At(p, x)'
    BY <2>1, LockFirst DEF AtStart, At, Linked
  <2> QED BY <2>1, <2>2, OffApplyFresh, LoadedKept DEF FreshInv
<1>7. CASE UNCHANGED vars
  <2>1. UNCHANGED <<tableVars, smbVars, prog, snap>>
    BY <1>7 DEF vars
  <2> QED BY <2>1, SameTables, LoadedKept DEF FreshInv, Fresh, Within, At, smbVars
<1> QED BY <1>1, <1>2, <1>3, <1>4, <1>5, <1>6, <1>7 DEF Next

LEMMA InitFresh == Init => FreshInv /\ Abstract!Init
<1> SUFFICES ASSUME Init PROVE FreshInv /\ Abstract!Init
  OBVIOUS
<1>1. \A p \in Proc : \A x \in Linked : ~At(p, x)
  BY LockFirst DEF Init, AtStart, At, Linked
<1>2. FreshInv
  BY <1>1 DEF FreshInv, Fresh, Within, Linked
<1>3. Abstract!Init
  BY DEF Init, Abstract!Init
<1> QED BY <1>2, <1>3

\* The service implements Enforcement when no two handlers work at a time: a
\* reload, or a restart, takes smbd to what the tables say at that step.
THEOREM ServiceEnforces ==
  ASSUME Exclusion
  PROVE  Spec => NeverStale
<1>1. IInv /\ ControlInv /\ LockingInv /\ FreshInv /\ [Next]_vars
        => LockingInv' /\ FreshInv' /\ Refined
  BY NextFresh, NextLocking DEF IInv
<1>2. Spec => [](IInv /\ ControlInv)
  BY ServiceInvariant, ControlInvariant, PTL
<1> QED BY <1>1, <1>2, InitLocking, InitFresh, PTL
        DEF Spec, NeverStale, Abstract!Spec, Refined

-----------------------------------------------------------------------------
(* A change is followed by a reload. *)

Has(s, x) == \E i \in 1 .. Len(s) : s[i] = x

\* The steps after which smbd may have to enforce something else, and the loop
\* over expired users, which puts such steps in front.
Changing == {"insertVolume", "updateVolume", "deleteVolume", "setEnabled", "deleteUser",
             "permRow", "bulkPair", "setSettings", "nextExpired"}

Follows(s) == \A i \in 1 .. Len(s) : s[i] \in Changing =>
  \E j \in i + 1 .. Len(s) : s[j] = "reload"

FollowsInv == \A p \in Proc : Follows(prog[p])

\* p has changed something and is still to reload smbd.
Owing(p) == job[p].changed /\ Has(prog[p], "reload")

\* What smbd enforces is what the tables say, unless the last apply failed or
\* somebody is on the way to the next.
EnforcedInv == applied = "ok" /\ loaded # Described => \E p \in Proc : Owing(p)

LEMMA TailHas ==
  ASSUME NEW s \in Seq(Step), s # <<>>, NEW x
  PROVE  /\ Has(s, x) => Head(s) = x \/ Has(Tail(s), x)
         /\ Has(Tail(s), x) => Has(s, x)
<1> DEFINE t == Tail(s)
<1>1. /\ Len(s) \in Nat /\ Len(s) > 0 /\ Len(t) = Len(s) - 1 /\ Head(s) = s[1]
      /\ \A i \in 1 .. Len(s) - 1 : t[i] = s[i + 1]
  BY TailIndex
<1> HIDE DEF t
<1>2. ASSUME NEW i \in 1 .. Len(s), s[i] = x, i # 1 PROVE Has(t, x)
  <2>1. i - 1 \in 1 .. Len(t) /\ t[i - 1] = s[i]
    BY <1>1, <1>2
  <2> QED BY <2>1, <1>2 DEF Has
<1>3. ASSUME NEW i \in 1 .. Len(t), t[i] = x PROVE Has(s, x)
  <2>1. i + 1 \in 1 .. Len(s) /\ t[i] = s[i + 1]
    BY <1>1
  <2> QED BY <2>1, <1>3 DEF Has
<1>4. Has(s, x) => Head(s) = x \/ Has(t, x)
  BY <1>1, <1>2 DEF Has
<1>5. Has(t, x) => Has(s, x)
  BY <1>3 DEF Has
<1> QED BY <1>4, <1>5 DEF t

LEMMA ConcatHas ==
  ASSUME NEW x \in Seq(Step), NEW s \in Seq(Step), NEW e
  PROVE  Has(x \o s, e) <=> Has(x, e) \/ Has(s, e)
<1> DEFINE t == x \o s
           n == Len(x)
<1>1. /\ n \in Nat /\ Len(s) \in Nat /\ Len(t) = n + Len(s)
      /\ \A i \in 1 .. n : t[i] = x[i]
      /\ \A i \in 1 .. Len(s) : t[n + i] = s[i]
      /\ \A i \in 1 .. Len(t) : i <= n \/ i - n \in 1 .. Len(s)
  BY ConcatIndex
<1> HIDE DEF t
<1>2. ASSUME NEW i \in 1 .. Len(t), t[i] = e PROVE Has(x, e) \/ Has(s, e)
  <2>1. CASE i <= n
    BY <1>1, <1>2, <2>1 DEF Has
  <2>2. CASE i - n \in 1 .. Len(s)
    <3>1. t[n + (i - n)] = s[i - n] /\ n + (i - n) = i
      BY <1>1, <2>2
    <3> QED BY <1>2, <2>2, <3>1 DEF Has
  <2> QED BY <1>1, <2>1, <2>2
<1>3. Has(x, e) => Has(t, e)
  BY <1>1 DEF Has
<1>4. ASSUME NEW i \in 1 .. Len(s), s[i] = e PROVE Has(t, e)
  <2>1. n + i \in 1 .. Len(t) /\ t[n + i] = e
    BY <1>1, <1>4
  <2> QED BY <2>1 DEF Has
<1>5. Has(t, e) => Has(x, e) \/ Has(s, e)
  BY <1>2 DEF Has
<1>6. Has(s, e) => Has(t, e)
  BY <1>4 DEF Has
<1> QED BY <1>3, <1>5, <1>6 DEF t

LEMMA TailFollows ==
  ASSUME NEW s \in Seq(Step), s # <<>>, Follows(s)
  PROVE  Follows(Tail(s)) /\ (Head(s) \in Changing => Has(Tail(s), "reload"))
<1> DEFINE t == Tail(s)
<1>1. /\ Len(s) \in Nat /\ Len(s) > 0 /\ Len(t) = Len(s) - 1 /\ Head(s) = s[1]
      /\ \A i \in 1 .. Len(s) - 1 : t[i] = s[i + 1]
  BY TailIndex
<1> HIDE DEF t
<1>2. ASSUME NEW i \in 1 .. Len(s), s[i] \in Changing
      PROVE  \E j \in i .. Len(t) : j >= 1 /\ t[j] = "reload"
  <2>1. PICK j \in i + 1 .. Len(s) : s[j] = "reload"
    BY <1>2 DEF Follows
  <2>2. j - 1 \in i .. Len(t) /\ j - 1 >= 1 /\ j - 1 \in 1 .. Len(s) - 1 /\ (j - 1) + 1 = j
    BY <1>1, <2>1
  <2>3. t[j - 1] = s[j]
    BY <1>1, <2>2
  <2> QED BY <2>1, <2>2, <2>3
<1>3. ASSUME NEW i \in 1 .. Len(t), t[i] \in Changing
      PROVE  \E j \in i + 1 .. Len(t) : t[j] = "reload"
  <2>1. i + 1 \in 1 .. Len(s) /\ s[i + 1] \in Changing
    BY <1>1, <1>3
  <2> QED BY <2>1, <1>2
<1>4. 1 \in 1 .. Len(s)
  BY <1>1
<1>5. Head(s) \in Changing => Has(t, "reload")
  BY <1>1, <1>2, <1>4 DEF Has
<1>6. Follows(t)
  BY <1>3 DEF Follows
<1> QED BY <1>5, <1>6 DEF t

\* Steps in front of what ends with a reload, or that need none.
LEMMA ConcatFollows ==
  ASSUME NEW x \in Seq(Step), NEW s \in Seq(Step), Follows(s),
         Follows(x) \/ Has(s, "reload")
  PROVE  Follows(x \o s)
<1> DEFINE t == x \o s
           n == Len(x)
<1>1. /\ n \in Nat /\ Len(s) \in Nat /\ Len(t) = n + Len(s)
      /\ \A i \in 1 .. n : t[i] = x[i]
      /\ \A i \in 1 .. Len(s) : t[n + i] = s[i]
      /\ \A i \in 1 .. Len(t) : i <= n \/ i - n \in 1 .. Len(s)
  BY ConcatIndex
<1> HIDE DEF t
<1>2. ASSUME NEW i \in 1 .. Len(t), t[i] \in Changing
      PROVE  \E j \in i + 1 .. Len(t) : t[j] = "reload"
  <2>1. CASE i <= n /\ Has(s, "reload")
    <3>1. PICK k \in 1 .. Len(s) : s[k] = "reload"
      BY <2>1 DEF Has
    <3>2. n + k \in i + 1 .. Len(t) /\ t[n + k] = "reload"
      BY <1>1, <2>1, <3>1
    <3> QED BY <3>2
  <2>2. CASE i <= n /\ Follows(x)
    <3>1. i \in 1 .. n /\ x[i] \in Changing
      BY <1>1, <1>2, <2>2
    <3>2. PICK j \in i + 1 .. n : x[j] = "reload"
      BY <2>2, <3>1 DEF Follows
    <3>3. j \in i + 1 .. Len(t) /\ t[j] = "reload"
      BY <1>1, <3>2
    <3> QED BY <3>3
  <2>3. CASE i - n \in 1 .. Len(s)
    <3>1. s[i - n] \in Changing
      <4>1. t[n + (i - n)] = s[i - n] /\ n + (i - n) = i
        BY <1>1, <2>3
      <4> QED BY <4>1, <1>2
    <3>2. PICK k \in (i - n) + 1 .. Len(s) : s[k] = "reload"
      BY <2>3, <3>1 DEF Follows
    <3>3. n + k \in i + 1 .. Len(t) /\ t[n + k] = "reload"
      BY <1>1, <2>3, <3>2
    <3> QED BY <3>3
  <2> QED BY <1>1, <2>1, <2>2, <2>3
<1> QED BY <1>2 DEF Follows, t

\* The operations that may fail between two changes, or between a change and its
\* apply, although every statement succeeds.
Breakable == {"updateUser", "bulk", "createTemporary"}

\* What the handler of an operation is begun with.
Handler(op, s) ==
  \/ op \notin Breakable
     /\ s \in {CreateVolumeSteps, UpdateVolumeSteps, DeleteVolumeSteps, RepairVolumeSteps,
               CreateUserSteps, SetUserEnabledSteps, ChangePasswordSteps, DeleteUserSteps,
               SetPermissionSteps, ReloadSteps, RestartSteps, SettingsSteps}
  \/ op = "updateUser" /\ s = UpdateUserSteps
  \/ op = "bulk" /\ s = BulkSteps
  \/ op = "createTemporary" /\ \E g \in BOOLEAN : s = CreateTemporaryUserSteps(g)

Begun(j) == ~j.changed /\ ~j.temp

\* Only CreateTemporaryUser gives its handler a lease.
LEMMA PlainRequest ==
  ASSUME NEW p, Request(p), ~CreateTemporaryUser(p)
  PROVE  \E op, steps, j : /\ Handler(op, steps) /\ Begin(p, op, steps, j)
                           /\ op # "createTemporary" /\ Begun(j)
<1> USE DEF Serve, Handler, Breakable
<1>1. CASE CreateVolume(p) \/ UpdateVolume(p) \/ DeleteVolume(p) \/ RepairVolumePermissions(p)
  <2>1. \A g, on, id : /\ Begun([NoJob EXCEPT !.guest = g])
                       /\ Begun([NoJob EXCEPT !.vid = id, !.guest = g, !.on = on])
                       /\ Begun([NoJob EXCEPT !.vid = id])
    BY DEF NoJob, Begun
  <2> QED BY <1>1, <2>1
          DEF CreateVolume, UpdateVolume, DeleteVolume, RepairVolumePermissions
<1>2. CASE CreateUser(p) \/ UpdateUser(p) \/ SetUserEnabled(p) \/ ChangeUserPassword(p)
           \/ DeleteUser(p)
  <2>1. \A n, on, id : /\ Begun([NoJob EXCEPT !.name = n])
                       /\ Begun([NoJob EXCEPT !.uid = id, !.on = on])
                       /\ Begun([NoJob EXCEPT !.uid = id])
    BY DEF NoJob, Begun
  <2> QED BY <1>2, <2>1
          DEF CreateUser, UpdateUser, SetUserEnabled, ChangeUserPassword, DeleteUser
<1>4. CASE SetPermission(p) \/ BulkSetPermissions(p)
  <2>1. \A uid, vid, a, todo :
          /\ Begun([NoJob EXCEPT !.uid = uid, !.vid = vid, !.access = a])
          /\ Begun([NoJob EXCEPT !.todo = todo, !.access = a])
    BY DEF NoJob, Begun
  <2> QED BY <1>4, <2>1 DEF SetPermission, BulkSetPermissions
<1>5. CASE Reload(p) \/ Restart(p) \/ UpdateSettings(p)
  <2>1. \A s : Begun([NoJob EXCEPT !.setting = s]) /\ Begun(NoJob)
    BY DEF NoJob, Begun
  <2> QED BY <1>5, <2>1 DEF Reload, Restart, UpdateSettings
<1> QED BY <1>1, <1>2, <1>4, <1>5 DEF Request

LEMMA TemporaryRequest ==
  ASSUME NEW p, CreateTemporaryUser(p)
  PROVE  \E g \in BOOLEAN : \E j :
           /\ Begin(p, "createTemporary", CreateTemporaryUserSteps(g), j)
           /\ j.temp /\ ~j.changed
<1> DEFINE j(n, a, todo) == [NoJob EXCEPT !.name = n, !.temp = TRUE, !.access = a,
                                          !.todo = todo]
<1>1. \A n, a, todo : j(n, a, todo).temp /\ ~j(n, a, todo).changed
  BY DEF NoJob
<1>2. \E n, a, todo : \E g \in BOOLEAN :
        Begin(p, "createTemporary", CreateTemporaryUserSteps(g), j(n, a, todo))
  BY DEF CreateTemporaryUser
<1> HIDE DEF j
<1> QED BY <1>1, <1>2

LEMMA RequestHandles ==
  ASSUME NEW p, Request(p)
  PROVE  \E op, steps, j : /\ Handler(op, steps) /\ Begin(p, op, steps, j)
                           /\ op # "createTemporary" => Begun(j)
<1>1. CASE CreateTemporaryUser(p)
  BY <1>1, TemporaryRequest DEF Handler, Breakable
<1> QED BY <1>1, PlainRequest

LEMMA ApplyFollows ==
  /\ Follows(ApplySteps) /\ Has(ApplySteps, "reload") /\ ApplySteps \in Seq(Step)
  /\ \A x \in Seq(Step) : /\ x \o ApplySteps \in Seq(Step) /\ Follows(x \o ApplySteps)
                          /\ Has(x \o ApplySteps, "reload")
<1>1. ApplySteps \in Seq(Step) /\ Follows(ApplySteps) /\ Has(ApplySteps, "reload")
  BY ApplyPiece DEF ApplySteps, Piece, Follows, Has, Changing
<1> QED BY <1>1, ConcatFollows, ConcatHas, ConcatIndex

LEMMA HandlerFollows ==
  /\ \A op, s : Handler(op, s) => Follows(s)
  /\ Follows(SetPermissionSteps)
  /\ Follows(CleanupSteps) /\ Follows(RepairAllSteps) /\ Follows(<<>>)
<1>a. /\ <<"walk", "insertVolume">> \in Seq(Step)
      /\ <<"getVolume", "walk", "updateVolume", "reread">> \in Seq(Step)
      /\ <<"deleteVolume">> \in Seq(Step)
      /\ <<"lookup", "group", "password", "insertUser">> \in Seq(Step)
      /\ <<"getUser", "setEnabled", "reread", "flag">> \in Seq(Step)
      /\ <<"getUser", "flag", "setEnabled">> \in Seq(Step)
      /\ <<"setSettings">> \in Seq(Step)
  BY DEF Step, DbSteps, CmdSteps
<1>b. /\ <<"getUser", "pdbDelete", "deleteUser">> \in Seq(Step)
      /\ <<"lock", "permUser", "permVolume", "permRow">> \in Seq(Step)
      /\ <<"lock", "bulkCheck", "bulkPair">> \in Seq(Step)
      /\ <<"userdel">> \in Seq(Step) /\ <<"unlock">> \in Seq(Step)
      /\ <<"restart">> \in Seq(Step) /\ <<"nextGrant">> \in Seq(Step)
  BY DEF Step, DbSteps, CmdSteps
<1>1. /\ Follows(CreateVolumeSteps) /\ Follows(UpdateVolumeSteps)
      /\ Follows(DeleteVolumeSteps) /\ Follows(CreateUserSteps)
      /\ Follows(UpdateUserSteps) /\ Follows(SetUserEnabledSteps)
      /\ Follows(SettingsSteps) /\ Follows(ReloadSteps)
  BY <1>a, ApplyFollows DEF CreateVolumeSteps, UpdateVolumeSteps, DeleteVolumeSteps,
     CreateUserSteps, UpdateUserSteps, SetUserEnabledSteps, SettingsSteps, ReloadSteps
<1>2. /\ Follows(<<>>) /\ Follows(<<"userdel">>) /\ Follows(<<"unlock">>)
      /\ Follows(<<"restart">>) /\ Follows(<<"nextGrant">>)
      /\ Follows(<<"lookup", "group", "password", "insertUser">>)
      /\ Follows(CleanupSteps) /\ Follows(RepairAllSteps) /\ Follows(RepairVolumeSteps)
      /\ Follows(ChangePasswordSteps)
  BY DEF Follows, Changing, CleanupSteps, RepairAllSteps, RepairVolumeSteps,
     ChangePasswordSteps
<1>3. Follows(DeleteUserSteps) /\ Follows(RestartSteps)
  BY <1>b, <1>2, ApplyFollows, ConcatFollows DEF DeleteUserSteps, RestartSteps
<1>4. Follows(SetPermissionSteps) /\ Follows(BulkSteps)
  BY <1>b, <1>2, ApplyFollows, ConcatFollows DEF SetPermissionSteps, BulkSteps
<1>5. ASSUME NEW g \in BOOLEAN PROVE Follows(CreateTemporaryUserSteps(g))
  BY <1>a, <1>b, <1>2, ApplyFollows, ConcatFollows DEF CreateTemporaryUserSteps
<1> QED BY <1>1, <1>2, <1>3, <1>4, <1>5 DEF Handler

LEMMA AdvancesFollow ==
  ASSUME ProcInv, FollowsInv, NEW p \in Proc, Advances(p)
  PROVE  FollowsInv'
<1> DEFINE old == prog[p]
           t == Tail(old)
<1>1. old \in Seq(Step) /\ Follows(old)
  BY DEF ProcInv, FollowsInv
<1>2. old # <<>> => /\ t \in Seq(Step) /\ Follows(t)
                    /\ Head(old) = "nextExpired" => Has(old, "reload")
  BY <1>1, TailFollows, TailIndex, TailHas DEF Changing
<1> HIDE DEF t, old
<1>3. /\ Follows(<<>>) /\ Follows(<<"unlock">>) /\ Follows(<<"unlock">> \o <<"nextGrant">>)
      /\ Follows(<<"useradd">>)
  BY DEF Follows, Changing
<1>4. CASE old # <<>> /\ prog' = [prog EXCEPT ![p] = t]
  BY <1>2, <1>4 DEF FollowsInv, ProcInv
<1>5. CASE prog' = [prog EXCEPT ![p] = Unwind(p)]
  BY <1>3, <1>5 DEF FollowsInv, ProcInv, Unwind
<1>6. CASE mu = p /\ prog' = [prog EXCEPT ![p] = Unwind(p) \o <<"nextGrant">>]
  BY <1>3, <1>6 DEF FollowsInv, ProcInv, Unwind
<1>7. CASE At(p, "lookup") /\ prog' = [prog EXCEPT ![p] = <<"useradd">> \o t]
  <2>1. <<"useradd">> \in Seq(Step)
    BY DEF Step, CmdSteps
  <2>2. Follows(<<"useradd">> \o t)
    BY <2>1, <1>2, <1>3, <1>7, ConcatFollows DEF At, old
  <2> QED BY <2>2, <1>7 DEF FollowsInv, ProcInv
<1>8. CASE /\ At(p, "selectExpired")
           /\ prog' = [prog EXCEPT ![p] = (<<"nextExpired">> \o ApplySteps) \o t]
  <2>1. <<"nextExpired">> \in Seq(Step)
    BY DEF Step
  <2>2. Follows((<<"nextExpired">> \o ApplySteps) \o t)
    BY <2>1, <1>2, <1>8, ApplyFollows, ConcatFollows DEF At, old
  <2> QED BY <2>2, <1>8 DEF FollowsInv, ProcInv
<1>9. CASE At(p, "nextExpired") /\ prog' = [prog EXCEPT ![p] = ExpiredSteps \o old]
  <2>1. ExpiredSteps \in Seq(Step)
    BY DEF ExpiredSteps, Step, DbSteps, CmdSteps
  <2>2. Follows(ExpiredSteps \o old)
    BY <2>1, <1>1, <1>2, <1>9, ConcatFollows DEF At, old
  <2> QED BY <2>2, <1>9 DEF FollowsInv, ProcInv
<1>10. CASE At(p, "nextGrant") /\ prog' = [prog EXCEPT ![p] = SetPermissionSteps \o old]
  <2>1. SetPermissionSteps \in Seq(Step)
    BY GrantStartable DEF Startable, Sound
  <2>2. Follows(SetPermissionSteps)
    BY HandlerFollows
  <2>3. Follows(SetPermissionSteps \o old)
    BY <2>1, <2>2, <1>1, ConcatFollows
  <2> QED BY <2>3, <1>10 DEF FollowsInv, ProcInv
<1>11. CASE prog' = [prog EXCEPT ![p] = old]
  BY <1>1, <1>11 DEF FollowsInv, ProcInv
<1> QED BY <1>4, <1>5, <1>6, <1>7, <1>8, <1>9, <1>10, <1>11 DEF Advances, t, old

LEMMA NextFollows == ProcInv /\ FollowsInv /\ [Next]_vars => FollowsInv'
<1> SUFFICES ASSUME ProcInv, FollowsInv, [Next]_vars PROVE FollowsInv'
  OBVIOUS
<1>1. ASSUME NEW p \in Proc, NEW s, NEW j, Goto(p, s, j), Follows(s) PROVE FollowsInv'
  BY <1>1 DEF Goto, FollowsInv, ProcInv
<1>2. ASSUME NEW p \in Worker, Request(p) PROVE FollowsInv'
  <2>1. PICK op, s, j : /\ Handler(op, s) /\ Begin(p, op, s, j)
                        /\ op # "createTemporary" => Begun(j)
    BY <1>2, RequestHandles
  <2>2. p \in Proc /\ Goto(p, s, j) /\ Follows(s)
    BY <2>1, HandlerFollows DEF Begin, Proc
  <2> QED BY <1>1, <2>2
<1>3. ASSUME NEW p \in Janitor, Tick(p) PROVE FollowsInv'
  BY <1>1, <1>3, HandlerFollows DEF Tick, Proc
<1>4. ASSUME NEW p \in Proc, Lock(p) \/ Unlock(p) PROVE FollowsInv'
  <2>1. prog[p] # <<>> /\ Advances(p)
    BY <1>4 DEF Lock, Unlock, Done, Continue, Goto, Advances, At
  <2> QED BY <2>1, AdvancesFollow
<1>5. ASSUME NEW p \in Proc, Run(p), ~Unlock(p) PROVE FollowsInv'
  BY <1>5, RunControl, FailControl, AdvancesFollow DEF Ordinary, Applying
<1>6. CASE LeaseExpires \/ UNCHANGED vars
  BY <1>6 DEF LeaseExpires, vars, FollowsInv
<1>7. CASE Crash
  BY <1>7, HandlerFollows DEF Crash, AtStart, FollowsInv
<1> QED BY <1>2, <1>3, <1>4, <1>5, <1>6, <1>7 DEF Next

-----------------------------------------------------------------------------
\* p's debt goes with p, or is written off with a failure.
HandsOn(p) == Owing(p) => Owing(p)' \/ applied' = "failed"

LEMMA GotoOwes ==
  ASSUME ProcInv, NEW p \in Proc, NEW s \in Seq(Step), NEW j, Goto(p, s, j), j.changed,
         Has(s, "reload")
  PROVE  Owing(p)'
<1>1. s # <<>>
  BY DEF Has
<1>2. prog'[p] = s /\ job'[p] = j
  BY <1>1 DEF Goto, ProcInv
<1> QED BY <1>2 DEF Owing

LEMMA ContinueHandsOn ==
  ASSUME ProcInv, NEW p \in Proc, NEW s, At(p, s), s # "reload", NEW j, Continue(p, j),
         job[p].changed => j.changed
  PROVE  HandsOn(p)
<1>1. prog[p] \in Seq(Step) /\ prog[p] # <<>> /\ Head(prog[p]) = s /\ Tail(prog[p]) \in Seq(Step)
  BY TailIndex DEF At, ProcInv
<1>2. Has(prog[p], "reload") => Has(Tail(prog[p]), "reload")
  BY <1>1, TailHas
<1> QED BY <1>1, <1>2, GotoOwes DEF Continue, HandsOn, Owing

LEMMA DoneHandsOn ==
  ASSUME ProcInv, NEW p \in Proc, NEW s, At(p, s), s # "reload", Done(p)
  PROVE  HandsOn(p)
BY ContinueHandsOn DEF Done

LEMMA ChangedOwes ==
  ASSUME ProcInv, FollowsInv, NEW p \in Proc, NEW s, At(p, s), s \in Changing, Changed(p)
  PROVE  Owing(p)'
<1>1. prog[p] \in Seq(Step) /\ prog[p] # <<>> /\ Tail(prog[p]) \in Seq(Step)
      /\ Has(Tail(prog[p]), "reload")
  BY TailIndex, TailFollows DEF At, ProcInv, FollowsInv
<1>2. [job[p] EXCEPT !.changed = TRUE].changed
  BY DEF ProcInv, SafeJob, Job
<1> QED BY <1>1, <1>2, GotoOwes DEF Changed, Continue

LEMMA GiveUpHandsOn ==
  ASSUME NEW p \in Proc, Abort(p) \/ ApplyFailed(p)
  PROVE  HandsOn(p) /\ Described' = Described
<1>1. UNCHANGED tableVars
  BY DEF Abort, ApplyFailed
<1> QED BY <1>1, SameTables DEF Abort, ApplyFailed, HandsOn, Owing

\* A new user is let in nowhere.
LEMMA NewUserSameConfig ==
  ASSUME IInv, NEW n, NEW lease, NEW created, InsertUser(n, lease, created)
  PROVE  Described' = Described
<1>1. \A r \in perms : \E u \in users : u.id = r.user
  BY DEF IInv, DataInv, StoreInv, ReferentialIntegrity, HasUser
<1>2. \A u \in users : u.id # nextUser
  <2>1. \A u \in users : u.id \in Nat /\ u.id < nextUser
    BY DEF IInv, DataInv, StoreInv, KeysUnique, StoreTypeOK, UserRow, UserId
  <2> QED BY <2>1 DEF IInv, DataInv, StoreInv, StoreTypeOK
<1> DEFINE w == [id |-> nextUser, name |-> n, enabled |-> TRUE, lease |-> lease,
                 created |-> created]
<1>3. users' = users \cup {w} /\ w.id = nextUser
  BY DEF InsertUser
<1> HIDE DEF w
<1>4. \A r \in perms : w.id # r.user
  BY <1>1, <1>2, <1>3
<1>5. volumes' = volumes /\ perms' = perms /\ settings' = settings
  BY DEF InsertUser
<1>6. ForConfig' = ForConfig
  BY <1>3, <1>4, <1>5 DEF ForConfig
<1> QED BY <1>5, <1>6 DEF Described, EnabledVolumes

\* p's step changes nothing that smbd enforces, or p is to reload it.
Announced(p) == Described' = Described \/ Owing(p)'

LEMMA CheckingHandsOn ==
  ASSUME IInv, NEW p \in Proc,
         \/ Unlock(p) \/ GetVolume(p) \/ Walk(p) \/ AddToGroup(p)
         \/ PermUser(p) \/ PermVolume(p) \/ BulkCheck(p)
         \/ SetPassword(p) \/ SetFlag(p) \/ PdbDelete(p) \/ UserDel(p)
         \/ ReadTables(p) \/ EnsureShares(p) \/ WriteConf(p) \/ Fail(p)
  PROVE  HandsOn(p) /\ Announced(p)
<1>0. ProcInv
  BY DEF IInv
<1>1. CASE Abort(p) \/ ApplyFailed(p)
  BY <1>1, GiveUpHandsOn DEF Announced
<1>2. ASSUME NEW s, At(p, s), s # "reload", Done(p), UNCHANGED tableVars
      PROVE  HandsOn(p) /\ Announced(p)
  BY <1>0, <1>2, DoneHandsOn, SameTables DEF Announced
<1>3. CASE Unlock(p) \/ GetVolume(p) \/ Walk(p) \/ AddToGroup(p) \/ PermUser(p)
           \/ PermVolume(p) \/ BulkCheck(p)
  BY <1>1, <1>2, <1>3 DEF Unlock, GetVolume, Walk, AddToGroup, PermUser, PermVolume,
     BulkCheck, Moves
<1>4. CASE SetPassword(p) \/ SetFlag(p) \/ PdbDelete(p) \/ UserDel(p)
  BY <1>1, <1>2, <1>4 DEF SetPassword, SetFlag, PdbDelete, UserDel, OnSystem
<1>5. CASE ReadTables(p) \/ EnsureShares(p) \/ WriteConf(p) \/ Fail(p)
  BY <1>1, <1>2, <1>5 DEF ReadTables, EnsureShares, WriteConf, Fail, Moves
<1> QED BY <1>3, <1>4, <1>5

LEMMA TablesHandsOn ==
  ASSUME IInv, FollowsInv, NEW p \in Proc,
         \/ InsertVolumeStep(p) \/ UpdateVolumeStep(p) \/ DeleteVolumeStep(p)
         \/ SetEnabledStep(p) \/ DeleteUserStep(p) \/ SetSettings(p) \/ PermRow(p)
  PROVE  HandsOn(p) /\ Announced(p)
<1>0. ProcInv
  BY DEF IInv
<1>1. CASE Abort(p)
  BY <1>1, GiveUpHandsOn DEF Announced
<1>2. CASE Changed(p)
  <2>1. \E s \in Changing : At(p, s)
    BY DEF InsertVolumeStep, UpdateVolumeStep, DeleteVolumeStep, SetEnabledStep,
       DeleteUserStep, SetSettings, PermRow, Changing
  <2> QED BY <1>0, <1>2, <2>1, ChangedOwes DEF HandsOn, Announced
<1> QED BY <1>1, <1>2 DEF InsertVolumeStep, UpdateVolumeStep, DeleteVolumeStep,
        SetEnabledStep, DeleteUserStep, SetSettings, PermRow

LEMMA UsersHandsOn ==
  ASSUME IInv, NEW p \in Proc, GetUser(p) \/ Lookup(p) \/ UserAdd(p) \/ InsertUserStep(p)
  PROVE  HandsOn(p) /\ Announced(p)
<1>0. ProcInv /\ job[p] \in Job
  BY DEF IInv, ProcInv, SafeJob
<1>1. CASE Abort(p)
  BY <1>1, GiveUpHandsOn DEF Announced
<1>2. CASE GetUser(p) /\ ~Abort(p)
  <2>1. PICK u \in users :
          Continue(p, [job[p] EXCEPT !.name = u.name, !.created = u.created])
    BY <1>2 DEF GetUser
  <2>2. [job[p] EXCEPT !.name = u.name, !.created = u.created].changed = job[p].changed
    BY <1>0 DEF Job
  <2>3. HandsOn(p)
    BY <1>0, <1>2, <2>1, <2>2, ContinueHandsOn DEF GetUser
  <2> QED BY <1>2, <2>3, SameTables DEF GetUser, Moves, Announced
<1>3. CASE Lookup(p)
  <2>0. At(p, "lookup") /\ UNCHANGED tableVars
    BY <1>3 DEF Lookup, Moves
  <2>1. CASE Done(p)
    BY <1>0, <2>0, <2>1, DoneHandsOn, SameTables DEF Announced
  <2>2. CASE Goto(p, <<"useradd">> \o Tail(prog[p]), job[p])
    <3>1. /\ prog[p] \in Seq(Step) /\ prog[p] # <<>> /\ Head(prog[p]) = "lookup"
          /\ Tail(prog[p]) \in Seq(Step) /\ <<"useradd">> \in Seq(Step)
      BY <1>0, <2>0, TailIndex DEF At, ProcInv, Step, CmdSteps
    <3>2. /\ <<"useradd">> \o Tail(prog[p]) \in Seq(Step)
          /\ Has(prog[p], "reload") => Has(<<"useradd">> \o Tail(prog[p]), "reload")
      BY <3>1, TailHas, ConcatHas, ConcatIndex
    <3>3. HandsOn(p)
      BY <1>0, <2>2, <3>2, GotoOwes DEF HandsOn, Owing
    <3> QED BY <2>0, <3>3, SameTables DEF Announced
  <2> QED BY <1>3, <2>1, <2>2 DEF Lookup
<1>4. CASE UserAdd(p) /\ ~Abort(p)
  <2>1. [job[p] EXCEPT !.created = TRUE].changed = job[p].changed
    BY <1>0 DEF Job
  <2>2. HandsOn(p)
    BY <1>0, <1>4, <2>1, ContinueHandsOn DEF UserAdd
  <2> QED BY <1>4, <2>2, SameTables DEF UserAdd, OnSystem, Announced
<1>5. CASE InsertUserStep(p) /\ ~Abort(p)
  <2>1. [job[p] EXCEPT !.uid = nextUser, !.changed = TRUE].changed
    BY <1>0 DEF Job
  <2>2. HandsOn(p)
    BY <1>0, <1>5, <2>1, ContinueHandsOn DEF InsertUserStep
  <2>3. Described' = Described
    BY <1>5, NewUserSameConfig DEF InsertUserStep
  <2> QED BY <2>2, <2>3 DEF Announced
<1> QED BY <1>1, <1>2, <1>3, <1>4, <1>5

LEMMA LoopsHandOn ==
  ASSUME IInv, FollowsInv, NEW p \in Proc,
         SelectExpired(p) \/ NextExpired(p) \/ BulkPair(p) \/ NextGrant(p)
  PROVE  HandsOn(p) /\ Announced(p)
<1>0. ProcInv /\ job[p] \in Job
  BY DEF IInv, ProcInv, SafeJob
<1>h. /\ prog[p] \in Seq(Step) /\ prog[p] # <<>> /\ Tail(prog[p]) \in Seq(Step)
      /\ Follows(prog[p])
  BY <1>0, TailIndex DEF SelectExpired, NextExpired, BulkPair, NextGrant, At, ProcInv,
     FollowsInv
\* An inner operation goes in front.
<1>i. ASSUME NEW x \in Seq(Step), NEW s \in Seq(Step), NEW j, Goto(p, x \o s, j),
             Has(prog[p], "reload") => Has(s, "reload"), j.changed = job[p].changed
      PROVE  HandsOn(p)
  <2>1. x \o s \in Seq(Step) /\ (Has(s, "reload") => Has(x \o s, "reload"))
    BY <1>i, ConcatHas, ConcatIndex
  <2> QED BY <1>0, <1>i, <2>1, GotoOwes DEF HandsOn, Owing
<1>1. CASE SelectExpired(p)
  <2> DEFINE j == [job[p] EXCEPT !.rows = ExpiredTemporary]
             x == IF ExpiredTemporary = {} THEN <<>> ELSE <<"nextExpired">> \o ApplySteps
  <2>1. j.changed = job[p].changed
    BY <1>0 DEF Job
  <2>2. x \in Seq(Step)
    <3>1. <<"nextExpired">> \in Seq(Step) /\ <<>> \in Seq(Step)
      BY DEF Step
    <3> QED BY <3>1, ApplyFollows
  <2>3. Has(prog[p], "reload") => Has(Tail(prog[p]), "reload")
    BY <1>1, <1>h, TailHas DEF SelectExpired, At
  <2>4. Goto(p, x \o Tail(prog[p]), j) /\ UNCHANGED tableVars
    BY <1>1 DEF SelectExpired, Moves
  <2> HIDE DEF x, j
  <2>5. HandsOn(p)
    BY <1>h, <1>i, <2>1, <2>2, <2>3, <2>4
  <2> QED BY <2>4, <2>5, SameTables DEF Announced
<1>2. CASE NextExpired(p)
  <2> DEFINE j(u) == [job[p] EXCEPT !.rows = @ \ {u}, !.uid = u.id, !.name = u.name,
                                    !.created = u.created]
  <2>1. \A u : j(u).changed = job[p].changed
    BY <1>0 DEF Job
  <2>2. /\ At(p, "nextExpired") /\ UNCHANGED tableVars
        /\ Done(p) \/ \E u \in job[p].rows : Goto(p, ExpiredSteps \o prog[p], j(u))
    BY <1>2 DEF NextExpired, Moves
  <2> HIDE DEF j
  <2>3. ExpiredSteps \in Seq(Step)
    BY DEF ExpiredSteps, Step, DbSteps, CmdSteps
  <2>4. HandsOn(p)
    BY <1>0, <1>h, <1>i, <2>1, <2>2, <2>3, DoneHandsOn
  <2> QED BY <2>2, <2>4, SameTables DEF Announced
<1>3. CASE NextGrant(p)
  <2> DEFINE j(t) == [job[p] EXCEPT !.todo = @ \ {t}, !.vid = t[2]]
  <2>1. \A t : j(t).changed = job[p].changed
    BY <1>0 DEF Job
  <2>2. /\ At(p, "nextGrant") /\ UNCHANGED tableVars
        /\ Done(p) \/ \E t \in job[p].todo : Goto(p, SetPermissionSteps \o prog[p], j(t))
    BY <1>3 DEF NextGrant, Moves
  <2> HIDE DEF j
  <2>3. SetPermissionSteps \in Seq(Step)
    BY GrantStartable DEF Startable, Sound
  <2>4. HandsOn(p)
    BY <1>0, <1>h, <1>i, <2>1, <2>2, <2>3, DoneHandsOn
  <2> QED BY <2>2, <2>4, SameTables DEF Announced
<1>4. CASE BulkPair(p)
  <2> DEFINE j(t) == [job[p] EXCEPT !.todo = @ \ {t}, !.uid = t[1],
                                    !.changed = @ \/ perms' # perms]
  <2>0. At(p, "bulkPair")
    BY <1>4 DEF BulkPair
  <2>1. CASE Abort(p)
    BY <2>1, GiveUpHandsOn DEF Announced
  <2>2. CASE Done(p) /\ Moves
    BY <1>0, <2>0, <2>2, DoneHandsOn, SameTables DEF Moves, Announced
  <2>3. ASSUME NEW t \in job[p].todo, Goto(p, prog[p], j(t)),
               UNCHANGED <<users, volumes, settings>>
        PROVE  HandsOn(p) /\ Announced(p)
    <3>1. j(t).changed <=> job[p].changed \/ perms' # perms
      BY <1>0 DEF Job
    <3> HIDE DEF j
    <3>2. Has(prog[p], "reload")
      <4>1. Head(prog[p]) \in Changing
        BY <2>0 DEF At, Changing
      <4> QED BY <1>h, <4>1, TailFollows, TailHas
    <3>3. job[p].changed \/ perms' # perms => Owing(p)'
      BY <1>0, <1>h, <2>3, <3>1, <3>2, GotoOwes
    <3>4. perms' = perms => Described' = Described
      BY <2>3 DEF Described, EnabledVolumes, ForConfig
    <3> QED BY <3>3, <3>4 DEF HandsOn, Owing, Announced
  <2>4. CASE (\E t \in job[p].todo : Goto(p, prog[p], j(t)))
             /\ UNCHANGED <<users, volumes, settings>>
    BY <2>3, <2>4
  <2> QED BY <1>4, <2>1, <2>2, <2>4 DEF BulkPair, DeletePerm, Upsert
<1> QED BY <1>1, <1>2, <1>3, <1>4

LEMMA OwingOthers ==
  ASSUME ProcInv, EnforcedInv, NEW p \in Proc, HandsOn(p), Announced(p), MaybeFails,
         loaded' = loaded, \A q \in Proc \ {p} : prog'[q] = prog[q] /\ job'[q] = job[q]
  PROVE  EnforcedInv'
<1> SUFFICES ASSUME applied' = "ok", loaded' # Described' PROVE (\E q \in Proc : Owing(q))'
  BY DEF EnforcedInv
<1>1. applied = "ok" /\ applied' # "failed"
  BY DEF MaybeFails
<1>2. CASE Described' = Described
  <2>1. PICK q \in Proc : Owing(q)
    BY <1>1, <1>2 DEF EnforcedInv
  <2>2. Owing(q)'
    BY <1>1, <2>1 DEF HandsOn, Owing
  <2> QED BY <2>2
<1> QED BY <1>2 DEF Announced

\* A step of a handler says how that handler goes on, and no other's.
LEMMA RunGoes ==
  ASSUME NEW p, Run(p)
  PROVE  \E s, j : Goto(p, s, j)
<1> USE DEF Done, Changed, Continue, Abort, ApplyFailed
<1>1. CASE Fail(p) \/ ReloadSmbd(p) \/ RestartSmbd(p) \/ EnsureShares(p) \/ WriteConf(p)
           \/ ReadTables(p)
  BY <1>1 DEF Fail, ReloadSmbd, RestartSmbd, EnsureShares, WriteConf, ReadTables
<1>2. CASE \/ Unlock(p) \/ GetVolume(p) \/ Walk(p) \/ GetUser(p) \/ Lookup(p)
           \/ AddToGroup(p) \/ SelectExpired(p) \/ NextExpired(p) \/ PermUser(p)
           \/ PermVolume(p) \/ BulkCheck(p) \/ BulkPair(p) \/ NextGrant(p)
  BY <1>2 DEF Unlock, GetVolume, Walk, GetUser, Lookup, AddToGroup, SelectExpired,
     NextExpired, PermUser, PermVolume, BulkCheck, BulkPair, NextGrant
<1>3. CASE \/ InsertVolumeStep(p) \/ UpdateVolumeStep(p) \/ DeleteVolumeStep(p)
           \/ SetEnabledStep(p) \/ DeleteUserStep(p) \/ SetSettings(p) \/ PermRow(p)
           \/ InsertUserStep(p)
  BY <1>3 DEF InsertVolumeStep, UpdateVolumeStep, DeleteVolumeStep,
     SetEnabledStep, DeleteUserStep, SetSettings, PermRow, InsertUserStep
<1>4. CASE UserAdd(p) \/ SetPassword(p) \/ SetFlag(p) \/ PdbDelete(p) \/ UserDel(p)
  BY <1>4 DEF UserAdd, SetPassword, SetFlag, PdbDelete, UserDel
<1> QED BY <1>1, <1>2, <1>3, <1>4 DEF Run

LEMMA RunEnforced ==
  ASSUME IInv, ControlInv, FollowsInv, EnforcedInv, NEW p \in Proc, Fresh(p), Run(p)
  PROVE  EnforcedInv'
<1>0. ProcInv
  BY DEF IInv
<1>1. CASE ReloadSmbd(p) \/ RestartSmbd(p)
  <2>1. UNCHANGED tableVars
    BY <1>0, <1>1, ApplyControl DEF Applying
  <2>2. loaded' = conf /\ Within(p, {"reload", "restart"})
    BY <1>1 DEF ReloadSmbd, RestartSmbd, Within
  <2>3. loaded' = Described'
    BY <2>1, <2>2, SameTables DEF Fresh
  <2> QED BY <2>3 DEF EnforcedInv
<1>2. CASE ~(ReloadSmbd(p) \/ RestartSmbd(p))
  <2>1. HandsOn(p) /\ Announced(p)
    BY <1>2, CheckingHandsOn, TablesHandsOn, UsersHandsOn, LoopsHandOn DEF Run
  <2>2. loaded' = loaded /\ MaybeFails
    <3> USE DEF Done, Changed, Continue, Abort, ApplyFailed, smbVars, MaybeFails
    <3>1. CASE Fail(p)
      BY <3>1 DEF Fail
    <3>2. CASE \/ Unlock(p) \/ GetVolume(p) \/ Walk(p) \/ GetUser(p) \/ Lookup(p)
               \/ AddToGroup(p) \/ SelectExpired(p) \/ NextExpired(p) \/ PermUser(p)
               \/ PermVolume(p) \/ BulkCheck(p) \/ NextGrant(p) \/ ReadTables(p)
      BY <3>2 DEF Unlock, GetVolume, Walk, GetUser, Lookup, AddToGroup, SelectExpired,
         NextExpired, PermUser, PermVolume, BulkCheck, NextGrant, ReadTables, Moves
    <3>3. CASE \/ InsertVolumeStep(p) \/ UpdateVolumeStep(p) \/ DeleteVolumeStep(p)
               \/ SetEnabledStep(p) \/ DeleteUserStep(p) \/ SetSettings(p) \/ PermRow(p)
               \/ InsertUserStep(p)
      BY <3>3 DEF InsertVolumeStep, UpdateVolumeStep, DeleteVolumeStep, SetEnabledStep,
         DeleteUserStep, SetSettings, PermRow, InsertUserStep, OnTables
    <3>4. CASE UserAdd(p) \/ SetPassword(p) \/ SetFlag(p) \/ PdbDelete(p) \/ UserDel(p)
      BY <3>4 DEF UserAdd, SetPassword, SetFlag, PdbDelete, UserDel, OnSystem
    <3>5. CASE BulkPair(p)
      BY <3>5 DEF BulkPair, Moves, OnTables
    <3>6. CASE EnsureShares(p) \/ WriteConf(p)
      BY <3>6 DEF EnsureShares, WriteConf, Moves
    <3> QED BY <1>2, <3>1, <3>2, <3>3, <3>4, <3>5, <3>6 DEF Run
  <2>3. \A q \in Proc \ {p} : prog'[q] = prog[q] /\ job'[q] = job[q]
    BY <1>0, RunGoes DEF Goto, ProcInv
  <2> QED BY <1>0, <2>1, <2>2, <2>3, OwingOthers
<1> QED BY <1>1, <1>2

LEMMA NextEnforced ==
  ASSUME IInv, ControlInv, FreshInv, FollowsInv, EnforcedInv, [Next]_vars
  PROVE  EnforcedInv'
<1>0. ProcInv
  BY DEF IInv
<1>1. ASSUME NEW p \in Proc, prog[p] = <<>>, NEW s, NEW j, Goto(p, s, j),
             UNCHANGED <<tableVars, loaded, applied>>
      PROVE  EnforcedInv'
  <2>1. ~Owing(p)
    BY <1>1 DEF Owing, Has
  <2>2. \A q \in Proc \ {p} : prog'[q] = prog[q] /\ job'[q] = job[q]
    BY <1>0, <1>1 DEF Goto, ProcInv
  <2> QED BY <1>0, <1>1, <2>1, <2>2, OwingOthers, SameTables
          DEF HandsOn, Announced, MaybeFails
<1>2. ASSUME NEW p \in Worker, Request(p) PROVE EnforcedInv'
  <2>1. PICK op, s, j : /\ Handler(op, s) /\ Begin(p, op, s, j)
                        /\ op # "createTemporary" => Begun(j)
    BY <1>2, RequestHandles
  <2>2. /\ p \in Proc /\ prog[p] = <<>> /\ Goto(p, s, j)
        /\ UNCHANGED <<tableVars, loaded, applied>>
    BY <2>1 DEF Begin, Proc, smbVars
  <2> QED BY <1>1, <2>2
<1>3. ASSUME NEW p \in Janitor, Tick(p) PROVE EnforcedInv'
  BY <1>1, <1>3 DEF Tick, Moves, Proc, smbVars
<1>4. ASSUME NEW p \in Proc, Lock(p) PROVE EnforcedInv'
  <2>1. HandsOn(p) /\ Announced(p)
    BY <1>0, <1>4, DoneHandsOn, SameTables DEF Lock, Announced
  <2>2. \A q \in Proc \ {p} : prog'[q] = prog[q] /\ job'[q] = job[q]
    BY <1>0, <1>4 DEF Lock, Done, Continue, Goto, ProcInv
  <2> QED BY <1>0, <1>4, <2>1, <2>2, OwingOthers DEF Lock, MaybeFails, smbVars
<1>5. CASE LeaseExpires
  BY <1>5, LeaseSameConfig DEF LeaseExpires, smbVars, EnforcedInv, Owing
<1>6. CASE Crash
  BY <1>6 DEF Crash, EnforcedInv
<1>7. CASE UNCHANGED vars
  BY <1>7, SameTables DEF vars, smbVars, EnforcedInv, Owing
<1>8. ASSUME NEW p \in Proc, Run(p) PROVE EnforcedInv'
  BY <1>8, RunEnforced DEF FreshInv
<1> QED BY <1>2, <1>3, <1>4, <1>5, <1>6, <1>7, <1>8 DEF Next

\* What the controller is for, for any number of processes and any failures: as
\* long as no two handlers work at a time, then whenever nothing is running and
\* nothing has failed since the last apply, smbd lets in, and lets write, exactly
\* whom the tables say.
THEOREM ServiceEnforced ==
  ASSUME Exclusion
  PROVE  Spec => []Enforced
<1>1. Spec => [](IInv /\ ControlInv)
  BY ServiceInvariant, ControlInvariant, PTL
<1>2. IInv /\ ControlInv /\ LockingInv /\ FreshInv /\ [Next]_vars => LockingInv' /\ FreshInv'
  BY NextFresh, NextLocking DEF IInv
<1>3. Init => FollowsInv /\ EnforcedInv
  BY HandlerFollows DEF Init, AtStart, FollowsInv, EnforcedInv
<1>4. /\ IInv /\ FollowsInv /\ [Next]_vars => FollowsInv'
      /\ IInv /\ ControlInv /\ FreshInv /\ FollowsInv /\ EnforcedInv /\ [Next]_vars
           => EnforcedInv'
  BY NextFollows, NextEnforced DEF IInv
<1>5. IInv /\ EnforcedInv => Enforced
  <2> SUFFICES ASSUME IInv, EnforcedInv, Quiet, applied = "ok" PROVE Exact(loaded)
    BY DEF Enforced
  <2>1. \A p \in Proc : ~Owing(p)
    BY DEF Quiet, Owing, Has
  <2>2. loaded = Described
    BY <2>1 DEF EnforcedInv
  <2> QED BY <2>2, DescribedExact DEF IInv, DataInv, StoreInv
<1> QED BY <1>1, <1>2, <1>3, <1>4, <1>5, InitLocking, InitFresh, PTL DEF Spec

-----------------------------------------------------------------------------
(* A handler that has changed something gets to its apply. *)

\* The steps a handler may take between a change and its apply.
Between == {"reread", "flag", "bulkPair", "nextExpired", "pdbDelete", "deleteUser", "userdel"}

\* In CreateTemporaryUser also the checks of a grant.
BetweenGrants == Between \cup {"lock", "permUser", "permVolume", "permRow"}

Makes == Changing \cup {"insertUser"}

\* On the way to the apply there is nothing but steps of B.
Direct(s, B) == \A j \in 1 .. Len(s) : s[j] = "readSettings" =>
  \A k \in 1 .. j - 1 : s[k] \in B

\* From every change, the way to an apply is direct, and no apply follows the
\* loops that bring their own.
Prompt(s) ==
  /\ \A i, j \in 1 .. Len(s) :
       i < j /\ s[i] \in {"selectExpired", "nextGrant"} => s[j] # "readSettings"
  /\ \A i, j \in 1 .. Len(s) : i < j /\ s[i] \in Makes /\ s[j] = "readSettings" =>
       \A k \in i + 1 .. j - 1 : s[k] \in Between

PromptInv == \A p \in Proc :
  /\ Prompt(prog[p])
  /\ Has(prog[p], "nextGrant") => job[p].temp
  /\ job[p].changed => Direct(prog[p], BetweenGrants)
  /\ job[p].changed /\ ~job[p].temp => Direct(prog[p], Between)

LEMMA WiderDirect ==
  ASSUME NEW s, Direct(s, Between) PROVE Direct(s, BetweenGrants)
BY DEF Direct, BetweenGrants

LEMMA TailPrompt ==
  ASSUME NEW s \in Seq(Step), s # <<>>, Prompt(s)
  PROVE  /\ Prompt(Tail(s))
         /\ Head(s) \in Makes => Direct(Tail(s), Between)
         /\ Head(s) \in {"selectExpired", "nextGrant"} => ~Has(Tail(s), "readSettings")
         /\ \A B :
              /\ Direct(s, B) => Direct(Tail(s), B)
              /\ Direct(s, B) /\ Has(s, "readSettings") =>
                   Head(s) = "readSettings" \/ Head(s) \in B
              /\ Head(s) \in B /\ Direct(Tail(s), B) => Direct(s, B)
<1> DEFINE t == Tail(s)
<1>1. /\ Len(s) \in Nat /\ Len(s) > 0 /\ Len(t) = Len(s) - 1 /\ Head(s) = s[1]
      /\ t \in Seq(Step)
      /\ \A i \in 1 .. Len(s) - 1 : t[i] = s[i + 1]
  BY TailIndex
<1> HIDE DEF t
<1>i. \A i \in 1 .. Len(t) : i + 1 \in 1 .. Len(s) /\ t[i] = s[i + 1]
  BY <1>1
<1>3. ASSUME NEW i \in 1 .. Len(t), NEW j \in 1 .. Len(t), i < j,
             t[i] \in {"selectExpired", "nextGrant"}
      PROVE  t[j] # "readSettings"
  <2>1. /\ i + 1 \in 1 .. Len(s) /\ s[i + 1] \in {"selectExpired", "nextGrant"}
        /\ j + 1 \in 1 .. Len(s) /\ t[j] = s[j + 1] /\ i + 1 < j + 1
    BY <1>i, <1>3
  <2> QED BY <2>1 DEF Prompt
<1>4. ASSUME NEW i \in 1 .. Len(s), NEW j \in 1 .. Len(t), i <= j,
             s[i] \in Makes, t[j] = "readSettings",
             NEW k \in i .. j - 1
      PROVE  t[k] \in Between
  <2>1. /\ j + 1 \in 1 .. Len(s) /\ s[j + 1] = "readSettings" /\ i < j + 1
        /\ k + 1 \in i + 1 .. (j + 1) - 1 /\ k \in 1 .. Len(t)
    BY <1>1, <1>i, <1>4
  <2>2. s[k + 1] \in Between
    BY <1>4, <2>1 DEF Prompt
  <2> QED BY <2>1, <2>2, <1>i
<1>5. Prompt(t)
  <2>1. ASSUME NEW i \in 1 .. Len(t), NEW j \in 1 .. Len(t), i < j,
               t[i] \in Makes, t[j] = "readSettings",
               NEW k \in i + 1 .. j - 1
        PROVE  t[k] \in Between
    <3>1. i + 1 \in 1 .. Len(s) /\ i + 1 <= j /\ s[i + 1] \in Makes
      BY <1>1, <1>i, <2>1
    <3> QED BY <3>1, <2>1, <1>4
  <2> QED BY <1>3, <2>1 DEF Prompt
<1>6. ASSUME s[1] \in Makes PROVE Direct(t, Between)
  <2>1. ASSUME NEW j \in 1 .. Len(t), t[j] = "readSettings", NEW k \in 1 .. j - 1
        PROVE  t[k] \in Between
    <3>1. 1 \in 1 .. Len(s) /\ 1 <= j
      BY <1>1, <2>1
    <3> QED BY <3>1, <2>1, <1>4, <1>6
  <2> QED BY <2>1 DEF Direct
<1>7. ASSUME s[1] \in {"selectExpired", "nextGrant"} PROVE ~Has(t, "readSettings")
  <2>1. ASSUME NEW j \in 1 .. Len(t) PROVE t[j] # "readSettings"
    <3>1. 1 \in 1 .. Len(s) /\ j + 1 \in 1 .. Len(s) /\ 1 < j + 1 /\ t[j] = s[j + 1]
      BY <1>1, <1>i
    <3> QED BY <3>1, <1>7 DEF Prompt
  <2> QED BY <2>1 DEF Has
<1>8. ASSUME NEW B, Direct(s, B) PROVE Direct(t, B)
  <2>1. ASSUME NEW j \in 1 .. Len(t), t[j] = "readSettings", NEW k \in 1 .. j - 1
        PROVE  t[k] \in B
    <3>1. /\ j + 1 \in 1 .. Len(s) /\ s[j + 1] = "readSettings"
          /\ k + 1 \in 1 .. (j + 1) - 1 /\ k \in 1 .. Len(t)
      BY <1>1, <1>i, <2>1
    <3> QED BY <3>1, <1>i, <1>8 DEF Direct
  <2> QED BY <2>1 DEF Direct
<1>9. ASSUME NEW B, Direct(s, B), Has(s, "readSettings")
      PROVE  s[1] = "readSettings" \/ s[1] \in B
  <2>1. PICK j \in 1 .. Len(s) : s[j] = "readSettings"
    BY <1>9 DEF Has
  <2>2. j = 1 \/ 1 \in 1 .. j - 1
    BY <2>1
  <2> QED BY <2>1, <2>2, <1>9 DEF Direct
<1>10. ASSUME NEW B, s[1] \in B, Direct(t, B) PROVE Direct(s, B)
  <2>1. ASSUME NEW j \in 1 .. Len(s), s[j] = "readSettings", NEW k \in 1 .. j - 1
        PROVE  s[k] \in B
    <3>1. CASE k = 1
      BY <3>1, <1>10
    <3>2. CASE k # 1
      <4>0. /\ j - 1 \in 1 .. Len(t) /\ (j - 1) + 1 = j
            /\ k - 1 \in 1 .. Len(t) /\ (k - 1) + 1 = k /\ k - 1 \in 1 .. (j - 1) - 1
        BY <1>1, <2>1, <3>2
      <4>1. t[j - 1] = s[j] /\ t[k - 1] = s[k]
        BY <1>i, <4>0
      <4> QED BY <4>0, <4>1, <2>1, <1>10 DEF Direct
    <3> QED BY <3>1, <3>2
  <2> QED BY <2>1 DEF Direct
<1> QED BY <1>1, <1>5, <1>6, <1>7, <1>8, <1>9, <1>10 DEF t

\* Steps in front of a handler: it applies nothing, or they change nothing, or
\* from them on the way is direct.
LEMMA ConcatPrompt ==
  ASSUME NEW x \in Seq(Step), NEW s \in Seq(Step), Prompt(x), Prompt(s),
         \/ ~Has(s, "readSettings")
         \/ \A i \in 1 .. Len(x) : x[i] \notin Makes \cup {"selectExpired", "nextGrant"}
         \/ /\ Direct(s, Between)
            /\ \A i \in 1 .. Len(x) : x[i] \notin {"selectExpired", "nextGrant"}
            /\ \A i, k \in 1 .. Len(x) :
                 i < k /\ x[i] \in Makes => x[k] \in Between
  PROVE  Prompt(x \o s)
<1> DEFINE t == x \o s
           n == Len(x)
<1>1. /\ n \in Nat /\ Len(s) \in Nat /\ Len(t) = n + Len(s)
      /\ \A i \in 1 .. n : t[i] = x[i]
      /\ \A i \in 1 .. Len(s) : t[n + i] = s[i]
      /\ \A i \in 1 .. Len(t) : i <= n \/ i - n \in 1 .. Len(s)
  BY ConcatIndex
<1> HIDE DEF t, n
<1>2. \A i \in 1 .. Len(t) : i > n => i - n \in 1 .. Len(s) /\ t[i] = s[i - n]
  <2> SUFFICES ASSUME NEW i \in 1 .. Len(t), i > n
               PROVE  i - n \in 1 .. Len(s) /\ t[i] = s[i - n]
    OBVIOUS
  <2>1. i - n \in 1 .. Len(s) /\ n + (i - n) = i
    BY <1>1
  <2>2. t[n + (i - n)] = s[i - n]
    BY <1>1, <2>1
  <2> QED BY <2>1, <2>2
<1>3. \A i \in 1 .. Len(t) : i <= n => i \in 1 .. n /\ t[i] = x[i]
  BY <1>1
<1>5. ASSUME NEW i \in 1 .. Len(t), NEW j \in 1 .. Len(t), i < j, t[i] \in {"selectExpired", "nextGrant"},
             t[j] = "readSettings"
      PROVE  FALSE
  <2>1. CASE j <= n
    <3>1. i \in 1 .. n /\ j \in 1 .. n /\ t[i] = x[i] /\ t[j] = x[j]
      BY <1>1, <1>3, <1>5, <2>1
    <3> QED BY <1>5, <3>1 DEF Prompt, n
  <2>2. CASE i > n
    <3>1. /\ i - n \in 1 .. Len(s) /\ j - n \in 1 .. Len(s) /\ i - n < j - n
          /\ t[i] = s[i - n] /\ t[j] = s[j - n]
      BY <1>1, <1>2, <1>5, <2>2
    <3> QED BY <1>5, <3>1 DEF Prompt
  <2>3. CASE i <= n /\ j > n
    <3>1. Has(s, "readSettings") /\ i \in 1 .. n /\ x[i] \in {"selectExpired", "nextGrant"}
      BY <1>2, <1>3, <1>5, <2>3 DEF Has
    <3> QED BY <3>1 DEF n
  <2> QED BY <2>1, <2>2, <2>3, <1>1
<1>6. ASSUME NEW i \in 1 .. Len(t), NEW j \in 1 .. Len(t), i < j, t[i] \in Makes,
             t[j] = "readSettings", NEW k \in i + 1 .. j - 1
      PROVE  t[k] \in Between
  <2>0. k \in 1 .. Len(t)
    BY <1>1, <1>6
  <2>1. CASE j <= n
    <3>1. /\ i \in 1 .. n /\ j \in 1 .. n /\ t[i] = x[i] /\ t[j] = x[j]
          /\ k \in 1 .. n /\ t[k] = x[k]
      BY <1>1, <1>3, <1>6, <2>0, <2>1
    <3> QED BY <1>6, <3>1 DEF Prompt, n
  <2>2. CASE i > n
    <3>1. /\ i - n \in 1 .. Len(s) /\ j - n \in 1 .. Len(s) /\ i - n < j - n
          /\ k - n \in (i - n) + 1 .. (j - n) - 1
          /\ t[i] = s[i - n] /\ t[j] = s[j - n] /\ t[k] = s[k - n]
      BY <1>1, <1>2, <1>6, <2>0, <2>2
    <3> QED BY <1>6, <3>1 DEF Prompt
  <2>3. CASE i <= n /\ j > n
    <3>1. /\ Has(s, "readSettings") /\ i \in 1 .. n /\ x[i] \in Makes
          /\ j - n \in 1 .. Len(s) /\ s[j - n] = "readSettings"
      BY <1>2, <1>3, <1>6, <2>3 DEF Has
    <3>2. /\ Direct(s, Between)
          /\ \A k1 \in 1 .. n : i < k1 => x[k1] \in Between
      BY <3>1 DEF n
    <3>3. CASE k <= n
      BY <1>3, <1>6, <2>0, <3>2, <3>3
    <3>4. CASE k > n
      <4>1. k - n \in 1 .. (j - n) - 1 /\ t[k] = s[k - n]
        BY <1>1, <1>2, <1>6, <2>0, <3>1, <3>4
      <4> QED BY <3>1, <3>2, <4>1 DEF Direct
    <3> QED BY <3>3, <3>4, <1>1, <2>0
  <2> QED BY <2>1, <2>2, <2>3, <1>1
<1> QED BY <1>5, <1>6 DEF Prompt, t

LEMMA ConcatDirect ==
  ASSUME NEW B, NEW x \in Seq(Step), NEW s \in Seq(Step), Direct(s, B) \/ ~Has(s, "readSettings"),
         \/ \A i \in 1 .. Len(x) : x[i] \in B
         \/ Direct(x, B) /\ ~Has(s, "readSettings")
  PROVE  Direct(x \o s, B)
<1> DEFINE t == x \o s
           n == Len(x)
<1>1. /\ n \in Nat /\ Len(s) \in Nat /\ Len(t) = n + Len(s)
      /\ \A i \in 1 .. n : t[i] = x[i]
      /\ \A i \in 1 .. Len(s) : t[n + i] = s[i]
      /\ \A i \in 1 .. Len(t) : i <= n \/ i - n \in 1 .. Len(s)
  BY ConcatIndex
<1> HIDE DEF t, n
<1>2. \A i \in 1 .. Len(t) : i > n => i - n \in 1 .. Len(s) /\ t[i] = s[i - n]
  <2> SUFFICES ASSUME NEW i \in 1 .. Len(t), i > n
               PROVE  i - n \in 1 .. Len(s) /\ t[i] = s[i - n]
    OBVIOUS
  <2>1. i - n \in 1 .. Len(s) /\ n + (i - n) = i
    BY <1>1
  <2>2. t[n + (i - n)] = s[i - n]
    BY <1>1, <2>1
  <2> QED BY <2>1, <2>2
<1>3. \A i \in 1 .. Len(t) : i <= n => i \in 1 .. n /\ t[i] = x[i]
  BY <1>1
<1>4. ASSUME NEW j \in 1 .. Len(t), t[j] = "readSettings", NEW k \in 1 .. j - 1
      PROVE  t[k] \in B
  <2>0. k \in 1 .. Len(t)
    BY <1>1, <1>4
  <2>1. CASE j <= n
    <3>1. j \in 1 .. n /\ x[j] = "readSettings" /\ k \in 1 .. n /\ t[k] = x[k]
      BY <1>1, <1>3, <1>4, <2>0, <2>1
    <3>2. (\A i \in 1 .. n : x[i] \in B) \/ Direct(x, B)
      BY DEF n
    <3> QED BY <1>4, <3>1, <3>2 DEF Direct, n
  <2>2. CASE j > n
    <3>1. Has(s, "readSettings") /\ j - n \in 1 .. Len(s) /\ s[j - n] = "readSettings"
      BY <1>2, <1>4, <2>2 DEF Has
    <3>2. Direct(s, B) /\ \A i \in 1 .. n : x[i] \in B
      BY <3>1 DEF n
    <3>3. CASE k <= n
      BY <1>3, <2>0, <3>2, <3>3
    <3>4. CASE k > n
      <4>1. k - n \in 1 .. (j - n) - 1 /\ t[k] = s[k - n]
        BY <1>1, <1>2, <1>4, <2>0, <3>1, <3>4
      <4> QED BY <3>1, <3>2, <4>1 DEF Direct
    <3> QED BY <3>3, <3>4, <1>1, <2>0
  <2> QED BY <2>1, <2>2, <1>1
<1> QED BY <1>4 DEF Direct, t

\* What stands in front of an apply: changes only right before it.
Ends(x) ==
  /\ \A i \in 1 .. Len(x) :
       x[i] \notin {"nextGrant", "selectExpired", "readSettings"}
  /\ \A i, k \in 1 .. Len(x) : i < k /\ x[i] \in Makes => x[k] \in Between

LEMMA PlainPrompt ==
  ASSUME NEW s \in Seq(Step), \A i \in 1 .. Len(s) : s[i] # "readSettings"
  PROVE  Prompt(s) /\ ~Has(s, "readSettings")
BY DEF Prompt, Has

LEMMA ApplyItself == ApplySteps \in Seq(Step) /\ Prompt(ApplySteps) /\ \A B : Direct(ApplySteps, B)
<1>1. ApplySteps \in Seq(Step)
  BY ApplyFollows
<1>2. \A B : Direct(ApplySteps, B)
  BY <1>1 DEF ApplySteps, Direct
<1>3. Prompt(ApplySteps)
  BY <1>1 DEF ApplySteps, Prompt, Makes, Changing
<1> QED BY <1>1, <1>2, <1>3

\* A handler that ends with an apply.
LEMMA ApplyPrompt ==
  ASSUME NEW x \in Seq(Step), Ends(x)
  PROVE  x \o ApplySteps \in Seq(Step) /\ Prompt(x \o ApplySteps)
<1>1. Prompt(x) /\ ~Has(x, "readSettings")
  BY PlainPrompt DEF Ends
<1>2. x \o ApplySteps \in Seq(Step)
  BY ApplyItself
<1>3. /\ \A i \in 1 .. Len(x) : x[i] \notin {"selectExpired", "nextGrant"}
      /\ \A i, k \in 1 .. Len(x) :
           i < k /\ x[i] \in Makes => x[k] \in Between
  BY DEF Ends
<1> QED BY <1>1, <1>2, <1>3, ApplyItself, ConcatPrompt

\* The steps that come before the applies of the handlers.
LEMMA FrontsEnd ==
  \A x \in {<<"walk", "insertVolume">>, <<"getVolume", "walk", "updateVolume", "reread">>,
            <<"deleteVolume">>, <<"lookup", "group", "password", "insertUser">>,
            <<"getUser", "flag", "setEnabled">>, <<"setSettings">>,
            <<"getUser", "setEnabled", "reread", "flag">>,
            <<"getUser", "pdbDelete", "deleteUser">>, <<"lock", "bulkCheck", "bulkPair">>,
            <<"lock", "permUser", "permVolume", "permRow">>} : x \in Seq(Step) /\ Ends(x)
<1>1. <<"walk", "insertVolume">> \in Seq(Step) /\ Ends(<<"walk", "insertVolume">>)
  BY DEF Ends, Makes, Changing, Between, Step, DbSteps, CmdSteps
<1>2. /\ <<"getVolume", "walk", "updateVolume", "reread">> \in Seq(Step)
      /\ Ends(<<"getVolume", "walk", "updateVolume", "reread">>)
  BY DEF Ends, Makes, Changing, Between, Step, DbSteps, CmdSteps
<1>3. /\ <<"deleteVolume">> \in Seq(Step) /\ Ends(<<"deleteVolume">>)
      /\ <<"setSettings">> \in Seq(Step) /\ Ends(<<"setSettings">>)
  BY DEF Ends, Makes, Changing, Between, Step, DbSteps, CmdSteps
<1>4. /\ <<"lookup", "group", "password", "insertUser">> \in Seq(Step)
      /\ Ends(<<"lookup", "group", "password", "insertUser">>)
  BY DEF Ends, Makes, Changing, Between, Step, DbSteps, CmdSteps
<1>5. /\ <<"getUser", "flag", "setEnabled">> \in Seq(Step)
      /\ Ends(<<"getUser", "flag", "setEnabled">>)
  BY DEF Ends, Makes, Changing, Between, Step, DbSteps, CmdSteps
<1>6. /\ <<"getUser", "pdbDelete", "deleteUser">> \in Seq(Step)
      /\ Ends(<<"getUser", "pdbDelete", "deleteUser">>)
  BY DEF Ends, Makes, Changing, Between, Step, DbSteps, CmdSteps
<1>7. /\ <<"lock", "permUser", "permVolume", "permRow">> \in Seq(Step)
      /\ Ends(<<"lock", "permUser", "permVolume", "permRow">>)
  BY DEF Ends, Makes, Changing, Between, Step, DbSteps, CmdSteps
<1>8. /\ <<"getUser", "setEnabled", "reread", "flag">> \in Seq(Step)
      /\ Ends(<<"getUser", "setEnabled", "reread", "flag">>)
  BY DEF Ends, Makes, Changing, Between, Step, DbSteps, CmdSteps
<1>9. /\ <<"lock", "bulkCheck", "bulkPair">> \in Seq(Step)
      /\ Ends(<<"lock", "bulkCheck", "bulkPair">>)
  BY DEF Ends, Makes, Changing, Between, Step, DbSteps, CmdSteps
<1> QED BY <1>1, <1>2, <1>3, <1>4, <1>5, <1>6, <1>7, <1>8, <1>9

\* The steps of all handlers, and of the grant that CreateTemporaryUser puts in
\* front of what it has still to do.
LEMMA HandlerPrompt ==
  /\ \A op, s : Handler(op, s) => Prompt(s)
  /\ Prompt(CleanupSteps) /\ Prompt(RepairAllSteps) /\ Prompt(<<>>)
  /\ SetPermissionSteps \in Seq(Step) /\ Prompt(SetPermissionSteps)
  /\ Direct(SetPermissionSteps, BetweenGrants)
<1>1. /\ Prompt(CreateVolumeSteps) /\ Prompt(UpdateVolumeSteps) /\ Prompt(DeleteVolumeSteps)
      /\ Prompt(CreateUserSteps) /\ Prompt(UpdateUserSteps) /\ Prompt(SetUserEnabledSteps)
      /\ Prompt(SettingsSteps) /\ Prompt(ReloadSteps)
  <2>1. Prompt(CreateVolumeSteps)
    BY FrontsEnd, ApplyPrompt DEF CreateVolumeSteps
  <2>2. Prompt(UpdateVolumeSteps)
    BY FrontsEnd, ApplyPrompt DEF UpdateVolumeSteps
  <2>3. Prompt(DeleteVolumeSteps)
    BY FrontsEnd, ApplyPrompt DEF DeleteVolumeSteps
  <2>4. Prompt(CreateUserSteps)
    BY FrontsEnd, ApplyPrompt DEF CreateUserSteps
  <2>5. Prompt(SetUserEnabledSteps)
    BY FrontsEnd, ApplyPrompt DEF SetUserEnabledSteps
  <2>6. Prompt(SettingsSteps)
    BY FrontsEnd, ApplyPrompt DEF SettingsSteps
  <2>7. Prompt(UpdateUserSteps)
    BY FrontsEnd, ApplyPrompt DEF UpdateUserSteps
  <2> QED BY <2>1, <2>2, <2>3, <2>4, <2>5, <2>6, <2>7, ApplyItself DEF ReloadSteps
<1>2. /\ Prompt(<<>>) /\ Prompt(CleanupSteps) /\ Prompt(RepairAllSteps)
      /\ Prompt(RepairVolumeSteps) /\ Prompt(ChangePasswordSteps)
  BY DEF Prompt, Makes, Changing, CleanupSteps, RepairAllSteps, RepairVolumeSteps,
         ChangePasswordSteps
<1>3. \A x \in {<<"userdel">>, <<"unlock">>, <<"restart">>} :
        x \in Seq(Step) /\ Prompt(x) /\ ~Has(x, "readSettings")
  <2>1. /\ <<"userdel">> \in Seq(Step) /\ <<"unlock">> \in Seq(Step)
        /\ <<"restart">> \in Seq(Step)
    BY DEF Step, CmdSteps
  <2>2. \A x \in {<<"userdel">>, <<"unlock">>, <<"restart">>} :
          Prompt(x) /\ ~Has(x, "readSettings")
    BY DEF Prompt, Makes, Changing, Has
  <2> QED BY <2>1, <2>2
<1>4. Prompt(DeleteUserSteps)
  <2> DEFINE x == <<"getUser", "pdbDelete", "deleteUser">>
  <2>1. x \in Seq(Step) /\ Ends(x)
    BY FrontsEnd
  <2> HIDE DEF x
  <2>2. x \o ApplySteps \in Seq(Step) /\ Prompt(x \o ApplySteps)
    BY <2>1, ApplyPrompt
  <2> QED BY <2>2, <1>3, ConcatPrompt DEF DeleteUserSteps, x
<1>5. Prompt(RestartSteps)
  BY <1>3, ApplyItself, ConcatPrompt DEF RestartSteps
<1>6. /\ SetPermissionSteps \in Seq(Step) /\ Prompt(SetPermissionSteps)
      /\ Direct(SetPermissionSteps, BetweenGrants)
  <2> DEFINE x == <<"lock", "permUser", "permVolume", "permRow">>
  <2>1. x \in Seq(Step) /\ Ends(x) /\ \A i \in 1 .. Len(x) : x[i] \in BetweenGrants
    BY FrontsEnd DEF BetweenGrants
  <2> HIDE DEF x
  <2>2. /\ x \o ApplySteps \in Seq(Step) /\ Prompt(x \o ApplySteps)
        /\ Direct(x \o ApplySteps, BetweenGrants)
    BY <2>1, ApplyPrompt, ApplyItself, ConcatDirect
  <2>3. /\ (x \o ApplySteps) \o <<"unlock">> \in Seq(Step)
        /\ Prompt((x \o ApplySteps) \o <<"unlock">>)
        /\ Direct((x \o ApplySteps) \o <<"unlock">>, BetweenGrants)
    BY <2>2, <1>3, ConcatIndex, ConcatPrompt, ConcatDirect
  <2> QED BY <2>3 DEF SetPermissionSteps, x
<1>7. Prompt(BulkSteps)
  <2> DEFINE x == <<"lock", "bulkCheck", "bulkPair">>
  <2>1. x \in Seq(Step) /\ Ends(x)
    BY FrontsEnd
  <2> HIDE DEF x
  <2>2. x \o ApplySteps \in Seq(Step) /\ Prompt(x \o ApplySteps)
    BY <2>1, ApplyPrompt
  <2> QED BY <2>2, <1>3, ConcatPrompt DEF BulkSteps, x
<1>8. \A g \in BOOLEAN : Prompt(CreateTemporaryUserSteps(g))
  <2> DEFINE x == <<"lookup", "group", "password", "insertUser">>
  <2>1. Prompt(CreateTemporaryUserSteps(FALSE))
    BY FrontsEnd, ApplyPrompt DEF CreateTemporaryUserSteps
  <2>2. Prompt(x \o <<"nextGrant">>)
    <3>1. x \in Seq(Step) /\ Ends(x)
      BY FrontsEnd
    <3>2. <<"nextGrant">> \in Seq(Step) /\ Prompt(<<"nextGrant">>)
          /\ ~Has(<<"nextGrant">>, "readSettings")
      BY DEF Prompt, Makes, Changing, Has, Step
    <3> HIDE DEF x
    <3>3. Prompt(x)
      BY <3>1, PlainPrompt DEF Ends
    <3> QED BY <3>1, <3>2, <3>3, ConcatPrompt
  <2>3. CreateTemporaryUserSteps(TRUE) = x \o <<"nextGrant">>
    BY DEF CreateTemporaryUserSteps
  <2> QED BY <2>1, <2>2, <2>3
<1> QED BY <1>1, <1>2, <1>4, <1>5, <1>6, <1>7, <1>8 DEF Handler

\* Only CreateTemporaryUser has the loop over grants.
LEMMA Grantless ==
  /\ \A op, s : Handler(op, s) /\ op # "createTemporary" => ~Has(s, "nextGrant")
  /\ ~Has(CleanupSteps, "nextGrant") /\ ~Has(RepairAllSteps, "nextGrant")
  /\ ~Has(SetPermissionSteps, "nextGrant")
<1>1. ASSUME NEW x \in Seq(Step), Ends(x)
      PROVE  x \o ApplySteps \in Seq(Step) /\ ~Has(x \o ApplySteps, "nextGrant")
  <2>1. ~Has(x, "nextGrant")
    BY <1>1 DEF Ends, Has
  <2>2. ~Has(ApplySteps, "nextGrant")
    BY DEF ApplySteps, Has
  <2> QED BY <2>1, <2>2, ApplyItself, ConcatIndex, ConcatHas
<1>2. \A y \in {<<"userdel">>, <<"unlock">>, <<"restart">>} :
        y \in Seq(Step) /\ ~Has(y, "nextGrant")
  <2>1. /\ <<"userdel">> \in Seq(Step) /\ <<"unlock">> \in Seq(Step)
        /\ <<"restart">> \in Seq(Step)
    BY DEF Step, CmdSteps
  <2>2. \A y \in {<<"userdel">>, <<"unlock">>, <<"restart">>} : ~Has(y, "nextGrant")
    BY DEF Has
  <2> QED BY <2>1, <2>2
<1>3. /\ ~Has(CreateVolumeSteps, "nextGrant") /\ ~Has(UpdateVolumeSteps, "nextGrant")
      /\ ~Has(DeleteVolumeSteps, "nextGrant")
  BY <1>1, FrontsEnd DEF CreateVolumeSteps, UpdateVolumeSteps, DeleteVolumeSteps
<1>4. /\ ~Has(CreateUserSteps, "nextGrant") /\ ~Has(UpdateUserSteps, "nextGrant")
      /\ ~Has(SetUserEnabledSteps, "nextGrant") /\ ~Has(SettingsSteps, "nextGrant")
  BY <1>1, FrontsEnd DEF CreateUserSteps, UpdateUserSteps, SetUserEnabledSteps, SettingsSteps
<1>5. /\ ~Has(CleanupSteps, "nextGrant") /\ ~Has(RepairAllSteps, "nextGrant")
      /\ ~Has(RepairVolumeSteps, "nextGrant") /\ ~Has(ChangePasswordSteps, "nextGrant")
      /\ ~Has(ApplySteps, "nextGrant")
  BY DEF Has, CleanupSteps, RepairAllSteps, RepairVolumeSteps, ChangePasswordSteps, ApplySteps
<1>6. ~Has(ReloadSteps, "nextGrant") /\ ~Has(RestartSteps, "nextGrant")
  BY <1>2, <1>5, ApplyItself, ConcatHas DEF ReloadSteps, RestartSteps
<1>7. ~Has(DeleteUserSteps, "nextGrant")
  <2> DEFINE x == <<"getUser", "pdbDelete", "deleteUser">>
  <2>1. x \in Seq(Step) /\ Ends(x)
    BY FrontsEnd
  <2> HIDE DEF x
  <2>2. x \o ApplySteps \in Seq(Step) /\ ~Has(x \o ApplySteps, "nextGrant")
    BY <2>1, <1>1
  <2> QED BY <2>2, <1>2, ConcatHas DEF DeleteUserSteps, x
<1>8. ~Has(SetPermissionSteps, "nextGrant")
  <2> DEFINE x == <<"lock", "permUser", "permVolume", "permRow">>
  <2>1. x \in Seq(Step) /\ Ends(x)
    BY FrontsEnd
  <2> HIDE DEF x
  <2>2. x \o ApplySteps \in Seq(Step) /\ ~Has(x \o ApplySteps, "nextGrant")
    BY <2>1, <1>1
  <2> QED BY <2>2, <1>2, ConcatHas DEF SetPermissionSteps, x
<1>9. ~Has(BulkSteps, "nextGrant")
  <2> DEFINE x == <<"lock", "bulkCheck", "bulkPair">>
  <2>1. x \in Seq(Step) /\ Ends(x)
    BY FrontsEnd
  <2> HIDE DEF x
  <2>2. x \o ApplySteps \in Seq(Step) /\ ~Has(x \o ApplySteps, "nextGrant")
    BY <2>1, <1>1
  <2> QED BY <2>2, <1>2, ConcatHas DEF BulkSteps, x
<1> QED BY <1>3, <1>4, <1>5, <1>6, <1>7, <1>8, <1>9 DEF Handler

\* The steps of a handler, after one of them: still prompt, and direct if they
\* were.
LEMMA AdvancesPrompt ==
  ASSUME ProcInv, NEW p \in Proc, Advances(p), Prompt(prog[p]),
         Has(prog[p], "nextGrant") => job[p].temp
  PROVE  /\ Prompt(prog'[p])
         /\ Has(prog'[p], "nextGrant") => job[p].temp
         /\ Direct(prog[p], BetweenGrants) => Direct(prog'[p], BetweenGrants)
         /\ Direct(prog[p], Between) /\ ~job[p].temp => Direct(prog'[p], Between)
<1> DEFINE old == prog[p]
           t == Tail(old)
           temp == job[p].temp
           Good(s) == /\ Prompt(s)
                      /\ Has(s, "nextGrant") => temp
                      /\ Direct(old, BetweenGrants) => Direct(s, BetweenGrants)
                      /\ Direct(old, Between) /\ ~temp => Direct(s, Between)
<1>0. old \in Seq(Step) /\ Good(old)
  BY DEF ProcInv
<1>1. ASSUME old # <<>> PROVE t \in Seq(Step) /\ Good(t)
  <2>1. t \in Seq(Step) /\ Prompt(t) /\ (Has(t, "nextGrant") => temp)
    BY <1>0, <1>1, TailPrompt, TailIndex, TailHas
  <2>2. \A B : Direct(old, B) => Direct(t, B)
    BY <1>0, <1>1, TailPrompt
  <2> QED BY <2>1, <2>2
<1>n. ASSUME NEW s, prog' = [prog EXCEPT ![p] = s], Good(s)
      PROVE  Good(prog'[p])
  BY <1>n DEF ProcInv
<1>u. Unwind(p) \in {<<>>, <<"unlock">>}
  BY DEF Unwind
<1> HIDE DEF t, old, temp
<1>4. CASE old # <<>> /\ prog' = [prog EXCEPT ![p] = t]
  BY <1>1, <1>n, <1>4 DEF old, temp
<1>5. CASE prog' = [prog EXCEPT ![p] = Unwind(p)]
  <2>1. \A s \in {<<>>, <<"unlock">>} : Prompt(s) /\ ~Has(s, "nextGrant")
    BY DEF Prompt, Makes, Changing, Has
  <2>2. \A s \in {<<>>, <<"unlock">>} : \A B : Direct(s, B)
    BY DEF Direct
  <2> QED BY <2>1, <2>2, <1>n, <1>u, <1>5 DEF old, temp
<1>6. CASE temp /\ prog' = [prog EXCEPT ![p] = Unwind(p) \o <<"nextGrant">>]
  <2> DEFINE g == <<"nextGrant">>
  <2>1. g \in Seq(Step) /\ Prompt(g) /\ ~Has(g, "readSettings")
    BY DEF Prompt, Makes, Changing, Has, Step
  <2>2. \A B : Direct(g, B)
    BY DEF Direct
  <2>a. <<>> \in Seq(Step) /\ <<"unlock">> \in Seq(Step)
    BY DEF Step
  <2>b. \A x \in {<<>>, <<"unlock">>} : Prompt(x)
    BY DEF Prompt, Makes, Changing
  <2>3. \A x \in {<<>>, <<"unlock">>} : x \in Seq(Step) /\ Prompt(x)
    BY <2>a, <2>b
  <2>4. \A x \in {<<>>, <<"unlock">>} : \A B : Direct(x, B)
    BY DEF Direct
  <2> HIDE DEF g
  <2>5. /\ Prompt(Unwind(p) \o g)
        /\ Direct(Unwind(p) \o g, Between) /\ Direct(Unwind(p) \o g, BetweenGrants)
    BY <2>1, <2>2, <2>3, <2>4, <1>u, ConcatPrompt, ConcatDirect
  <2> QED BY <2>5, <1>n, <1>6 DEF g, old, temp
<1>7. CASE At(p, "lookup") /\ prog' = [prog EXCEPT ![p] = <<"useradd">> \o t]
  <2> DEFINE x == <<"useradd">>
  <2>0. x \in Seq(Step)
    BY DEF Step, CmdSteps
  <2>1. /\ Prompt(x) /\ ~Has(x, "nextGrant")
        /\ \A i \in 1 .. Len(x) : x[i] \notin Makes \cup {"selectExpired", "nextGrant"}
    BY DEF Makes, Changing, Prompt, Has
  <2>b. \A B : Direct(x, B)
    BY DEF Direct
  <2>2. old # <<>> /\ Head(old) = "lookup"
    BY <1>7 DEF At, old
  <2>3. /\ t \in Seq(Step) /\ Prompt(t) /\ (Has(t, "nextGrant") => temp)
        /\ Direct(old, BetweenGrants) \/ Direct(old, Between) => ~Has(t, "readSettings")
    BY <1>0, <1>1, <2>2, TailPrompt, TailHas DEF Between, BetweenGrants, t
  <2> HIDE DEF x
  <2>4. Prompt(x \o t) /\ (Has(x \o t, "nextGrant") => temp)
    BY <2>0, <2>1, <2>3, ConcatPrompt, ConcatHas
  <2>5. /\ Direct(old, BetweenGrants) => Direct(x \o t, BetweenGrants)
        /\ Direct(old, Between) => Direct(x \o t, Between)
    BY <2>0, <2>b, <2>3, ConcatDirect
  <2> QED BY <2>4, <2>5, <1>n, <1>7 DEF x, old, temp
<1>8. CASE /\ At(p, "selectExpired")
           /\ prog' = [prog EXCEPT ![p] = (<<"nextExpired">> \o ApplySteps) \o t]
  <2> DEFINE e == <<"nextExpired">>
             x == e \o ApplySteps
  <2>1. /\ e \in Seq(Step) /\ Ends(e) /\ ~Has(e, "nextGrant")
        /\ \A i \in 1 .. Len(e) : e[i] \in Between /\ e[i] \in BetweenGrants
    BY DEF Ends, Makes, Changing, Between, BetweenGrants, Step, Has
  <2>2. ~Has(ApplySteps, "nextGrant")
    BY DEF Has, ApplySteps
  <2> HIDE DEF e
  <2>3. /\ x \in Seq(Step) /\ Prompt(x) /\ ~Has(x, "nextGrant")
        /\ Direct(x, Between) /\ Direct(x, BetweenGrants)
    BY <2>1, <2>2, ApplyPrompt, ApplyItself, ConcatDirect, ConcatHas
  <2>4. old # <<>> /\ Head(old) = "selectExpired"
    BY <1>8 DEF At, old
  <2>5. t \in Seq(Step) /\ Prompt(t) /\ ~Has(t, "readSettings") /\ (Has(t, "nextGrant") => temp)
    BY <1>0, <1>1, <2>4, TailPrompt DEF t
  <2> HIDE DEF x
  <2>6. /\ Prompt(x \o t) /\ (Has(x \o t, "nextGrant") => temp)
        /\ Direct(x \o t, Between) /\ Direct(x \o t, BetweenGrants)
    BY <2>3, <2>5, ConcatPrompt, ConcatDirect, ConcatHas
  <2> QED BY <2>6, <1>n, <1>8 DEF x, e, old, temp
<1>9. CASE At(p, "nextExpired") /\ prog' = [prog EXCEPT ![p] = ExpiredSteps \o old]
  <2>0. ExpiredSteps \in Seq(Step)
    BY DEF ExpiredSteps, Step, DbSteps, CmdSteps
  <2>1. /\ Prompt(ExpiredSteps) /\ ~Has(ExpiredSteps, "nextGrant")
        /\ \A i \in 1 .. Len(ExpiredSteps) :
             /\ ExpiredSteps[i] \in Between /\ ExpiredSteps[i] \in BetweenGrants
             /\ ExpiredSteps[i] \notin {"selectExpired", "nextGrant"}
    BY DEF ExpiredSteps, Between, BetweenGrants, Prompt, Makes, Changing, Has
  <2>2. Direct(old, Between) /\ Direct(old, BetweenGrants)
    <3>1. old # <<>> /\ Head(old) = "nextExpired"
      BY <1>9 DEF At, old
    <3>2. Direct(t, Between)
      BY <1>0, <3>1, TailPrompt DEF Makes, Changing, t
    <3>3. Direct(old, Between)
      BY <1>0, <3>1, <3>2, TailPrompt DEF Between, t
    <3> QED BY <3>3, WiderDirect
  <2>3. /\ Prompt(ExpiredSteps \o old) /\ (Has(ExpiredSteps \o old, "nextGrant") => temp)
        /\ Direct(ExpiredSteps \o old, Between) /\ Direct(ExpiredSteps \o old, BetweenGrants)
    BY <2>0, <2>1, <2>2, <1>0, ConcatPrompt, ConcatDirect, ConcatHas
  <2> QED BY <2>3, <1>n, <1>9 DEF old, temp
<1>10. CASE prog' = [prog EXCEPT ![p] = old]
  BY <1>0, <1>n, <1>10 DEF old, temp
<1>11. CASE At(p, "nextGrant") /\ prog' = [prog EXCEPT ![p] = SetPermissionSteps \o old]
  <2> DEFINE x == SetPermissionSteps
  <2>1. old # <<>> /\ Head(old) = "nextGrant"
    BY <1>11 DEF At, old
  <2>2. temp /\ ~Has(old, "readSettings")
    <3>1. Has(old, "nextGrant")
      BY <1>0, <2>1, TailIndex DEF Has
    <3>2. ~Has(t, "readSettings")
      BY <1>0, <2>1, TailPrompt DEF t
    <3> QED BY <3>1, <3>2, <1>0, <2>1, TailHas DEF t
  <2>3. x \in Seq(Step) /\ Prompt(x) /\ Direct(x, BetweenGrants)
    BY HandlerPrompt
  <2> HIDE DEF x
  <2>4. Prompt(x \o old) /\ Direct(x \o old, BetweenGrants)
    BY <1>0, <2>2, <2>3, ConcatPrompt, ConcatDirect
  <2> QED BY <2>2, <2>4, <1>n, <1>11 DEF x, old, temp
<1> QED BY <1>4, <1>5, <1>6, <1>7, <1>8, <1>9, <1>10, <1>11 DEF Advances, t, old, temp


\* A handler notes a change only with a step that makes one, and it keeps its
\* lease to the end.
Notes(p) ==
  /\ job'[p].changed =>
       \/ job[p].changed
       \/ /\ prog[p] # <<>> /\ Head(prog[p]) \in Makes
          /\ \/ prog'[p] = Tail(prog[p])
             \/ Head(prog[p]) = "bulkPair" /\ prog'[p] = prog[p]
  /\ prog'[p] = <<>> \/ (job'[p].temp <=> job[p].temp)

LEMMA GotoNotes ==
  ASSUME ProcInv, NEW p \in Proc, NEW s, NEW j, Goto(p, s, j), j.changed => job[p].changed,
         j.temp <=> job[p].temp
  PROVE  Notes(p)
<1>1. prog'[p] = s /\ job'[p] = IF s = <<>> THEN NoJob ELSE j
  BY DEF Goto, ProcInv
<1>2. ~NoJob.changed
  BY DEF NoJob
<1> QED BY <1>1, <1>2 DEF Notes

LEMMA StepNotes ==
  ASSUME ProcInv, NEW p \in Proc, NEW s \in Makes, At(p, s),
         NEW j, Continue(p, j), j.temp <=> job[p].temp
  PROVE  Notes(p)
<1>1. prog'[p] = Tail(prog[p]) /\ job'[p] = IF Tail(prog[p]) = <<>> THEN NoJob ELSE j
  BY DEF Continue, Goto, ProcInv
<1> QED BY <1>1 DEF Notes, At

LEMMA BulkNotes ==
  ASSUME ProcInv, NEW p \in Proc, BulkPair(p)
  PROVE  Notes(p)
<1>0. job[p] \in Job
  BY DEF ProcInv, SafeJob
<1> DEFINE j(t, c) == [job[p] EXCEPT !.todo = @ \ {t}, !.uid = t[1], !.changed = c]
<1>1. \A t, c : j(t, c).temp <=> job[p].temp
  BY <1>0 DEF Job
<1>2. Done(p) \/ Abort(p) \/ \E t, c : Goto(p, prog[p], j(t, c))
  BY DEF BulkPair
<1> HIDE DEF j
<1>3. CASE Done(p) \/ Abort(p)
  BY <1>3, GotoNotes DEF Done, Continue, Abort
<1>4. CASE \E t, c : Goto(p, prog[p], j(t, c))
  <2>1. PICK t, c : Goto(p, prog[p], j(t, c))
    BY <1>4
  <2>2. prog[p] # <<>> /\ Head(prog[p]) = "bulkPair"
    BY DEF BulkPair, At
  <2>3. prog'[p] = prog[p] /\ job'[p] = j(t, c)
    BY <2>1, <2>2 DEF Goto, ProcInv
  <2> QED BY <1>1, <2>2, <2>3 DEF Notes, Makes, Changing
<1> QED BY <1>2, <1>3, <1>4

LEMMA RunNotes ==
  ASSUME ProcInv, NEW p \in Proc, Run(p)
  PROVE  Notes(p)
<1>0. job[p] \in Job
  BY DEF ProcInv, SafeJob
<1>a. Done(p) \/ Abort(p) \/ ApplyFailed(p) => Notes(p)
  BY GotoNotes DEF Done, Continue, Abort, ApplyFailed
<1>1. CASE Fail(p) \/ ReloadSmbd(p) \/ RestartSmbd(p) \/ EnsureShares(p) \/ WriteConf(p)
           \/ ReadTables(p)
  BY <1>a, <1>1 DEF Fail, ReloadSmbd, RestartSmbd, EnsureShares, WriteConf, ReadTables
<1>2. CASE \/ Unlock(p) \/ GetVolume(p) \/ Walk(p) \/ AddToGroup(p) \/ PermUser(p)
           \/ PermVolume(p) \/ BulkCheck(p) \/ SetPassword(p) \/ SetFlag(p)
           \/ PdbDelete(p) \/ UserDel(p)
  BY <1>a, <1>2 DEF Unlock, GetVolume, Walk, AddToGroup, PermUser, PermVolume, BulkCheck,
     SetPassword, SetFlag, PdbDelete, UserDel
<1>3. CASE \/ InsertVolumeStep(p) \/ UpdateVolumeStep(p) \/ DeleteVolumeStep(p)
           \/ SetEnabledStep(p) \/ DeleteUserStep(p) \/ SetSettings(p) \/ PermRow(p)
  <2>1. CASE Abort(p)
    BY <1>a, <2>1
  <2>2. CASE ~Abort(p)
    <3>1. \E s \in Makes : At(p, s)
      BY <1>3 DEF InsertVolumeStep, UpdateVolumeStep, DeleteVolumeStep, SetEnabledStep,
         DeleteUserStep, SetSettings, PermRow, Makes, Changing
    <3>2. Continue(p, [job[p] EXCEPT !.changed = TRUE])
      BY <1>3, <2>2 DEF InsertVolumeStep, UpdateVolumeStep, DeleteVolumeStep,
         SetEnabledStep, DeleteUserStep, SetSettings, PermRow, Changed
    <3>3. [job[p] EXCEPT !.changed = TRUE].temp <=> job[p].temp
      BY <1>0 DEF Job
    <3> QED BY <3>1, <3>2, <3>3, StepNotes
  <2> QED BY <2>1, <2>2
<1>4. CASE GetUser(p)
  <2>1. \A n, c : /\ [job[p] EXCEPT !.name = n, !.created = c].changed = job[p].changed
                  /\ [job[p] EXCEPT !.name = n, !.created = c].temp <=> job[p].temp
    BY <1>0 DEF Job
  <2> QED BY <1>a, <1>4, <2>1, GotoNotes DEF GetUser, Continue
<1>5. CASE Lookup(p)
  BY <1>a, <1>5, GotoNotes DEF Lookup
<1>6. CASE UserAdd(p)
  <2>1. /\ [job[p] EXCEPT !.created = TRUE].changed = job[p].changed
        /\ [job[p] EXCEPT !.created = TRUE].temp <=> job[p].temp
    BY <1>0 DEF Job
  <2> QED BY <1>a, <1>6, <2>1, GotoNotes DEF UserAdd, Continue
<1>7. CASE SelectExpired(p)
  <2>1. /\ [job[p] EXCEPT !.rows = ExpiredTemporary].changed = job[p].changed
        /\ [job[p] EXCEPT !.rows = ExpiredTemporary].temp <=> job[p].temp
    BY <1>0 DEF Job
  <2> QED BY <1>7, <2>1, GotoNotes DEF SelectExpired
<1>8. CASE NextExpired(p)
  <2> DEFINE j(u) == [job[p] EXCEPT !.rows = @ \ {u}, !.uid = u.id, !.name = u.name,
                                    !.created = u.created]
  <2>1. \A u : j(u).changed = job[p].changed /\ (j(u).temp <=> job[p].temp)
    BY <1>0 DEF Job
  <2>2. Done(p) \/ \E u \in job[p].rows : Goto(p, ExpiredSteps \o prog[p], j(u))
    BY <1>8 DEF NextExpired
  <2> HIDE DEF j
  <2> QED BY <1>a, <2>1, <2>2, GotoNotes
<1>9. CASE NextGrant(p)
  <2> DEFINE j(t) == [job[p] EXCEPT !.todo = @ \ {t}, !.vid = t[2]]
  <2>1. \A t : j(t).changed = job[p].changed /\ (j(t).temp <=> job[p].temp)
    BY <1>0 DEF Job
  <2>2. Done(p) \/ \E t \in job[p].todo : Goto(p, SetPermissionSteps \o prog[p], j(t))
    BY <1>9 DEF NextGrant
  <2> HIDE DEF j
  <2> QED BY <1>a, <2>1, <2>2, GotoNotes
<1>10. CASE InsertUserStep(p)
  <2>1. [job[p] EXCEPT !.uid = nextUser, !.changed = TRUE].temp <=> job[p].temp
    BY <1>0 DEF Job
  <2>2. CASE Abort(p)
    BY <1>a, <2>2
  <2>3. CASE ~Abort(p)
    <3>1. At(p, "insertUser") /\ Continue(p, [job[p] EXCEPT !.uid = nextUser, !.changed = TRUE])
      BY <1>10, <2>3 DEF InsertUserStep
    <3>2. "insertUser" \in Makes
      BY DEF Makes
    <3> QED BY <2>1, <3>1, <3>2, StepNotes
  <2> QED BY <2>2, <2>3
<1> QED BY <1>1, <1>2, <1>3, <1>4, <1>5, <1>6, <1>7, <1>8, <1>9, <1>10, BulkNotes DEF Run

\* One handler goes on; the others are left as they are.
LEMMA OnePrompt ==
  ASSUME ProcInv, PromptInv, NEW p \in Proc, Prompt(prog'[p]),
         Has(prog'[p], "nextGrant") => job'[p].temp,
         job'[p].changed => Direct(prog'[p], BetweenGrants),
         job'[p].changed /\ ~job'[p].temp => Direct(prog'[p], Between),
         \A q \in Proc \ {p} : prog'[q] = prog[q] /\ job'[q] = job[q]
  PROVE  PromptInv'
BY DEF PromptInv

LEMMA AdvancesKeepsPrompt ==
  ASSUME ProcInv, PromptInv, NEW p \in Proc, Advances(p), Notes(p),
         \E s, j : Goto(p, s, j)
  PROVE  PromptInv'
<1>1. /\ Prompt(prog[p]) /\ prog[p] \in Seq(Step)
      /\ Has(prog[p], "nextGrant") => job[p].temp
  BY DEF PromptInv, ProcInv
<1>2. /\ Prompt(prog'[p])
      /\ Has(prog'[p], "nextGrant") => job[p].temp
      /\ Direct(prog[p], BetweenGrants) => Direct(prog'[p], BetweenGrants)
      /\ Direct(prog[p], Between) /\ ~job[p].temp => Direct(prog'[p], Between)
  BY <1>1, AdvancesPrompt
<1>3. \A q \in Proc \ {p} : prog'[q] = prog[q] /\ job'[q] = job[q]
  BY DEF Goto, ProcInv
<1>4. CASE prog'[p] = <<>>
  <2>1. ~Has(<<>>, "nextGrant")
    BY DEF Has
  <2>2. Direct(<<>>, BetweenGrants) /\ Direct(<<>>, Between)
    BY DEF Direct
  <2> QED BY <1>2, <1>3, <1>4, <2>1, <2>2, OnePrompt
<1>5. CASE prog'[p] # <<>>
  <2>1. job'[p].temp <=> job[p].temp
    BY <1>5 DEF Notes
  <2>2. CASE job[p].changed
    BY <1>2, <1>3, <2>1, <2>2, OnePrompt DEF PromptInv
  <2>3. CASE ~job[p].changed /\ job'[p].changed
    <3>1. prog[p] # <<>> /\ Head(prog[p]) \in Makes /\ Direct(Tail(prog[p]), Between)
      BY <1>1, <2>3, TailPrompt DEF Notes
    <3>2. Direct(prog'[p], Between)
      <4>1. Head(prog[p]) = "bulkPair" => Direct(prog[p], Between)
        BY <1>1, <3>1, TailPrompt DEF Between
      <4> QED BY <2>3, <3>1, <4>1 DEF Notes
    <3> QED BY <1>2, <1>3, <2>1, <3>2, WiderDirect, OnePrompt
  <2>4. CASE ~job'[p].changed
    BY <1>2, <1>3, <2>1, <2>4, OnePrompt
  <2> QED BY <2>2, <2>3, <2>4
<1> QED BY <1>4, <1>5

LEMMA NextPrompt ==
  ASSUME ProcInv, PromptInv, [Next]_vars
  PROVE  PromptInv'
<1>1. ASSUME NEW p \in Proc, NEW s, NEW j, Goto(p, s, j), Prompt(s), ~j.changed,
             Has(s, "nextGrant") => j.temp
      PROVE  PromptInv'
  <2>1. prog'[p] = s /\ job'[p] = IF s = <<>> THEN NoJob ELSE j
    BY <1>1 DEF Goto, ProcInv
  <2>2. ~job'[p].changed
    BY <2>1, <1>1 DEF NoJob
  <2>3. Has(s, "nextGrant") => job'[p].temp
    BY <1>1, <2>1 DEF Has
  <2>4. \A q \in Proc \ {p} : prog'[q] = prog[q] /\ job'[q] = job[q]
    BY <1>1 DEF Goto, ProcInv
  <2> QED BY <1>1, <2>1, <2>2, <2>3, <2>4, OnePrompt
<1>2. ASSUME NEW p \in Worker, Request(p) PROVE PromptInv'
  <2>0. p \in Proc
    BY DEF Proc
  <2>1. CASE CreateTemporaryUser(p)
    <3>0. PICK g \in BOOLEAN : \E j :
            /\ Begin(p, "createTemporary", CreateTemporaryUserSteps(g), j)
            /\ j.temp /\ ~j.changed
      BY <2>1, TemporaryRequest
    <3>1. PICK j : /\ Begin(p, "createTemporary", CreateTemporaryUserSteps(g), j)
                   /\ j.temp /\ ~j.changed
      BY <3>0
    <3>2. Prompt(CreateTemporaryUserSteps(g)) /\ Goto(p, CreateTemporaryUserSteps(g), j)
      BY <3>1, HandlerPrompt DEF Begin, Handler
    <3> QED BY <1>1, <2>0, <3>1, <3>2
  <2>2. CASE ~CreateTemporaryUser(p)
    <3>1. PICK op, s, j : /\ Handler(op, s) /\ Begin(p, op, s, j)
                          /\ op # "createTemporary" /\ Begun(j)
      BY <1>2, <2>2, PlainRequest
    <3>2. Prompt(s) /\ ~Has(s, "nextGrant") /\ Goto(p, s, j) /\ ~j.changed
      BY <3>1, HandlerPrompt, Grantless DEF Begin, Begun
    <3> QED BY <1>1, <2>0, <3>2
  <2> QED BY <2>1, <2>2
<1>3. ASSUME NEW p \in Janitor, Tick(p) PROVE PromptInv'
  <2>1. p \in Proc /\ Goto(p, CleanupSteps, NoJob) /\ ~NoJob.changed
    BY <1>3 DEF Tick, Proc, NoJob
  <2> QED BY <1>1, <2>1, HandlerPrompt, Grantless
<1>4. ASSUME NEW p \in Proc, Lock(p) \/ Unlock(p) PROVE PromptInv'
  <2>1. Done(p) /\ prog[p] # <<>> /\ Goto(p, Tail(prog[p]), job[p])
    BY <1>4 DEF Lock, Unlock, Done, Continue, At
  <2>2. Notes(p) /\ Advances(p)
    BY <2>1, GotoNotes, GotoTemp DEF Advances
  <2> QED BY <2>1, <2>2, AdvancesKeepsPrompt
<1>5. ASSUME NEW p \in Proc, Run(p), ~Unlock(p) PROVE PromptInv'
  <2>1. Advances(p)
    BY <1>5, RunControl, FailControl DEF Ordinary, Applying
  <2> QED BY <1>5, <2>1, RunNotes, RunGoes, AdvancesKeepsPrompt
<1>6. CASE LeaseExpires \/ UNCHANGED vars
  BY <1>6 DEF LeaseExpires, vars, PromptInv
<1>7. CASE Crash
  <2>1. \A p \in Proc : /\ prog'[p] \in {RepairAllSteps, <<>>}
                        /\ ~job'[p].changed
    BY <1>7 DEF Crash, AtStart, NoJob
  <2>2. ~Has(<<>>, "nextGrant")
    BY DEF Has
  <2> QED BY <2>1, <2>2, HandlerPrompt, Grantless DEF PromptInv
<1> QED BY <1>2, <1>3, <1>4, <1>5, <1>6, <1>7 DEF Next

\* Which action takes the steps between a change and its apply.
LEMMA HeadRuns ==
  ASSUME NEW p, Run(p)
  PROVE  /\ Head(prog[p]) # "lock"
         /\ Head(prog[p]) \in {"nextExpired", "pdbDelete", "deleteUser", "userdel", "reread"}
              => Fail(p) \/ NextExpired(p) \/ PdbDelete(p) \/ DeleteUserStep(p)
                 \/ UserDel(p) \/ Walk(p)
         /\ Head(prog[p]) = "flag" => Fail(p) \/ SetFlag(p)
         /\ Head(prog[p]) = "bulkPair" => Fail(p) \/ BulkPair(p)
<1> DEFINE h == Head(prog[p])
           S == Between \cup {"lock"}
<1>1. /\ Unlock(p) \/ GetVolume(p) \/ GetUser(p) \/ Lookup(p) \/ UserAdd(p) => h \notin S
      /\ AddToGroup(p) \/ SetPassword(p) \/ SelectExpired(p) => h \notin S
  BY DEF Unlock, GetVolume, GetUser, Lookup, UserAdd, AddToGroup, SetPassword, SelectExpired,
     At, Between
<1>2. PermUser(p) \/ PermVolume(p) \/ PermRow(p) \/ BulkCheck(p) \/ NextGrant(p) => h \notin S
  BY DEF PermUser, PermVolume, PermRow, BulkCheck, NextGrant, At, Between
<1>3. /\ InsertVolumeStep(p) \/ UpdateVolumeStep(p) \/ DeleteVolumeStep(p) => h \notin S
      /\ InsertUserStep(p) \/ SetEnabledStep(p) \/ SetSettings(p) => h \notin S
  BY DEF InsertVolumeStep, UpdateVolumeStep, DeleteVolumeStep, InsertUserStep,
     SetEnabledStep, SetSettings, At, Between
<1>4. ReadTables(p) \/ EnsureShares(p) \/ WriteConf(p) \/ ReloadSmbd(p) \/ RestartSmbd(p)
        => h \notin S
  BY DEF ReadTables, EnsureShares, WriteConf, ReloadSmbd, RestartSmbd, At, Between
<1>5. NextExpired(p) \/ PdbDelete(p) \/ DeleteUserStep(p) \/ UserDel(p) \/ Walk(p)
        => h \notin {"lock", "flag", "bulkPair"}
  BY DEF NextExpired, PdbDelete, DeleteUserStep, UserDel, Walk, At
<1>6. /\ SetFlag(p) => h = "flag"
      /\ BulkPair(p) => h = "bulkPair"
      /\ Fail(p) => h # "lock"
  BY DEF SetFlag, BulkPair, Fail, At, DbSteps, CmdSteps
<1> HIDE DEF h
<1> QED BY <1>1, <1>2, <1>3, <1>4, <1>5, <1>6 DEF Run, Between, h

\* A step between a change and its apply leaves the apply ahead, unless it is one
\* of those at which the code gives up.
LEMMA StepKeeps ==
  ASSUME ProcInv, NEW p \in Proc, prog[p] # <<>>, Run(p),
         Has(prog[p], "readSettings"), Head(prog[p]) # "readSettings",
         Head(prog[p]) \in BetweenGrants,
         job[p].temp \/ Head(prog[p]) \in Between
  PROVE  Has(prog'[p], "readSettings") \/ Leaves(p)
<1>1. /\ prog[p] \in Seq(Step) /\ Tail(prog[p]) \in Seq(Step)
      /\ Has(Tail(prog[p]), "readSettings")
  BY TailHas, TailIndex DEF ProcInv
<1>2. CASE Done(p) \/ Changed(p)
  <2>1. prog'[p] = Tail(prog[p])
    BY <1>2 DEF Done, Changed, Continue, Goto, ProcInv
  <2> QED BY <1>1, <2>1
<1>3. CASE Head(prog[p]) \in {"permUser", "permVolume", "permRow"}
  BY <1>3 DEF Leaves, At, Between
<1>4. CASE Fail(p) /\ Head(prog[p]) \in Between
  <2>1. \/ "db" \in Faults /\ Head(prog[p]) \in {"reread", "deleteUser", "bulkPair"}
        \/ "cmd" \in Faults /\ Head(prog[p]) = "flag"
    BY <1>4 DEF Fail, At, Between, DbSteps, CmdSteps
  <2> QED BY <2>1 DEF Leaves, At
<1>5. CASE Head(prog[p]) \in {"nextExpired", "pdbDelete", "deleteUser", "userdel", "reread"}
           /\ ~Fail(p)
  <2>1. \/ NextExpired(p) \/ PdbDelete(p) \/ DeleteUserStep(p) \/ UserDel(p) \/ Walk(p)
    BY <1>5, HeadRuns
  <2>2. CASE NextExpired(p) /\ ~Done(p)
    <3>1. prog'[p] = ExpiredSteps \o prog[p]
      BY <2>2 DEF NextExpired, Goto, ProcInv
    <3>2. ExpiredSteps \in Seq(Step)
      BY DEF ExpiredSteps, Step, DbSteps, CmdSteps
    <3> QED BY <1>1, <3>1, <3>2, ConcatHas
  <2> QED BY <1>2, <2>1, <2>2 DEF NextExpired, PdbDelete, DeleteUserStep, UserDel, Walk
<1>6. CASE Head(prog[p]) = "flag" /\ ~Fail(p)
  <2>1. SetFlag(p)
    BY <1>6, HeadRuns
  <2> QED BY <1>2, <2>1 DEF SetFlag, Leaves
<1>7. CASE Head(prog[p]) = "bulkPair" /\ ~Fail(p)
  <2>1. BulkPair(p)
    BY <1>7, HeadRuns
  <2>2. CASE \E j : Goto(p, prog[p], j)
    BY <2>2 DEF Goto, ProcInv
  <2> QED BY <1>2, <2>1, <2>2 DEF BulkPair, Leaves
<1>8. Head(prog[p]) # "lock"
  BY HeadRuns
<1> QED BY <1>3, <1>4, <1>5, <1>6, <1>7, <1>8 DEF Between, BetweenGrants

LEMMA StepKeepsToApply ==
  ASSUME ProcInv, PromptInv, Next
  PROVE  KeepsToApply
<1> SUFFICES ASSUME NEW p \in Proc, job[p].changed, Has(prog[p], "readSettings"),
                    ~At(p, "readSettings")
             PROVE  Has(prog'[p], "readSettings") \/ Leaves(p)
  BY DEF KeepsToApply, Will, Has
<1>1. prog[p] \in Seq(Step) /\ prog[p] # <<>> /\ Head(prog[p]) # "readSettings"
  BY DEF ProcInv, Has, At
<1>2. Head(prog[p]) \in BetweenGrants /\ (job[p].temp \/ Head(prog[p]) \in Between)
  BY <1>1, TailPrompt DEF PromptInv
<1>3. ASSUME NEW q \in Proc, q # p, NEW s, NEW j, Goto(q, s, j)
      PROVE  prog'[p] = prog[p]
  BY <1>3 DEF Goto, ProcInv
<1>4. ASSUME NEW q \in Proc, Run(q) PROVE Has(prog'[p], "readSettings") \/ Leaves(p)
  BY <1>1, <1>2, <1>3, <1>4, RunGoes, StepKeeps
<1>5. ASSUME NEW q \in Worker, Request(q) PROVE Has(prog'[p], "readSettings")
  <2>1. PICK op, s, j : /\ Handler(op, s) /\ Begin(q, op, s, j)
                        /\ op # "createTemporary" => Begun(j)
    BY <1>5, RequestHandles
  <2>2. q \in Proc /\ q # p /\ Goto(q, s, j)
    BY <2>1, <1>1 DEF Begin, Proc
  <2> QED BY <2>2, <1>3
<1>6. ASSUME NEW q \in Janitor, Tick(q) PROVE Has(prog'[p], "readSettings")
  <2>1. q \in Proc /\ q # p /\ Goto(q, CleanupSteps, NoJob)
    BY <1>1, <1>6 DEF Tick, Proc
  <2> QED BY <2>1, <1>3
<1>7. ASSUME NEW q \in Proc, Lock(q) PROVE Has(prog'[p], "readSettings")
  <2>1. Goto(q, Tail(prog[q]), job[q]) /\ Head(prog[q]) = "lock"
    BY <1>7 DEF Lock, Done, Continue, At
  <2>2. CASE q # p
    BY <2>1, <2>2, <1>3
  <2>3. CASE q = p
    <3>1. prog'[p] = Tail(prog[p])
      BY <2>1, <2>3 DEF Goto, ProcInv
    <3> QED BY <1>1, <3>1, TailHas
  <2> QED BY <2>2, <2>3
<1>8. CASE LeaseExpires
  BY <1>8 DEF LeaseExpires
<1>9. CASE Crash
  BY <1>9 DEF Leaves
<1> QED BY <1>4, <1>5, <1>6, <1>7, <1>8, <1>9 DEF Next

\* Every handler that has changed a row goes on to the apply that hands the change
\* to smbd, whatever fails and whoever runs beside it, the cleanup included, and
\* the places where it does not are those that Leaves names: no operation and no
\* kind of failure is left out.  For any number of processes.
THEOREM ServiceGetsToApply == Spec => RegeneratesOnChange
<1>1. Init => PromptInv
  <2>1. ~Has(<<>>, "nextGrant")
    BY DEF Has
  <2> QED BY <2>1, HandlerPrompt, Grantless DEF Init, AtStart, PromptInv, NoJob
<1>2. IInv /\ PromptInv /\ [Next]_vars => PromptInv'
  BY NextPrompt DEF IInv
<1>3. ASSUME IInv, PromptInv, [Next]_vars PROVE [KeepsToApply]_vars
  BY <1>3, StepKeepsToApply DEF IInv
<1> QED BY <1>1, <1>2, <1>3, ServiceInvariant, PTL DEF Spec, RegeneratesOnChange
=============================================================================
