---------------------------- MODULE SmbServiceProofs ----------------------------
(***************************************************************************)
(* Types, the integrity of the tables, and the safety of the accounts the  *)
(* machine had before the controller: for any number of requests, names    *)
(* and volumes, whatever fails and however the handlers interleave.  Every *)
(* statement of Store keeps what the schema promises, and the              *)
(* configuration rendered from the tables is exact.                        *)
(***************************************************************************)
EXTENDS SmbService, SequenceTheorems, TLAPS

-----------------------------------------------------------------------------
(* The tables *)

StoreInv == StoreTypeOK /\ KeysUnique /\ ReferentialIntegrity

LEMMA InsertUserKeeps ==
  ASSUME StoreInv, NEW n \in Name, NEW l \in Lease, NEW c \in BOOLEAN,
         InsertUser(n, l, c)
  PROVE  StoreInv'
<1> DEFINE row == [id |-> nextUser, name |-> n, enabled |-> TRUE,
                   lease |-> l, created |-> c]
<1>1. /\ nextUser \in UserId /\ \A u \in users : u.name # n
      /\ users' = users \cup {row} /\ nextUser' = nextUser + 1
      /\ UNCHANGED <<volumes, perms, settings, nextVolume>>
  BY DEF InsertUser, CanInsertUser
<1>2. row \in UserRow
  BY <1>1 DEF UserRow
<1>3. row.id = nextUser /\ row.name = n
  OBVIOUS
<1> HIDE DEF row
<1>4. StoreTypeOK'
  <2>1. users' \subseteq UserRow
    BY <1>1, <1>2 DEF StoreInv, StoreTypeOK
  <2>2. nextUser' \in 1 .. MaxUsers + 1
    BY <1>1, BoundsAssumption DEF UserId
  <2> QED BY <1>1, <2>1, <2>2 DEF StoreInv, StoreTypeOK
<1>5. \A u \in users : u.id < nextUser /\ u.id \in Nat
  BY DEF StoreInv, StoreTypeOK, KeysUnique, UserRow, UserId
<1>6. KeysUnique'
  <2>1. nextUser \in Nat
    BY <1>1 DEF UserId
  <2>2. \A u \in users' : u.id < nextUser'
    BY <1>1, <1>5, <1>3, <2>1
  <2>3. \A u, w \in users' : u.id = w.id \/ u.name = w.name => u = w
    BY <1>1, <1>5, <1>3, <2>1 DEF StoreInv, KeysUnique
  <2> QED BY <1>1, <2>2, <2>3 DEF StoreInv, KeysUnique
<1>7. ReferentialIntegrity'
  BY <1>1 DEF StoreInv, ReferentialIntegrity, HasUser, HasVolume
<1> QED BY <1>4, <1>6, <1>7 DEF StoreInv

LEMMA SetEnabledKeeps ==
  ASSUME StoreInv, NEW id, NEW on \in BOOLEAN, SetEnabled(id, on)
  PROVE  StoreInv'
<1> DEFINE new(u) == IF u.id = id THEN [u EXCEPT !.enabled = on] ELSE u
<1>1. users' = {new(u) : u \in users} /\ UNCHANGED <<volumes, perms, settings, nextUser, nextVolume>>
  BY DEF SetEnabled
<1>2. \A u \in users : new(u) \in UserRow /\ new(u).id = u.id /\ new(u).name = u.name
  BY DEF StoreInv, StoreTypeOK, UserRow
<1> HIDE DEF new
<1>3. StoreTypeOK'
  BY <1>1, <1>2 DEF StoreInv, StoreTypeOK
<1>4. KeysUnique'
  BY <1>1, <1>2 DEF StoreInv, KeysUnique
<1>5. ReferentialIntegrity'
  BY <1>1, <1>2 DEF StoreInv, ReferentialIntegrity, HasUser, HasVolume
<1> QED BY <1>3, <1>4, <1>5 DEF StoreInv

LEMMA DeleteUserRowKeeps ==
  ASSUME StoreInv, NEW id, DeleteUserRow(id)
  PROVE  StoreInv'
<1>1. StoreTypeOK' /\ KeysUnique'
  BY DEF StoreInv, StoreTypeOK, KeysUnique, DeleteUserRow
<1>2. ReferentialIntegrity'
  BY DEF StoreInv, ReferentialIntegrity, HasUser, HasVolume, DeleteUserRow
<1> QED BY <1>1, <1>2 DEF StoreInv

LEMMA InsertVolumeKeeps ==
  ASSUME StoreInv, NEW g \in BOOLEAN, InsertVolume(g)
  PROVE  StoreInv'
<1> DEFINE row == [id |-> nextVolume, guest |-> g, enabled |-> TRUE]
<1>1. /\ nextVolume \in VolumeId
      /\ volumes' = volumes \cup {row} /\ nextVolume' = nextVolume + 1
      /\ UNCHANGED <<users, perms, settings, nextUser>>
  BY DEF InsertVolume, CanInsertVolume
<1>2. row \in VolumeRow
  BY <1>1 DEF VolumeRow
<1>3. row.id = nextVolume
  OBVIOUS
<1> HIDE DEF row
<1>4. StoreTypeOK'
  <2>1. volumes' \subseteq VolumeRow
    BY <1>1, <1>2 DEF StoreInv, StoreTypeOK
  <2>2. nextVolume' \in 1 .. MaxVolumes + 1
    BY <1>1, BoundsAssumption DEF VolumeId
  <2> QED BY <1>1, <2>1, <2>2 DEF StoreInv, StoreTypeOK
<1>5. \A v \in volumes : v.id < nextVolume /\ v.id \in Nat
  BY DEF StoreInv, StoreTypeOK, KeysUnique, VolumeRow, VolumeId
<1>6. KeysUnique'
  <2>1. nextVolume \in Nat
    BY <1>1 DEF VolumeId
  <2>2. \A v \in volumes' : v.id < nextVolume'
    BY <1>1, <1>5, <1>3, <2>1
  <2>3. \A v, w \in volumes' : v.id = w.id => v = w
    BY <1>1, <1>5, <1>3, <2>1 DEF StoreInv, KeysUnique
  <2> QED BY <1>1, <2>2, <2>3 DEF StoreInv, KeysUnique
<1>7. ReferentialIntegrity'
  BY <1>1 DEF StoreInv, ReferentialIntegrity, HasUser, HasVolume
<1> QED BY <1>4, <1>6, <1>7 DEF StoreInv

LEMMA UpdateVolumeRowKeeps ==
  ASSUME StoreInv, NEW id, NEW g \in BOOLEAN, NEW on \in BOOLEAN,
         UpdateVolumeRow(id, g, on)
  PROVE  StoreInv'
<1> DEFINE new(v) == IF v.id = id THEN [id |-> id, guest |-> g, enabled |-> on] ELSE v
<1>1. volumes' = {new(v) : v \in volumes} /\ UNCHANGED <<users, perms, settings, nextUser, nextVolume>>
  BY DEF UpdateVolumeRow
<1>2. \A v \in volumes : new(v) \in VolumeRow /\ new(v).id = v.id
  BY DEF StoreInv, StoreTypeOK, VolumeRow
<1> HIDE DEF new
<1>3. StoreTypeOK'
  BY <1>1, <1>2 DEF StoreInv, StoreTypeOK
<1>4. KeysUnique'
  BY <1>1, <1>2 DEF StoreInv, KeysUnique
<1>5. ReferentialIntegrity'
  BY <1>1, <1>2 DEF StoreInv, ReferentialIntegrity, HasUser, HasVolume
<1> QED BY <1>3, <1>4, <1>5 DEF StoreInv

LEMMA DeleteVolumeRowKeeps ==
  ASSUME StoreInv, NEW id, DeleteVolumeRow(id)
  PROVE  StoreInv'
<1>1. StoreTypeOK' /\ KeysUnique'
  BY DEF StoreInv, StoreTypeOK, KeysUnique, DeleteVolumeRow
<1>2. ReferentialIntegrity'
  BY DEF StoreInv, ReferentialIntegrity, HasUser, HasVolume, DeleteVolumeRow
<1> QED BY <1>1, <1>2 DEF StoreInv

\* The foreign keys are what keeps a grant that was checked too early out.
LEMMA UpsertKeeps ==
  ASSUME StoreInv, NEW u, NEW v, NEW a \in Access, Upsert(u, v, a)
  PROVE  StoreInv'
<1> DEFINE row == [user |-> u, volume |-> v, access |-> a]
<1>1. /\ HasUser(u) /\ HasVolume(v)
      /\ perms' = {p \in perms : ~(p.user = u /\ p.volume = v)} \cup {row}
      /\ UNCHANGED <<users, volumes, settings, nextUser, nextVolume>>
  BY DEF Upsert, CanUpsert
<1>2. u \in UserId /\ v \in VolumeId
  BY <1>1 DEF HasUser, HasVolume, StoreInv, StoreTypeOK, UserRow, VolumeRow
<1>3. row \in PermissionRow /\ row.user = u /\ row.volume = v
  BY <1>2 DEF PermissionRow
<1> HIDE DEF row
<1>4. StoreTypeOK' /\ KeysUnique'
  BY <1>1, <1>3 DEF StoreInv, StoreTypeOK, KeysUnique
<1>5. ReferentialIntegrity'
  BY <1>1, <1>3 DEF StoreInv, ReferentialIntegrity, HasUser, HasVolume
<1> QED BY <1>4, <1>5 DEF StoreInv

LEMMA DeletePermKeeps ==
  ASSUME StoreInv, NEW u, NEW v, DeletePerm(u, v)
  PROVE  StoreInv'
BY DEF StoreInv, StoreTypeOK, KeysUnique, ReferentialIntegrity, HasUser, HasVolume, DeletePerm

LEMMA UpdateSettingsRowsKeeps ==
  ASSUME StoreInv, NEW s \in Setting, UpdateSettingsRows(s)
  PROVE  StoreInv'
BY DEF StoreInv, StoreTypeOK, KeysUnique, ReferentialIntegrity, HasUser, HasVolume,
   UpdateSettingsRows

LEMMA UnchangedKeeps ==
  ASSUME StoreInv, UNCHANGED tableVars
  PROVE  StoreInv'
BY DEF StoreInv, StoreTypeOK, KeysUnique, ReferentialIntegrity, HasUser, HasVolume, tableVars

-----------------------------------------------------------------------------
LEMMA RenderTyped ==
  ASSUME NEW s \in Setting, NEW vs \in SUBSET VolumeRow, NEW gs \in SUBSET Grant
  PROVE  RenderConfig(s, vs, gs) \in Config
<1>1. \A v \in vs : Section(v, gs) \in ShareSection
  BY DEF Section, Granted, ShareSection, VolumeRow
<1> QED BY <1>1 DEF RenderConfig, Config

\* Of the users a section names, exactly those whom the tables allow.
LEMMA GrantedExact ==
  ASSUME StoreTypeOK, NEW v \in EnabledVolumes,
         NEW levels \in SUBSET {"read", "readwrite"}, NEW n \in Name
  PROVE  n \in Granted(ForConfig, v.id, levels) <=> Allowed(n, v.id, levels)
<1>1. ASSUME n \in Granted(ForConfig, v.id, levels) PROVE Allowed(n, v.id, levels)
  BY <1>1 DEF Granted, ForConfig, Allowed
<1>2. ASSUME Allowed(n, v.id, levels) PROVE n \in Granted(ForConfig, v.id, levels)
  <2>1. PICK u \in users, p \in perms :
          /\ u.name = n /\ u.enabled /\ p.user = u.id /\ p.volume = v.id /\ p.access \in levels
    BY <1>2 DEF Allowed
  <2> DEFINE g == [name |-> n, volume |-> v.id, access |-> p.access]
  <2>2. v \in volumes /\ v.enabled /\ v.id \in VolumeId
    BY DEF EnabledVolumes, StoreTypeOK, VolumeRow
  <2>3. g \in ForConfig
    BY <2>1, <2>2 DEF ForConfig, Grant
  <2> QED BY <2>1, <2>3 DEF Granted
<1> QED BY <1>1, <1>2

\* A configuration rendered from one reading of the tables, put in force,
\* is what the tables say: no share too many, nobody let in or kept out.
THEOREM DescribedExact == StoreTypeOK => Exact(Described)
<1> SUFFICES ASSUME StoreTypeOK PROVE Exact(Described)
  OBVIOUS
<1>1. Described.global = settings
  BY DEF Described, RenderConfig
<1>2. Described.shares = {Section(v, ForConfig) : v \in EnabledVolumes}
  BY DEF Described, RenderConfig
<1>3. {s.volume : s \in Described.shares} = {v.id : v \in EnabledVolumes}
  <2>1. \A v \in EnabledVolumes : Section(v, ForConfig).volume = v.id
    BY DEF Section
  <2> QED BY <1>2, <2>1
<1>4. ASSUME NEW s \in Described.shares, NEW n \in Name
      PROVE  /\ LetsWrite(s, n) <=> Allowed(n, s.volume, {"readwrite"})
             /\ ~s.guest => (Admits(s, n) <=> Allowed(n, s.volume, {"read", "readwrite"}))
  <2>1. PICK v \in EnabledVolumes : s = Section(v, ForConfig)
    BY <1>2
  <2>2. /\ s.volume = v.id /\ s.guest = v.guest
        /\ s.valid = Granted(ForConfig, v.id, {"read", "readwrite"})
        /\ s.write = Granted(ForConfig, v.id, {"readwrite"})
        /\ s.deny = (~s.guest /\ s.valid = {})
    BY <2>1 DEF Section
  <2>3. n \in s.valid <=> Allowed(n, s.volume, {"read", "readwrite"})
    <3> DEFINE levels == {"read", "readwrite"}
    <3>1. levels \in SUBSET {"read", "readwrite"}
      OBVIOUS
    <3> HIDE DEF levels
    <3>2. n \in Granted(ForConfig, v.id, levels) <=> Allowed(n, v.id, levels)
      BY <3>1, GrantedExact
    <3> QED BY <2>2, <3>2 DEF levels
  <2>4. n \in s.write <=> Allowed(n, s.volume, {"readwrite"})
    <3> DEFINE levels == {"readwrite"}
    <3>1. levels \in SUBSET {"read", "readwrite"}
      OBVIOUS
    <3> HIDE DEF levels
    <3>2. n \in Granted(ForConfig, v.id, levels) <=> Allowed(n, v.id, levels)
      BY <3>1, GrantedExact
    <3> QED BY <2>2, <3>2 DEF levels
  <2>5. n \in s.write => n \in s.valid
    BY <2>2 DEF Granted
  <2> QED BY <2>2, <2>3, <2>4, <2>5 DEF Admits, LetsWrite
<1> QED BY <1>1, <1>3, <1>4 DEF Exact

-----------------------------------------------------------------------------
(* The service *)

\* What makes it inductive: nothing that a row, or a handler that has read
\* one, calls created by the controller was on the machine before.
Safe(n, created) == created => n \notin Preexisting

SafeJob == {j \in Job : /\ Safe(j.name, j.created)
                        /\ \A u \in j.rows : Safe(u.name, u.created)}

\* The steps that take an account's name from the request need one.
Unnamed == Step \ {"lookup", "useradd", "insertUser"}

Fits(steps, j) == steps \in Seq(Unnamed) \/ (steps \in Seq(Step) /\ j.name \in Name)

ProcInv ==
  /\ prog \in [Proc -> Seq(Step)]
  /\ job \in [Proc -> SafeJob]
  /\ \A p \in Proc : Fits(prog[p], job[p])

DataInv == StoreInv /\ \A u \in users : Safe(u.name, u.created)

SystemInv ==
  /\ accounts \subseteq Name
  /\ passdb \in [Name -> {"none", "on", "off"}]
  /\ PreexistingKept

SmbInv == conf \in Config /\ loaded \in Config

RestInv ==
  /\ mu \in Proc \cup {NoProc}
  /\ snap \in [Proc -> Snapshot]
  /\ issued \subseteq TempName
  /\ started \in 0 .. MaxRequests
  /\ applied \in {"ok", "failed"}

IInv == ProcInv /\ DataInv /\ SystemInv /\ SmbInv /\ RestInv

-----------------------------------------------------------------------------
(* The handlers are sequences of steps. *)

LEMMA UnnamedSteps ==
  ASSUME NEW s \in Seq(Unnamed)
  PROVE  s \in Seq(Step)
<1>1. \A i \in 1 .. Len(s) : s[i] \in Unnamed
  BY ElementOfSeq
<1>2. \A i \in 1 .. Len(s) : s[i] \in Step
  BY <1>1 DEF Unnamed
<1> QED BY <1>2, IsASeq, SeqDef DEF Unnamed

LEMMA ApplyStepsTyped == ApplySteps \in Seq(Unnamed)
BY DEF ApplySteps, Unnamed, Step, DbSteps, CmdSteps

LEMMA VolumeStepsTyped ==
  /\ CreateVolumeSteps \in Seq(Unnamed) /\ UpdateVolumeSteps \in Seq(Unnamed)
  /\ DeleteVolumeSteps \in Seq(Unnamed)
  /\ RepairVolumeSteps \in Seq(Unnamed) /\ RepairAllSteps \in Seq(Unnamed)
<1>1. /\ <<"walk", "insertVolume">> \in Seq(Unnamed)
      /\ <<"getVolume", "walk", "updateVolume", "reread">> \in Seq(Unnamed)
      /\ <<"deleteVolume">> \in Seq(Unnamed)
      /\ RepairVolumeSteps \in Seq(Unnamed) /\ RepairAllSteps \in Seq(Unnamed)
  BY DEF RepairVolumeSteps, RepairAllSteps, Unnamed, Step, DbSteps, CmdSteps
<1> QED BY <1>1, ApplyStepsTyped, ConcatProperties
        DEF CreateVolumeSteps, UpdateVolumeSteps, DeleteVolumeSteps

LEMMA CreationStepsTyped ==
  /\ CreateUserSteps \in Seq(Step)
  /\ \A g \in BOOLEAN : CreateTemporaryUserSteps(g) \in Seq(Step)
<1>1. /\ <<"lookup", "group", "password", "insertUser">> \in Seq(Step)
      /\ <<"nextGrant">> \in Seq(Step) /\ ApplySteps \in Seq(Step)
  BY ApplyStepsTyped, UnnamedSteps DEF Step, DbSteps, CmdSteps
<1> QED BY <1>1, ConcatProperties DEF CreateUserSteps, CreateTemporaryUserSteps

LEMMA UserStepsTyped ==
  /\ UpdateUserSteps \in Seq(Unnamed) /\ SetUserEnabledSteps \in Seq(Unnamed)
  /\ ChangePasswordSteps \in Seq(Unnamed) /\ DeleteUserSteps \in Seq(Unnamed)
<1>1. /\ <<"getUser", "setEnabled", "reread", "flag">> \in Seq(Unnamed)
      /\ <<"getUser", "flag", "setEnabled">> \in Seq(Unnamed)
      /\ <<"getUser", "pdbDelete", "deleteUser">> \in Seq(Unnamed)
      /\ <<"userdel">> \in Seq(Unnamed)
      /\ ChangePasswordSteps \in Seq(Unnamed)
  BY DEF ChangePasswordSteps, Unnamed, Step, DbSteps, CmdSteps
<1> QED BY <1>1, ApplyStepsTyped, ConcatProperties
        DEF UpdateUserSteps, SetUserEnabledSteps, DeleteUserSteps

LEMMA OtherStepsTyped ==
  /\ SetPermissionSteps \in Seq(Unnamed) /\ BulkSteps \in Seq(Unnamed)
  /\ CleanupSteps \in Seq(Unnamed) /\ ExpiredSteps \in Seq(Unnamed)
  /\ ReloadSteps \in Seq(Unnamed) /\ RestartSteps \in Seq(Unnamed)
  /\ SettingsSteps \in Seq(Unnamed)
<1>1. /\ <<"lock", "permUser", "permVolume", "permRow">> \in Seq(Unnamed)
      /\ <<"lock", "bulkCheck", "bulkPair">> \in Seq(Unnamed)
      /\ <<"unlock">> \in Seq(Unnamed) /\ <<"restart">> \in Seq(Unnamed)
      /\ <<"setSettings">> \in Seq(Unnamed)
      /\ CleanupSteps \in Seq(Unnamed) /\ ExpiredSteps \in Seq(Unnamed)
  BY DEF CleanupSteps, ExpiredSteps, Unnamed, Step, DbSteps, CmdSteps
<1> QED BY <1>1, ApplyStepsTyped, ConcatProperties
        DEF SetPermissionSteps, BulkSteps, ReloadSteps, RestartSteps, SettingsSteps

LEMMA NoJobSafe == NoJob \in SafeJob
BY DatabaseAssumption, BoundsAssumption
   DEF NoJob, SafeJob, Safe, Job, Access, Pair

LEMMA NoSnapTyped == NoSnap \in Snapshot
BY DatabaseAssumption DEF NoSnap, Snapshot

-----------------------------------------------------------------------------
(* Going on, and giving up. *)

LEMMA NoJobFits == Fits(<<>>, NoJob) /\ <<>> \in Seq(Step)
BY EmptySeq DEF Fits

LEMMA AtStartTyped ==
  /\ AtStart \in [Proc -> Seq(Step)]
  /\ \A p \in Proc : Fits(AtStart[p], NoJob)
BY VolumeStepsTyped, UnnamedSteps, NoJobFits DEF AtStart, Fits

LEMMA GotoKeeps ==
  ASSUME ProcInv, NEW p \in Proc, NEW steps, NEW j \in SafeJob, Fits(steps, j),
         Goto(p, steps, j)
  PROVE  ProcInv'
<1>1. steps \in Seq(Step)
  BY UnnamedSteps DEF Fits
<1> QED BY <1>1, NoJobFits, NoJobSafe DEF ProcInv, Goto

LEMMA GotoUnnamedKeeps ==
  ASSUME ProcInv, NEW p \in Proc, NEW steps \in Seq(Unnamed), NEW j \in SafeJob,
         Goto(p, steps, j)
  PROVE  ProcInv'
BY GotoKeeps DEF Fits

LEMMA TailFits ==
  ASSUME ProcInv, NEW p \in Proc, NEW s, At(p, s), NEW j,
         j.name = job[p].name \/ j.name \in Name
  PROVE  Fits(Tail(prog[p]), j)
BY HeadTailProperties DEF ProcInv, At, Fits

LEMMA PrependFits ==
  ASSUME NEW s \in Seq(Unnamed), NEW t, NEW j, Fits(t, j)
  PROVE  Fits(s \o t, j)
BY UnnamedSteps, ConcatProperties DEF Fits

LEMMA AtNamed ==
  ASSUME ProcInv, NEW p \in Proc, NEW s \in {"lookup", "useradd", "insertUser"}, At(p, s)
  PROVE  job[p].name \in Name
BY HeadTailProperties DEF ProcInv, At, Fits, Unnamed

LEMMA ContinueKeeps ==
  ASSUME ProcInv, NEW p \in Proc, NEW s, At(p, s), NEW j \in SafeJob,
         j.name = job[p].name \/ j.name \in Name, Continue(p, j)
  PROVE  ProcInv'
BY TailFits, GotoKeeps DEF Continue

LEMMA DoneKeeps ==
  ASSUME ProcInv, NEW p \in Proc, NEW s, At(p, s), Done(p)
  PROVE  ProcInv'
BY ContinueKeeps DEF Done, ProcInv

LEMMA ChangedKeeps ==
  ASSUME ProcInv, NEW p \in Proc, NEW s, At(p, s), Changed(p)
  PROVE  ProcInv'
<1> DEFINE j == [job[p] EXCEPT !.changed = TRUE]
<1>1. j \in SafeJob /\ j.name = job[p].name
  BY DEF ProcInv, SafeJob, Job, Safe
<1> HIDE DEF j
<1> QED BY <1>1, ContinueKeeps DEF Changed, j

LEMMA MovesKeeps ==
  ASSUME IInv, Moves
  PROVE  DataInv' /\ SystemInv' /\ SmbInv' /\ RestInv'
<1>1. DataInv'
  BY UnchangedKeeps DEF IInv, Moves, DataInv, tableVars
<1> QED BY <1>1 DEF IInv, Moves, SystemInv, SmbInv, RestInv, PreexistingKept,
                     osVars, smbVars, envVars

LEMMA OnTablesKeeps ==
  ASSUME IInv, OnTables
  PROVE  SystemInv' /\ SmbInv' /\ RestInv'
BY DEF IInv, OnTables, SystemInv, SmbInv, RestInv, PreexistingKept, osVars, smbVars, envVars

LEMMA OnSystemKeeps ==
  ASSUME IInv, OnSystem
  PROVE  DataInv' /\ SmbInv' /\ RestInv'
<1>1. DataInv'
  BY UnchangedKeeps DEF IInv, OnSystem, DataInv, tableVars
<1> QED BY <1>1 DEF IInv, OnSystem, SmbInv, RestInv, smbVars, envVars

LEMMA UnwindTyped ==
  ASSUME NEW p
  PROVE  Unwind(p) \in Seq(Unnamed)
<1>1. <<"unlock">> \in Seq(Unnamed) /\ <<>> \in Seq(Unnamed)
  BY DEF Unnamed, Step
<1> QED BY <1>1 DEF Unwind

LEMMA AbortKeeps ==
  ASSUME IInv, NEW p \in Proc, Abort(p)
  PROVE  IInv'
<1>1. ProcInv'
  BY UnwindTyped, GotoUnnamedKeeps DEF Abort, IInv, ProcInv
<1>2. DataInv'
  BY UnchangedKeeps DEF IInv, Abort, DataInv, tableVars
<1>3. SystemInv' /\ SmbInv' /\ RestInv'
  BY DEF IInv, Abort, SystemInv, SmbInv, RestInv, PreexistingKept, osVars, smbVars, envVars
<1> QED BY <1>1, <1>2, <1>3 DEF IInv

LEMMA ApplyFailedKeeps ==
  ASSUME IInv, NEW p \in Proc, ApplyFailed(p)
  PROVE  ProcInv' /\ DataInv' /\ SystemInv' /\ RestInv'
<1>1. Unwind(p) \o (IF job[p].temp /\ mu = p THEN <<"nextGrant">> ELSE <<>>) \in Seq(Unnamed)
  <2>1. <<"nextGrant">> \in Seq(Unnamed) /\ <<>> \in Seq(Unnamed)
    BY DEF Unnamed, Step
  <2> QED BY <2>1, UnwindTyped, ConcatProperties
<1>2. ProcInv'
  BY <1>1, GotoUnnamedKeeps DEF ApplyFailed, IInv, ProcInv
<1>3. DataInv'
  BY UnchangedKeeps DEF IInv, ApplyFailed, DataInv, tableVars
<1>4. SystemInv' /\ RestInv'
  BY NoSnapTyped DEF IInv, ApplyFailed, SystemInv, RestInv, PreexistingKept, osVars, envVars
<1> QED BY <1>2, <1>3, <1>4
-----------------------------------------------------------------------------
(* Requests and the ticker. *)

LEMMA BeginKeeps ==
  ASSUME IInv, NEW p \in Proc, NEW op, NEW steps, NEW j \in SafeJob, Fits(steps, j),
         Begin(p, op, steps, j), issued' \subseteq TempName
  PROVE  IInv'
<1>1. ProcInv'
  BY GotoKeeps DEF Begin, IInv
<1>2. DataInv'
  BY UnchangedKeeps DEF IInv, Begin, DataInv, tableVars
<1>3. SystemInv' /\ SmbInv'
  BY DEF IInv, Begin, SystemInv, SmbInv, PreexistingKept, osVars, smbVars
<1>4. started' \in 0 .. MaxRequests
  BY RoomAssumption DEF IInv, RestInv, Begin
<1>5. RestInv'
  BY <1>4 DEF IInv, RestInv, Begin
<1> QED BY <1>1, <1>2, <1>3, <1>5 DEF IInv

LEMMA ServeKeeps ==
  ASSUME IInv, NEW p \in Proc, NEW op, NEW steps \in Seq(Unnamed), NEW j \in SafeJob,
         Serve(p, op, steps, j)
  PROVE  IInv'
BY BeginKeeps DEF Serve, Fits, IInv, RestInv

LEMMA KnownTyped ==
  ASSUME IInv
  PROVE  KnownUsers \subseteq UserId /\ KnownVolumes \subseteq VolumeId
BY BoundsAssumption DEF IInv, DataInv, StoreInv, StoreTypeOK, KnownUsers, KnownVolumes,
   UserId, VolumeId

LEMMA VolumeRequestKeeps ==
  ASSUME IInv, NEW p \in Proc,
         \/ CreateVolume(p) \/ UpdateVolume(p) \/ DeleteVolume(p)
         \/ RepairVolumePermissions(p)
  PROVE  IInv'
<1> USE NoJobSafe, ServeKeeps, VolumeStepsTyped, KnownTyped
<1>0. \A id \in VolumeId : id \in 0 .. MaxVolumes
  BY BoundsAssumption DEF VolumeId
<1>1. ASSUME CreateVolume(p) PROVE IInv'
  <2>1. PICK g \in BOOLEAN :
          Serve(p, "createVolume", CreateVolumeSteps, [NoJob EXCEPT !.guest = g])
    BY <1>1 DEF CreateVolume
  <2>2. [NoJob EXCEPT !.guest = g] \in SafeJob
    BY DEF SafeJob, Job, Safe
  <2> QED BY <2>1, <2>2
<1>2. ASSUME UpdateVolume(p) PROVE IInv'
  <2>1. PICK id \in KnownVolumes, g \in BOOLEAN, on \in BOOLEAN :
          Serve(p, "updateVolume", UpdateVolumeSteps,
                [NoJob EXCEPT !.vid = id, !.guest = g, !.on = on])
    BY <1>2 DEF UpdateVolume
  <2>2. [NoJob EXCEPT !.vid = id, !.guest = g, !.on = on] \in SafeJob
    BY <1>0 DEF SafeJob, Job, Safe
  <2> QED BY <2>1, <2>2
<1>3. \A id \in KnownVolumes : [NoJob EXCEPT !.vid = id] \in SafeJob
  BY <1>0 DEF SafeJob, Job, Safe
<1>4. ASSUME DeleteVolume(p) PROVE IInv'
  BY <1>3, <1>4 DEF DeleteVolume
<1>5. ASSUME RepairVolumePermissions(p) PROVE IInv'
  BY <1>3, <1>5 DEF RepairVolumePermissions
<1> QED BY <1>1, <1>2, <1>4, <1>5

LEMMA UserRequestKeeps ==
  ASSUME IInv, NEW p \in Proc,
         \/ CreateUser(p) \/ UpdateUser(p) \/ SetUserEnabled(p)
         \/ ChangeUserPassword(p) \/ DeleteUser(p)
  PROVE  IInv'
<1> USE NoJobSafe, ServeKeeps, UserStepsTyped, KnownTyped
<1>0. \A id \in UserId : id \in 0 .. MaxUsers
  BY BoundsAssumption DEF UserId
<1>1. ASSUME CreateUser(p) PROVE IInv'
  <2>1. PICK n \in PlainName :
          Serve(p, "createUser", CreateUserSteps, [NoJob EXCEPT !.name = n])
    BY <1>1 DEF CreateUser
  <2> DEFINE j == [NoJob EXCEPT !.name = n]
  <2>2. j \in SafeJob /\ j.name \in Name
    BY NameAssumption DEF SafeJob, Job, Safe, NoJob
  <2> HIDE DEF j
  <2> QED BY <2>1, <2>2, CreationStepsTyped, BeginKeeps DEF j, Serve, Fits, IInv, RestInv
<1>2. \A id \in KnownUsers, on \in BOOLEAN : [NoJob EXCEPT !.uid = id, !.on = on] \in SafeJob
  BY <1>0 DEF SafeJob, Job, Safe
<1>3. \A id \in KnownUsers : [NoJob EXCEPT !.uid = id] \in SafeJob
  BY <1>0 DEF SafeJob, Job, Safe
<1>4. ASSUME UpdateUser(p) PROVE IInv'
  BY <1>2, <1>4 DEF UpdateUser
<1>5. ASSUME SetUserEnabled(p) PROVE IInv'
  BY <1>2, <1>5 DEF SetUserEnabled
<1>6. ASSUME ChangeUserPassword(p) PROVE IInv'
  BY <1>3, <1>6 DEF ChangeUserPassword
<1>7. ASSUME DeleteUser(p) PROVE IInv'
  BY <1>3, <1>7 DEF DeleteUser
<1> QED BY <1>1, <1>4, <1>5, <1>6, <1>7

LEMMA PermissionRequestKeeps ==
  ASSUME IInv, NEW p \in Proc,
         SetPermission(p) \/ BulkSetPermissions(p) \/ CreateTemporaryUser(p)
  PROVE  IInv'
<1> USE NoJobSafe, KnownTyped
<1>1. /\ \A id \in UserId : id \in 0 .. MaxUsers
      /\ \A id \in VolumeId : id \in 0 .. MaxVolumes
      /\ 0 \in 0 .. MaxUsers
  BY BoundsAssumption DEF UserId, VolumeId
<1>2. ASSUME SetPermission(p) PROVE IInv'
  <2>1. PICK uid \in KnownUsers, vid \in KnownVolumes, a \in Access :
          Serve(p, "setPermission", SetPermissionSteps,
                [NoJob EXCEPT !.uid = uid, !.vid = vid, !.access = a])
    BY <1>2 DEF SetPermission
  <2>2. [NoJob EXCEPT !.uid = uid, !.vid = vid, !.access = a] \in SafeJob
    BY <1>1 DEF SafeJob, Job, Safe
  <2> QED BY <2>1, <2>2, ServeKeeps, OtherStepsTyped
<1>3. ASSUME BulkSetPermissions(p) PROVE IInv'
  <2>1. PICK us \in SUBSET KnownUsers \ {{}}, vs \in SUBSET KnownVolumes \ {{}}, a \in Access :
          Serve(p, "bulk", BulkSteps, [NoJob EXCEPT !.todo = us \X vs, !.access = a])
    BY <1>3 DEF BulkSetPermissions
  <2>2. us \X vs \in SUBSET Pair
    BY <1>1 DEF Pair
  <2>3. [NoJob EXCEPT !.todo = us \X vs, !.access = a] \in SafeJob
    BY <2>2 DEF SafeJob, Job, Safe
  <2> QED BY <2>1, <2>3, ServeKeeps, OtherStepsTyped
<1>4. ASSUME CreateTemporaryUser(p) PROVE IInv'
  <2>1. PICK n \in TempName \ issued, vs \in SUBSET KnownVolumes, a \in Access :
          LET grants == vs # {} /\ a # "none" IN
          /\ Begin(p, "createTemporary", CreateTemporaryUserSteps(grants),
                   [NoJob EXCEPT !.name = n, !.temp = TRUE, !.access = a,
                                 !.todo = IF grants THEN {0} \X vs ELSE {}])
          /\ issued' = issued \cup {n}
    BY <1>4 DEF CreateTemporaryUser
  <2> DEFINE grants == vs # {} /\ a # "none"
             todo == IF grants THEN {0} \X vs ELSE {}
  <2>2. todo \in SUBSET Pair
    BY <1>1 DEF Pair
  <2>3. n \in Name /\ issued' \subseteq TempName
    BY <2>1, NameAssumption DEF IInv, RestInv
  <2>4. CreateTemporaryUserSteps(grants) \in Seq(Step)
    BY CreationStepsTyped
  <2> DEFINE j == [NoJob EXCEPT !.name = n, !.temp = TRUE, !.access = a, !.todo = todo]
  <2>5. Begin(p, "createTemporary", CreateTemporaryUserSteps(grants), j)
    BY <2>1
  <2> HIDE DEF grants, todo
  <2>6. j \in SafeJob /\ j.name \in Name
    BY <2>2, <2>3 DEF SafeJob, Job, Safe, NoJob
  <2> HIDE DEF j
  <2> QED BY <2>3, <2>4, <2>5, <2>6, BeginKeeps DEF Fits
<1> QED BY <1>2, <1>3, <1>4

LEMMA SystemRequestKeeps ==
  ASSUME IInv, NEW p \in Proc, Reload(p) \/ Restart(p) \/ UpdateSettings(p)
  PROVE  IInv'
<1> USE NoJobSafe, ServeKeeps, OtherStepsTyped
<1>1. ASSUME Reload(p) \/ Restart(p) PROVE IInv'
  BY <1>1 DEF Reload, Restart
<1>2. ASSUME UpdateSettings(p) PROVE IInv'
  <2>1. PICK s \in Setting :
          Serve(p, "settings", SettingsSteps, [NoJob EXCEPT !.setting = s])
    BY <1>2 DEF UpdateSettings
  <2>2. [NoJob EXCEPT !.setting = s] \in SafeJob
    BY DEF SafeJob, Job, Safe
  <2> QED BY <2>1, <2>2
<1> QED BY <1>1, <1>2

LEMMA RequestKeeps ==
  ASSUME IInv, NEW p \in Proc, Request(p)
  PROVE  IInv'
BY VolumeRequestKeeps, UserRequestKeeps, PermissionRequestKeeps, SystemRequestKeeps DEF Request

LEMMA TickKeeps ==
  ASSUME IInv, NEW p \in Proc, Tick(p)
  PROVE  IInv'
BY GotoUnnamedKeeps, NoJobSafe, OtherStepsTyped, MovesKeeps DEF Tick, IInv

-----------------------------------------------------------------------------
(* Steps that change no store but the handler's own. *)

LEMMA LockKeeps ==
  ASSUME IInv, NEW p \in Proc, Lock(p) \/ Unlock(p)
  PROVE  IInv'
<1>1. ProcInv'
  BY DoneKeeps DEF Lock, Unlock, IInv
<1>2. DataInv'
  BY UnchangedKeeps DEF IInv, Lock, Unlock, DataInv, tableVars
<1>3. SystemInv' /\ SmbInv' /\ RestInv'
  BY DEF IInv, Lock, Unlock, SystemInv, SmbInv, RestInv, PreexistingKept,
         osVars, smbVars, envVars
<1> QED BY <1>1, <1>2, <1>3 DEF IInv

\* A step that is over, or that makes the handler give up.
LEMMA DoneOrAbortKeeps ==
  ASSUME IInv, NEW p \in Proc, NEW s, At(p, s), (Done(p) /\ Moves) \/ Abort(p)
  PROVE  IInv'
<1>1. ASSUME Done(p), Moves PROVE IInv'
  BY <1>1, DoneKeeps, MovesKeeps DEF IInv
<1> QED BY <1>1, AbortKeeps

LEMMA CheckingKeeps ==
  ASSUME IInv, NEW p \in Proc,
         \/ GetVolume(p) \/ Walk(p) \/ AddToGroup(p) \/ PermUser(p) \/ PermVolume(p)
         \/ BulkCheck(p)
  PROVE  IInv'
<1>1. ASSUME GetVolume(p) PROVE IInv'
  BY <1>1, DoneOrAbortKeeps DEF GetVolume
<1>2. ASSUME Walk(p) PROVE IInv'
  BY <1>2, DoneOrAbortKeeps DEF Walk
<1>3. ASSUME AddToGroup(p) PROVE IInv'
  BY <1>3, DoneOrAbortKeeps DEF AddToGroup
<1>4. ASSUME PermUser(p) PROVE IInv'
  BY <1>4, DoneOrAbortKeeps DEF PermUser
<1>5. ASSUME PermVolume(p) PROVE IInv'
  BY <1>5, DoneOrAbortKeeps DEF PermVolume
<1>6. ASSUME BulkCheck(p) PROVE IInv'
  BY <1>6, DoneOrAbortKeeps DEF BulkCheck
<1> QED BY <1>1, <1>2, <1>3, <1>4, <1>5, <1>6

\* What a handler takes over from a row is as safe as the row.
LEMMA ReadingKeeps ==
  ASSUME IInv, NEW p \in Proc,
         GetUser(p) \/ Lookup(p) \/ SelectExpired(p) \/ NextExpired(p) \/ NextGrant(p)
  PROVE  IInv'
<1> USE DEF IInv
<1>0. job[p] \in SafeJob
  BY DEF ProcInv
<1>1. ASSUME GetUser(p) PROVE IInv'
  <2>1. ASSUME NEW u \in users, Moves,
               Continue(p, [job[p] EXCEPT !.name = u.name, !.created = u.created])
        PROVE  IInv'
    <3>1. u \in UserRow /\ Safe(u.name, u.created)
      BY DEF DataInv, StoreInv, StoreTypeOK
    <3> DEFINE j == [job[p] EXCEPT !.name = u.name, !.created = u.created]
    <3>2. j \in SafeJob /\ j.name \in Name
      BY <1>0, <3>1 DEF SafeJob, Job, UserRow, Safe
    <3> HIDE DEF j
    <3>3. ProcInv'
      BY <1>1, <2>1, <3>2, ContinueKeeps DEF GetUser, j
    <3> QED BY <2>1, <3>3, MovesKeeps
  <2> QED BY <1>1, <2>1, AbortKeeps DEF GetUser
<1>2. ASSUME Lookup(p) PROVE IInv'
  <2>1. Fits(<<"useradd">> \o Tail(prog[p]), job[p])
    <3>1. <<"useradd">> \in Seq(Step)
      BY DEF Step, CmdSteps
    <3>2. Tail(prog[p]) \in Seq(Step)
      BY <1>2, HeadTailProperties DEF Lookup, At, ProcInv
    <3> QED BY <1>2, <3>1, <3>2, AtNamed, ConcatProperties DEF Lookup, Fits
  <2>2. ProcInv'
    BY <1>0, <1>2, <2>1, DoneKeeps, GotoKeeps DEF Lookup
  <2> QED BY <1>2, <2>2, MovesKeeps DEF Lookup
<1>3. ASSUME SelectExpired(p) PROVE IInv'
  <2> DEFINE more == IF ExpiredTemporary = {} THEN <<>> ELSE <<"nextExpired">> \o ApplySteps
             j == [job[p] EXCEPT !.rows = ExpiredTemporary]
  <2>1. more \in Seq(Unnamed)
    <3>1. <<"nextExpired">> \in Seq(Unnamed) /\ <<>> \in Seq(Unnamed)
      BY DEF Unnamed, Step
    <3> QED BY <3>1, ApplyStepsTyped, ConcatProperties
  <2>2. j \in SafeJob /\ j.name = job[p].name
    BY <1>0 DEF SafeJob, Job, Safe, ExpiredTemporary, DataInv, StoreInv, StoreTypeOK
  <2>3. Goto(p, more \o Tail(prog[p]), j) /\ At(p, "selectExpired") /\ Moves
    BY <1>3 DEF SelectExpired
  <2> HIDE DEF more, j
  <2>4. ProcInv'
    BY <2>1, <2>2, <2>3, TailFits, PrependFits, GotoKeeps
  <2> QED BY <2>3, <2>4, MovesKeeps
<1>4. ASSUME NextExpired(p) PROVE IInv'
  <2>1. ASSUME NEW u \in job[p].rows,
               Goto(p, ExpiredSteps \o prog[p],
                    [job[p] EXCEPT !.rows = @ \ {u}, !.uid = u.id,
                                   !.name = u.name, !.created = u.created])
        PROVE  ProcInv'
    <3>1. u \in UserRow /\ Safe(u.name, u.created)
      BY <1>0 DEF SafeJob, Job
    <3>2. u.id \in 0 .. MaxUsers
      BY <3>1, BoundsAssumption DEF UserRow, UserId
    <3> DEFINE j == [job[p] EXCEPT !.rows = @ \ {u}, !.uid = u.id,
                                   !.name = u.name, !.created = u.created]
    <3>3. j \in SafeJob /\ j.name \in Name
      BY <1>0, <3>1, <3>2 DEF SafeJob, Job, UserRow, Safe
    <3> HIDE DEF j
    <3>4. Fits(prog[p], j)
      BY <3>3 DEF ProcInv, Fits
    <3> QED BY <2>1, <3>3, <3>4, OtherStepsTyped, PrependFits, GotoKeeps DEF j
  <2>2. ProcInv'
    BY <1>4, <2>1, DoneKeeps DEF NextExpired
  <2> QED BY <1>4, <2>2, MovesKeeps DEF NextExpired
<1>5. ASSUME NextGrant(p) PROVE IInv'
  <2>1. ASSUME NEW t \in job[p].todo,
               Goto(p, SetPermissionSteps \o prog[p],
                    [job[p] EXCEPT !.todo = @ \ {t}, !.vid = t[2]])
        PROVE  ProcInv'
    <3>1. t[2] \in 0 .. MaxVolumes
      BY <1>0, BoundsAssumption DEF SafeJob, Job, Pair, VolumeId
    <3> DEFINE j == [job[p] EXCEPT !.todo = @ \ {t}, !.vid = t[2]]
    <3>2. j \in SafeJob /\ j.name = job[p].name
      BY <1>0, <3>1 DEF SafeJob, Job, Safe
    <3> HIDE DEF j
    <3>3. Fits(prog[p], j)
      BY <3>2 DEF ProcInv, Fits
    <3> QED BY <2>1, <3>2, <3>3, OtherStepsTyped, PrependFits, GotoKeeps DEF j
  <2>2. ProcInv'
    BY <1>5, <2>1, DoneKeeps DEF NextGrant
  <2> QED BY <1>5, <2>2, MovesKeeps DEF NextGrant
<1> QED BY <1>1, <1>2, <1>3, <1>4, <1>5

-----------------------------------------------------------------------------
(* Statements on the tables. *)

LEMMA VolumeTableKeeps ==
  ASSUME IInv, NEW p \in Proc,
         InsertVolumeStep(p) \/ UpdateVolumeStep(p) \/ DeleteVolumeStep(p)
  PROVE  IInv'
<1>0. job[p] \in Job
  BY DEF IInv, ProcInv, SafeJob
<1>1. ProcInv' /\ SystemInv' /\ SmbInv' /\ RestInv'
  BY ChangedKeeps, OnTablesKeeps DEF IInv, InsertVolumeStep, UpdateVolumeStep, DeleteVolumeStep
<1>2. ASSUME InsertVolumeStep(p) PROVE DataInv'
  BY <1>0, <1>2, InsertVolumeKeeps DEF InsertVolumeStep, InsertVolume, IInv, DataInv, Job
<1>3. ASSUME UpdateVolumeStep(p) PROVE DataInv'
  <2>1. UpdateVolumeRow(job[p].vid, job[p].guest, job[p].on)
    BY <1>3 DEF UpdateVolumeStep
  <2>2. job[p].guest \in BOOLEAN /\ job[p].on \in BOOLEAN
    BY <1>0 DEF Job
  <2>3. StoreInv'
    BY <2>1, <2>2, UpdateVolumeRowKeeps DEF IInv, DataInv
  <2> QED BY <2>1, <2>3 DEF UpdateVolumeRow, IInv, DataInv
<1>4. ASSUME DeleteVolumeStep(p) PROVE DataInv'
  BY <1>4, DeleteVolumeRowKeeps DEF DeleteVolumeStep, DeleteVolumeRow, IInv, DataInv
<1> QED BY <1>1, <1>2, <1>3, <1>4 DEF IInv

LEMMA UserTableKeeps ==
  ASSUME IInv, NEW p \in Proc,
         InsertUserStep(p) \/ SetEnabledStep(p) \/ DeleteUserStep(p)
  PROVE  IInv'
<1>0. job[p] \in SafeJob /\ job[p] \in Job
  BY DEF IInv, ProcInv, SafeJob
<1>1. ASSUME InsertUserStep(p), CanInsertUser(job[p].name) PROVE IInv'
  <2> DEFINE l == IF job[p].temp THEN "running" ELSE "permanent"
  <2>1. /\ InsertUser(job[p].name, l, job[p].created)
        /\ Continue(p, [job[p] EXCEPT !.uid = nextUser, !.changed = TRUE])
        /\ OnTables /\ At(p, "insertUser")
    BY <1>1 DEF InsertUserStep
  <2>2. l \in Lease /\ job[p].created \in BOOLEAN
    BY <1>0 DEF Job, Lease
  <2>3. job[p].name \in Name
    BY <2>1, AtNamed DEF IInv
  <2>4. nextUser \in 0 .. MaxUsers
    BY <1>1, BoundsAssumption DEF CanInsertUser, UserId
  <2> DEFINE j == [job[p] EXCEPT !.uid = nextUser, !.changed = TRUE]
  <2>5. j \in SafeJob /\ j.name = job[p].name
    BY <1>0, <2>4 DEF SafeJob, Job, Safe
  <2>6. StoreInv'
    BY <2>1, <2>2, <2>3, InsertUserKeeps DEF IInv, DataInv
  <2>7. \A u \in users' : Safe(u.name, u.created)
    BY <1>0, <2>1 DEF InsertUser, SafeJob, Safe, IInv, DataInv
  <2>8. ProcInv' /\ SystemInv' /\ SmbInv' /\ RestInv'
    BY <2>1, <2>3, <2>5, ContinueKeeps, OnTablesKeeps DEF IInv
  <2> QED BY <2>6, <2>7, <2>8 DEF IInv, DataInv
<1>2. ASSUME SetEnabledStep(p) \/ DeleteUserStep(p)
      PROVE  ProcInv' /\ SystemInv' /\ SmbInv' /\ RestInv'
  BY <1>2, ChangedKeeps, OnTablesKeeps DEF IInv, SetEnabledStep, DeleteUserStep
<1>3. ASSUME SetEnabledStep(p) PROVE DataInv'
  <2>1. StoreInv'
    BY <1>0, <1>3, SetEnabledKeeps DEF SetEnabledStep, IInv, DataInv, Job
  <2>2. \A u \in users : u \in UserRow
    BY DEF IInv, DataInv, StoreInv, StoreTypeOK
  <2>3. \A u \in users' : \E w \in users : u.name = w.name /\ u.created = w.created
    BY <1>3, <2>2 DEF SetEnabledStep, SetEnabled, UserRow
  <2> QED BY <2>1, <2>3 DEF IInv, DataInv, Safe
<1>4. ASSUME DeleteUserStep(p) PROVE DataInv'
  BY <1>4, DeleteUserRowKeeps DEF DeleteUserStep, DeleteUserRow, IInv, DataInv
<1>5. ASSUME InsertUserStep(p), ~CanInsertUser(job[p].name) PROVE IInv'
  BY <1>5, AbortKeeps DEF InsertUserStep
<1> QED BY <1>1, <1>2, <1>3, <1>4, <1>5 DEF IInv

LEMMA PermissionTableKeeps ==
  ASSUME IInv, NEW p \in Proc, PermRow(p) \/ BulkPair(p)
  PROVE  IInv'
<1>0. job[p] \in SafeJob /\ job[p] \in Job
  BY DEF IInv, ProcInv, SafeJob
<1>1. ASSUME NEW u, NEW v,
             DeletePerm(u, v) \/ Upsert(u, v, job[p].access)
      PROVE  DataInv'
  BY <1>0, <1>1, DeletePermKeeps, UpsertKeeps DEF DeletePerm, Upsert, IInv, DataInv, Job
<1>2. ASSUME PermRow(p) PROVE IInv'
  <2>1. ASSUME ~Abort(p) PROVE ProcInv' /\ DataInv' /\ SystemInv' /\ SmbInv' /\ RestInv'
    BY <1>1, <1>2, <2>1, ChangedKeeps, OnTablesKeeps DEF PermRow, IInv
  <2> QED BY <2>1, AbortKeeps DEF IInv
<1>3. ASSUME BulkPair(p) PROVE IInv'
  <2>1. ASSUME NEW t \in job[p].todo, OnTables,
               IF job[p].access = "none"
               THEN DeletePerm(t[1], t[2])
               ELSE CanUpsert(t[1], t[2]) /\ Upsert(t[1], t[2], job[p].access),
               Goto(p, prog[p], [job[p] EXCEPT !.todo = @ \ {t}, !.uid = t[1],
                                               !.changed = @ \/ perms' # perms])
        PROVE  IInv'
    <3>1. t[1] \in 0 .. MaxUsers
      BY <1>0 DEF Job, Pair
    <3> DEFINE c == job[p].changed \/ perms' # perms
    <3>2. c \in BOOLEAN
      OBVIOUS
    <3> HIDE DEF c
    <3> DEFINE j == [job[p] EXCEPT !.todo = @ \ {t}, !.uid = t[1], !.changed = c]
    <3>3. j \in SafeJob /\ j.name = job[p].name
      BY <1>0, <3>1, <3>2 DEF SafeJob, Job, Safe
    <3>4. Goto(p, prog[p], j)
      BY <2>1 DEF c
    <3> HIDE DEF j
    <3>5. ProcInv'
      BY <3>3, <3>4, GotoKeeps DEF IInv, ProcInv, Fits
    <3>6. DataInv'
      BY <1>1, <2>1
    <3> QED BY <2>1, <3>5, <3>6, OnTablesKeeps DEF IInv
  <2>2. ASSUME Done(p), Moves PROVE IInv'
    BY <1>3, <2>2, DoneOrAbortKeeps DEF BulkPair
  <2> QED BY <1>3, <2>1, <2>2, AbortKeeps DEF BulkPair
<1> QED BY <1>2, <1>3

LEMMA SetSettingsKeeps ==
  ASSUME IInv, NEW p \in Proc, SetSettings(p)
  PROVE  IInv'
<1>1. job[p].setting \in Setting
  BY DEF IInv, ProcInv, SafeJob, Job
<1>2. DataInv'
  BY <1>1, UpdateSettingsRowsKeeps DEF SetSettings, UpdateSettingsRows, IInv, DataInv
<1> QED BY <1>2, ChangedKeeps, OnTablesKeeps DEF SetSettings, IInv

LEMMA LeaseExpiresKeeps ==
  ASSUME IInv, LeaseExpires
  PROVE  IInv'
<1>1. PICK u \in users :
        users' = (users \ {u}) \cup {[u EXCEPT !.lease = "expired"]}
  BY DEF LeaseExpires
<1> DEFINE w == [u EXCEPT !.lease = "expired"]
<1>2. u \in UserRow
  BY DEF IInv, DataInv, StoreInv, StoreTypeOK
<1>3. w \in UserRow /\ w.id = u.id /\ w.name = u.name /\ w.created = u.created
  BY <1>2 DEF UserRow, Lease
<1> HIDE DEF w
<1>4. users' = (users \ {u}) \cup {w} /\ UNCHANGED <<volumes, perms, settings, nextUser, nextVolume>>
  BY <1>1 DEF LeaseExpires, w
<1>5. StoreTypeOK'
  BY <1>3, <1>4 DEF IInv, DataInv, StoreInv, StoreTypeOK
<1>6. KeysUnique'
  BY <1>3, <1>4 DEF IInv, DataInv, StoreInv, KeysUnique
<1>7. ReferentialIntegrity'
  BY <1>3, <1>4 DEF IInv, DataInv, StoreInv, ReferentialIntegrity, HasUser, HasVolume
<1>8. \A x \in users' : Safe(x.name, x.created)
  BY <1>3, <1>4 DEF IInv, DataInv, Safe
<1>9. ProcInv' /\ SystemInv' /\ SmbInv' /\ RestInv'
  BY DEF LeaseExpires, IInv, ProcInv, SystemInv, SmbInv, RestInv, PreexistingKept,
         osVars, smbVars, envVars
<1> QED BY <1>5, <1>6, <1>7, <1>8, <1>9 DEF IInv, DataInv, StoreInv

-----------------------------------------------------------------------------
(* Commands on the accounts and on Samba's database. *)

LEMMA AccountKeeps ==
  ASSUME IInv, NEW p \in Proc, UserAdd(p) \/ UserDel(p)
  PROVE  IInv'
<1>0. job[p] \in SafeJob /\ job[p] \in Job
  BY DEF IInv, ProcInv, SafeJob
<1>1. ASSUME UserAdd(p) PROVE IInv'
  <2>1. ASSUME job[p].name \notin accounts PROVE IInv'
    \* what useradd has created was not there before
    <3> DEFINE j == [job[p] EXCEPT !.created = TRUE]
    <3>1. j \in SafeJob /\ j.name = job[p].name
      BY <1>0, <2>1 DEF SafeJob, Job, Safe, IInv, SystemInv, PreexistingKept
    <3> HIDE DEF j
    <3>2. ProcInv'
      BY <1>1, <2>1, <3>1, ContinueKeeps DEF UserAdd, IInv, j
    <3>3. SystemInv'
      BY <1>1, <2>1, AtNamed DEF UserAdd, IInv, SystemInv, PreexistingKept
    <3> QED BY <1>1, <2>1, <3>2, <3>3, OnSystemKeeps DEF UserAdd, IInv
  <2> QED BY <1>1, <2>1, AbortKeeps DEF UserAdd
<1>2. ASSUME UserDel(p) PROVE IInv'
  <2>1. ProcInv'
    BY <1>2, DoneKeeps DEF UserDel, IInv
  <2>2. SystemInv'
    BY <1>0, <1>2 DEF UserDel, SafeJob, Safe, IInv, SystemInv, PreexistingKept
  <2> QED BY <1>2, <2>1, <2>2, OnSystemKeeps DEF UserDel, IInv
<1> QED BY <1>1, <1>2

LEMMA PassdbKeeps ==
  ASSUME IInv, NEW p \in Proc, SetPassword(p) \/ SetFlag(p) \/ PdbDelete(p)
  PROVE  IInv'
<1>1. ASSUME ~Abort(p) PROVE ProcInv' /\ OnSystem
  BY <1>1, DoneKeeps DEF SetPassword, SetFlag, PdbDelete, IInv
<1>2. ASSUME ~Abort(p) PROVE SystemInv'
  BY <1>2 DEF SetPassword, SetFlag, PdbDelete, IInv, SystemInv, PreexistingKept
<1> QED BY <1>1, <1>2, AbortKeeps, OnSystemKeeps DEF IInv

-----------------------------------------------------------------------------
(* applyConfig. *)

LEMMA ApplyKeeps ==
  ASSUME IInv, NEW p \in Proc,
         ReadTables(p) \/ EnsureShares(p) \/ WriteConf(p) \/ ReloadSmbd(p) \/ RestartSmbd(p)
  PROVE  IInv'
<1> USE DEF IInv
<1>1. ASSUME ReadTables(p) PROVE IInv'
  <2>1. ProcInv' /\ SystemInv' /\ SmbInv'
    BY <1>1, DoneKeeps DEF ReadTables, SystemInv, SmbInv, PreexistingKept, osVars, smbVars
  <2>2. DataInv'
    BY <1>1, UnchangedKeeps DEF ReadTables, DataInv, tableVars
  <2>3. /\ settings \in Setting /\ EnabledVolumes \subseteq VolumeRow
        /\ ForConfig \subseteq Grant
    BY DEF DataInv, StoreInv, StoreTypeOK, EnabledVolumes, ForConfig
  <2>4. snap' \in [Proc -> Snapshot]
    BY <1>1, <2>3 DEF ReadTables, RestInv, Snapshot
  <2>5. RestInv'
    BY <1>1, <2>4 DEF ReadTables, RestInv, envVars
  <2> QED BY <2>1, <2>2, <2>5
<1>2. ASSUME EnsureShares(p) PROVE IInv'
  <2>1. ASSUME ApplyFailed(p), UNCHANGED smbVars PROVE IInv'
    BY <2>1, ApplyFailedKeeps DEF SmbInv, smbVars
  <2> QED BY <1>2, <2>1, DoneOrAbortKeeps DEF EnsureShares
<1>3. ASSUME WriteConf(p) PROVE IInv'
  <2>1. ProcInv' /\ SystemInv'
    BY <1>3, DoneKeeps DEF WriteConf, SystemInv, PreexistingKept, osVars
  <2>2. DataInv'
    BY <1>3, UnchangedKeeps DEF WriteConf, DataInv, tableVars
  <2>3. /\ snap[p].settings \in Setting /\ snap[p].volumes \in SUBSET VolumeRow
        /\ snap[p].grants \in SUBSET Grant
    BY DEF RestInv, Snapshot
  <2>4. SmbInv'
    BY <1>3, <2>3, RenderTyped DEF WriteConf, SmbInv
  <2>5. RestInv'
    BY <1>3, NoSnapTyped DEF WriteConf, RestInv, envVars
  <2> QED BY <2>1, <2>2, <2>4, <2>5
<1>4. ASSUME ReloadSmbd(p) PROVE IInv'
  <2>1. SmbInv'
    BY <1>4 DEF ReloadSmbd, SmbInv
  <2>2. ASSUME Done(p), applied' = "ok", UNCHANGED <<tableVars, osVars, mu, snap, envVars>>
        PROVE  ProcInv' /\ DataInv' /\ SystemInv' /\ RestInv'
    <3>1. DataInv'
      BY <2>2, UnchangedKeeps DEF DataInv, tableVars
    <3>2. ProcInv'
      BY <1>4, <2>2, DoneKeeps DEF ReloadSmbd
    <3> QED BY <2>2, <3>1, <3>2 DEF SystemInv, PreexistingKept, RestInv, osVars, envVars
  <2> QED BY <1>4, <2>1, <2>2, ApplyFailedKeeps DEF ReloadSmbd
<1>5. ASSUME RestartSmbd(p) PROVE IInv'
  <2>1. ProcInv' /\ SystemInv' /\ SmbInv' /\ RestInv'
    BY <1>5, DoneKeeps DEF RestartSmbd, SystemInv, PreexistingKept, SmbInv, RestInv,
                           osVars, envVars
  <2>2. DataInv'
    BY <1>5, UnchangedKeeps DEF RestartSmbd, DataInv, tableVars
  <2> QED BY <2>1, <2>2
<1> QED BY <1>1, <1>2, <1>3, <1>4, <1>5

LEMMA FailKeeps ==
  ASSUME IInv, NEW p \in Proc, Fail(p)
  PROVE  IInv'
<1>1. ASSUME ApplyFailed(p), UNCHANGED smbVars PROVE IInv'
  BY <1>1, ApplyFailedKeeps DEF IInv, SmbInv, smbVars
<1> QED BY <1>1, AbortKeeps DEF Fail

LEMMA CrashKeeps ==
  ASSUME IInv, Crash
  PROVE  IInv'
<1>1. ProcInv'
  BY NoJobSafe, AtStartTyped DEF Crash, ProcInv
<1>2. DataInv'
  BY UnchangedKeeps DEF Crash, IInv, DataInv, tableVars
<1>3. SystemInv' /\ SmbInv' /\ RestInv'
  BY NoSnapTyped DEF Crash, IInv, SystemInv, SmbInv, RestInv, PreexistingKept,
                     osVars, smbVars, envVars
<1> QED BY <1>1, <1>2, <1>3 DEF IInv

-----------------------------------------------------------------------------
LEMMA InitIInv == Init => IInv
<1> SUFFICES ASSUME Init PROVE IInv
  OBVIOUS
<1>1. ProcInv
  BY NoJobSafe, AtStartTyped DEF Init, ProcInv
<1>2. StoreTypeOK /\ KeysUnique
  BY DatabaseAssumption, RoomAssumption, BoundsAssumption DEF Init, StoreTypeOK, KeysUnique
<1>3. ReferentialIntegrity
  BY DatabaseAssumption DEF Init, ReferentialIntegrity, HasUser, HasVolume
<1>4. DataInv
  BY <1>2, <1>3, DatabaseAssumption DEF Init, DataInv, StoreInv, Safe
<1>5. SystemInv
  BY NameAssumption, DatabaseAssumption DEF Init, SystemInv, PreexistingKept, UserRow
<1>6. EnabledVolumes \in SUBSET VolumeRow /\ ForConfig \in SUBSET Grant
  BY <1>2 DEF StoreTypeOK, EnabledVolumes, ForConfig
<1>7. SmbInv
  BY <1>2, <1>6, RenderTyped DEF Init, SmbInv, Described, StoreTypeOK
<1>8. RestInv
  BY NoSnapTyped, RoomAssumption DEF Init, RestInv
<1> QED BY <1>1, <1>4, <1>5, <1>7, <1>8 DEF IInv

LEMMA RunKeeps ==
  ASSUME IInv, NEW p \in Proc, Run(p)
  PROVE  IInv'
BY LockKeeps, CheckingKeeps, ReadingKeeps, VolumeTableKeeps, UserTableKeeps,
   PermissionTableKeeps, SetSettingsKeeps, AccountKeeps, PassdbKeeps, ApplyKeeps, FailKeeps
   DEF Run

LEMMA NextIInv == IInv /\ [Next]_vars => IInv'
<1> SUFFICES ASSUME IInv, [Next]_vars PROVE IInv'
  OBVIOUS
<1>1. ASSUME NEW p \in Worker, Request(p) PROVE IInv'
  BY <1>1, RequestKeeps DEF Proc
<1>2. ASSUME NEW p \in Janitor, Tick(p) PROVE IInv'
  BY <1>2, TickKeeps DEF Proc
<1>3. ASSUME NEW p \in Proc, Lock(p) \/ Run(p) PROVE IInv'
  BY <1>3, LockKeeps, RunKeeps
<1>4. CASE UNCHANGED vars
  <2>1. DataInv'
    BY <1>4, UnchangedKeeps DEF vars, tableVars, IInv, DataInv
  <2> QED BY <1>4, <2>1 DEF vars, IInv, ProcInv, SystemInv, SmbInv, RestInv,
                            PreexistingKept, osVars, smbVars, envVars
<1> QED BY <1>1, <1>2, <1>3, <1>4, LeaseExpiresKeeps, CrashKeeps DEF Next

\* The strengthening that every reachable state satisfies.
THEOREM ServiceInvariant == Spec => []IInv
BY InitIInv, NextIInv, PTL DEF Spec

\* Tables, accounts, configurations and the handlers' locals keep their types.
THEOREM ServiceTyped == Spec => []TypeOK
<1>1. IInv => TypeOK
  BY DEF IInv, TypeOK, ProcInv, SafeJob, DataInv, StoreInv, SystemInv, SmbInv, RestInv
<1> QED BY <1>1, ServiceInvariant, PTL

\* No interleaving of grants with deletions leaves a permission without its
\* user or its volume, and none makes two of one: the checks SetPermission
\* makes too early are backed by the schema.
THEOREM ServiceReferentialIntegrity == Spec => []ReferentialIntegrity
<1>1. IInv => ReferentialIntegrity
  BY DEF IInv, DataInv, StoreInv
<1> QED BY <1>1, ServiceInvariant, PTL

\* DeleteUser, CreateTemporaryUser and the cleanup never delete an account
\* that was there before: adopted accounts stay adopted through every race.
THEOREM ServicePreexistingKept == Spec => []PreexistingKept
<1>1. IInv => PreexistingKept
  BY DEF IInv, SystemInv
<1> QED BY <1>1, ServiceInvariant, PTL
=============================================================================
