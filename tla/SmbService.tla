------------------------------ MODULE SmbService ------------------------------
(***************************************************************************)
(* SMBService: the operations of the web API on volumes, users,            *)
(* permissions and settings, and the background cleanup of expired         *)
(* temporary users, as they interleave on the four things they change: the *)
(* SQLite tables, the Linux accounts, Samba's password database and        *)
(* smb.conf.                                                               *)
(*                                                                         *)
(* Each operation is a handler: the sequence of steps it has still to do.  *)
(* A step is one SQL statement, one command or one file operation, and     *)
(* nothing holds two steps together except the service's mutex, which only *)
(* some of the handlers take.                                              *)
(***************************************************************************)
EXTENDS Render, Sequences

CONSTANTS
  Worker,        \* goroutines serving API requests
  Janitor,       \* the cleanup goroutine: one, or none in a run without it
  Starter,       \* the start-up repair's goroutine: one, or none
  PlainName,     \* names an administrator types
  TempName,      \* names the random generator yields
  NoName,        \* no name yet
  NoProc,        \* the owner of a free mutex
  Preexisting,   \* Linux accounts the machine had before the controller
  Ops,           \* operations requested
  Faults,        \* what may go wrong: "db", "cmd", "crash"
  MaxRequests,   \* bound: requests served
  Users0, Volumes0, Perms0, Setting0,   \* the database found at start
  NextUser0, NextVolume0                \* and its AUTOINCREMENT counters

Proc == Worker \cup Janitor \cup Starter

ASSUME NameAssumption ==
  /\ PlainName \cup TempName = Name
  /\ PlainName \cap TempName = {}
  /\ NoName \notin Name
  /\ Preexisting \subseteq PlainName

ASSUME ProcAssumption ==
  /\ NoProc \notin Proc
  /\ Worker \cap Janitor = {} /\ Starter \cap (Worker \cup Janitor) = {}

\* A request inserts one row at most: the id bounds never bite.
ASSUME RoomAssumption ==
  /\ MaxRequests \in Nat
  /\ NextUser0 \in 1 .. MaxUsers + 1 /\ NextUser0 + MaxRequests <= MaxUsers + 1
  /\ NextVolume0 \in 1 .. MaxVolumes + 1 /\ NextVolume0 + MaxRequests <= MaxVolumes + 1

\* The database at start is one the schema admits and earlier runs of the
\* controller left: it marks no pre-existing account as created, and only
\* CreateTemporaryUser gives a row a lease, under a name that it makes up.
ASSUME DatabaseAssumption ==
  /\ \A u \in Users0 : u.id < NextUser0
  /\ \A v \in Volumes0 : v.id < NextVolume0
  /\ Users0 \subseteq UserRow /\ Volumes0 \subseteq VolumeRow
  /\ Perms0 \subseteq PermissionRow /\ Setting0 \in Setting
  /\ \A u, w \in Users0 : u.id = w.id \/ u.name = w.name => u = w
  /\ \A v, w \in Volumes0 : v.id = w.id => v = w
  /\ \A p \in Perms0 : /\ \E u \in Users0 : u.id = p.user
                       /\ \E v \in Volumes0 : v.id = p.volume
  /\ \A p, q \in Perms0 : p.user = q.user /\ p.volume = q.volume => p = q
  /\ \A u \in Users0 : u.created => u.name \notin Preexisting
  /\ \A u \in Users0 : u.lease # "permanent" => u.name \in TempName

VARIABLES
  accounts,      \* Linux accounts
  passdb,        \* Samba's password database
  conf,          \* smb.conf on disk
  loaded,        \* the configuration smbd runs with
  mu,            \* SMBService.mu
  prog,          \* what each process has still to do
  job,           \* the local variables of its handler
  snap,          \* what its applyConfig has read so far
  issued,        \* temporary names handed out
  started,       \* requests so far
  applied        \* how the last applyConfig, or change left without one, ended

osVars == <<accounts, passdb>>
smbVars == <<conf, loaded>>
envVars == <<issued, started>>
vars == <<tableVars, osVars, smbVars, mu, prog, job, snap, envVars, applied>>

Pair == (0 .. MaxUsers) \X VolumeId
Job == [uid : 0 .. MaxUsers, vid : 0 .. MaxVolumes, name : Name \cup {NoName},
        created : BOOLEAN, temp : BOOLEAN, on : BOOLEAN, guest : BOOLEAN,
        access : Access, setting : Setting, todo : SUBSET Pair,
        rows : SUBSET UserRow, changed : BOOLEAN]
NoJob == [uid |-> 0, vid |-> 0, name |-> NoName, created |-> FALSE,
          temp |-> FALSE, on |-> FALSE, guest |-> FALSE, access |-> "none",
          setting |-> Setting0, todo |-> {}, rows |-> {}, changed |-> FALSE]

Snapshot == [settings : Setting, volumes : SUBSET VolumeRow, grants : SUBSET Grant]
NoSnap == [settings |-> Setting0, volumes |-> {}, grants |-> {}]

-----------------------------------------------------------------------------
(* The handlers, as the steps they take. *)

\* Mutant: smbd is reloaded before the file is replaced.
ApplyStepsReloadFirst == <<"readSettings", "readVolumes", "readGrants", "ensureShares",
                           "reload", "writeConf">>

ApplySteps == <<"readSettings", "readVolumes", "readGrants", "ensureShares",
                "writeConf", "reload">>

\* Mutant: the row goes before the directory.
CreateVolumeStepsRowFirst == <<"insertVolume", "walk">> \o ApplySteps
CreateVolumeSteps == <<"walk", "insertVolume">> \o ApplySteps
UpdateVolumeSteps == <<"getVolume", "walk", "updateVolume", "reread">> \o ApplySteps
DeleteVolumeSteps == <<"deleteVolume">> \o ApplySteps
RepairVolumeSteps == <<"lock", "getVolume", "walk", "unlock">>
RepairAllSteps    == <<"lock", "walkAll", "unlock">>

CreateUserSteps     == <<"lookup", "group", "password", "insertUser">> \o ApplySteps
\* Mutant: Samba's flag forgotten.
UpdateUserStepsNoFlag == <<"getUser", "setEnabled", "reread">> \o ApplySteps

UpdateUserSteps     == <<"getUser", "setEnabled", "reread", "flag">> \o ApplySteps
SetUserEnabledSteps == <<"getUser", "flag", "setEnabled">> \o ApplySteps
ChangePasswordSteps == <<"getUser", "password">>
DeleteUserSteps     == <<"getUser", "pdbDelete", "deleteUser">> \o ApplySteps
                         \o <<"userdel">>

\* Mutant: without the mutex.
SetPermissionStepsUnlocked == <<"permUser", "permVolume", "permRow">> \o ApplySteps

SetPermissionSteps == <<"lock", "permUser", "permVolume", "permRow">>
                         \o ApplySteps \o <<"unlock">>
BulkSteps          == <<"lock", "bulkCheck", "bulkPair">> \o ApplySteps \o <<"unlock">>

\* Mutant: the mutex taken by both the outer and the inner operation.
CreateTemporaryUserStepsLocked(grants) ==
  <<"lock", "lookup", "group", "password", "insertUser">>
     \o (IF grants THEN <<"nextGrant">> ELSE ApplySteps) \o <<"unlock">>

\* With volumes to grant, one SetPermission each; otherwise a bare applyConfig.
CreateTemporaryUserSteps(grants) ==
  <<"lookup", "group", "password", "insertUser">>
     \o IF grants THEN <<"nextGrant">> ELSE ApplySteps

CleanupSteps == <<"lock", "selectExpired", "unlock">>
\* Mutant: the account goes before the row.
ExpiredStepsAccountFirst == <<"pdbDelete", "userdel", "deleteUser">>

ExpiredSteps == <<"pdbDelete", "deleteUser", "userdel">>

ReloadSteps   == ApplySteps
RestartSteps  == ApplySteps \o <<"restart">>
SettingsSteps == <<"setSettings">> \o ApplySteps

DbSteps == {"getVolume", "insertVolume", "updateVolume", "deleteVolume",
            "getUser", "insertUser", "setEnabled", "deleteUser",
            "permUser", "permVolume", "permRow", "bulkCheck", "bulkPair",
            "selectExpired", "setSettings", "reread",
            "readSettings", "readVolumes", "readGrants", "reload"}
CmdSteps == {"walk", "useradd", "group", "password", "flag", "pdbDelete", "userdel",
             "permUser", "permVolume", "bulkCheck",
             "ensureShares", "writeConf", "reload", "restart"}
Step == DbSteps \cup CmdSteps \cup {"lock", "unlock", "lookup", "nextGrant",
                                    "nextExpired", "walkAll"}
ApplyStep == {"readSettings", "readVolumes", "readGrants", "ensureShares",
              "writeConf", "reload"}

-----------------------------------------------------------------------------
At(p, s) == prog[p] # <<>> /\ Head(prog[p]) = s

\* Go on with steps and the locals j; a handler that returns forgets them.
Goto(p, steps, j) ==
  /\ prog' = [prog EXCEPT ![p] = steps]
  /\ job' = [job EXCEPT ![p] = IF steps = <<>> THEN NoJob ELSE j]

Continue(p, j) == Goto(p, Tail(prog[p]), j)
Done(p) == Continue(p, job[p])
Changed(p) == Continue(p, [job[p] EXCEPT !.changed = TRUE])

\* Mutant: no deferred Unlock.
UnwindLocked(p) == <<>>

\* "return err": the deferred Unlock runs when the mutex is held.
Unwind(p) == IF mu = p THEN <<"unlock">> ELSE <<>>

Abort(p) ==
  /\ Goto(p, Unwind(p), job[p])
  /\ applied' = IF job[p].changed THEN "failed" ELSE applied
  /\ UNCHANGED <<tableVars, osVars, smbVars, mu, snap, envVars>>

\* applyConfig returns an error.  Every caller gives up, except that
\* CreateTemporaryUser discards the result of its SetPermission and goes on.
ApplyFailed(p) ==
  /\ Goto(p, Unwind(p) \o IF job[p].temp /\ mu = p THEN <<"nextGrant">> ELSE <<>>,
          job[p])
  /\ snap' = [snap EXCEPT ![p] = NoSnap]
  /\ applied' = "failed"
  /\ UNCHANGED <<tableVars, osVars, mu, envVars>>

\* Frames: a step that only moves on, works on the tables, or on the system.
Moves == UNCHANGED <<tableVars, osVars, smbVars, mu, snap, envVars, applied>>
OnTables == UNCHANGED <<osVars, smbVars, mu, snap, envVars, applied>>
OnSystem == UNCHANGED <<tableVars, smbVars, mu, snap, envVars, applied>>

-----------------------------------------------------------------------------
(* Requests.  Ids are those some administrator has seen in a list; the row *)
(* may be gone since.                                                      *)

KnownUsers == 1 .. nextUser - 1
KnownVolumes == 1 .. nextVolume - 1

Begin(p, op, steps, j) ==
  /\ op \in Ops
  /\ prog[p] = <<>>
  /\ started < MaxRequests
  /\ Goto(p, steps, j)
  /\ started' = started + 1
  /\ UNCHANGED <<tableVars, osVars, smbVars, mu, snap, applied>>

Serve(p, op, steps, j) == Begin(p, op, steps, j) /\ UNCHANGED issued

CreateVolume(p) == \E g \in BOOLEAN :
  Serve(p, "createVolume", CreateVolumeSteps, [NoJob EXCEPT !.guest = g])

UpdateVolume(p) == \E id \in KnownVolumes, g, on \in BOOLEAN :
  Serve(p, "updateVolume", UpdateVolumeSteps,
        [NoJob EXCEPT !.vid = id, !.guest = g, !.on = on])

DeleteVolume(p) == \E id \in KnownVolumes :
  Serve(p, "deleteVolume", DeleteVolumeSteps, [NoJob EXCEPT !.vid = id])

RepairVolumePermissions(p) == \E id \in KnownVolumes :
  Serve(p, "repair", RepairVolumeSteps, [NoJob EXCEPT !.vid = id])

CreateUser(p) == \E n \in PlainName :
  Serve(p, "createUser", CreateUserSteps, [NoJob EXCEPT !.name = n])

CreateTemporaryUser(p) ==
  \E n \in TempName \ issued, vs \in SUBSET KnownVolumes, a \in Access :
    LET grants == vs # {} /\ a # "none" IN
    /\ Begin(p, "createTemporary", CreateTemporaryUserSteps(grants),
             [NoJob EXCEPT !.name = n, !.temp = TRUE, !.access = a,
                           !.todo = IF grants THEN {0} \X vs ELSE {}])
    /\ issued' = issued \cup {n}

UpdateUser(p) == \E id \in KnownUsers, on \in BOOLEAN :
  Serve(p, "updateUser", UpdateUserSteps, [NoJob EXCEPT !.uid = id, !.on = on])

SetUserEnabled(p) == \E id \in KnownUsers, on \in BOOLEAN :
  Serve(p, "setUserEnabled", SetUserEnabledSteps, [NoJob EXCEPT !.uid = id, !.on = on])

ChangeUserPassword(p) == \E id \in KnownUsers :
  Serve(p, "password", ChangePasswordSteps, [NoJob EXCEPT !.uid = id])

DeleteUser(p) == \E id \in KnownUsers :
  Serve(p, "deleteUser", DeleteUserSteps, [NoJob EXCEPT !.uid = id])

\* Removing a permission is granting "none".
SetPermission(p) == \E uid \in KnownUsers, vid \in KnownVolumes, a \in Access :
  Serve(p, "setPermission", SetPermissionSteps,
        [NoJob EXCEPT !.uid = uid, !.vid = vid, !.access = a])

BulkSetPermissions(p) ==
  \E us \in SUBSET KnownUsers \ {{}}, vs \in SUBSET KnownVolumes \ {{}}, a \in Access :
    Serve(p, "bulk", BulkSteps, [NoJob EXCEPT !.todo = us \X vs, !.access = a])

Reload(p) == Serve(p, "reload", ReloadSteps, NoJob)
Restart(p) == Serve(p, "restart", RestartSteps, NoJob)

UpdateSettings(p) == \E s \in Setting :
  Serve(p, "settings", SettingsSteps, [NoJob EXCEPT !.setting = s])

Request(p) ==
  \/ CreateVolume(p) \/ UpdateVolume(p) \/ DeleteVolume(p)
  \/ RepairVolumePermissions(p)
  \/ CreateUser(p) \/ CreateTemporaryUser(p) \/ UpdateUser(p)
  \/ SetUserEnabled(p) \/ ChangeUserPassword(p) \/ DeleteUser(p)
  \/ SetPermission(p) \/ BulkSetPermissions(p)
  \/ Reload(p) \/ Restart(p) \/ UpdateSettings(p)

\* The ticker of the cleanup goroutine.
Tick(p) ==
  /\ prog[p] = <<>>
  /\ Goto(p, CleanupSteps, NoJob)
  /\ Moves

-----------------------------------------------------------------------------
(* Steps on the mutex *)

Lock(p) ==
  /\ At(p, "lock") /\ mu = NoProc
  /\ mu' = p
  /\ Done(p)
  /\ UNCHANGED <<tableVars, osVars, smbVars, snap, envVars, applied>>

Unlock(p) ==
  /\ At(p, "unlock")
  /\ mu' = NoProc
  /\ Done(p)
  /\ UNCHANGED <<tableVars, osVars, smbVars, snap, envVars, applied>>

-----------------------------------------------------------------------------
(* Steps on volumes.  What a walk does to the files of a share is not      *)
(* modelled here; that it can fail is.                                     *)

GetVolume(p) ==
  /\ At(p, "getVolume")
  /\ IF HasVolume(job[p].vid) THEN Done(p) /\ Moves ELSE Abort(p)

Walk(p) ==
  /\ At(p, "walk") \/ At(p, "walkAll") \/ At(p, "reread")
  /\ Done(p)
  /\ Moves

InsertVolumeStep(p) ==
  /\ At(p, "insertVolume")
  /\ InsertVolume(job[p].guest)
  /\ Changed(p)
  /\ OnTables

UpdateVolumeStep(p) ==
  /\ At(p, "updateVolume")
  /\ UpdateVolumeRow(job[p].vid, job[p].guest, job[p].on)
  /\ Changed(p)
  /\ OnTables

DeleteVolumeStep(p) ==
  /\ At(p, "deleteVolume")
  /\ DeleteVolumeRow(job[p].vid)
  /\ Changed(p)
  /\ OnTables

-----------------------------------------------------------------------------
(* Steps on users: the table, the Linux accounts, Samba's database         *)

GetUser(p) ==
  /\ At(p, "getUser")
  /\ IF HasUser(job[p].uid)
     THEN /\ \E u \in users :
               /\ u.id = job[p].uid
               /\ Continue(p, [job[p] EXCEPT !.name = u.name, !.created = u.created])
          /\ Moves
     ELSE Abort(p)

\* Mutant: an account that exists counts as created.
LookupCreates(p) ==
  /\ At(p, "lookup")
  /\ Goto(p, (IF job[p].name \in accounts THEN <<>> ELSE <<"useradd">>) \o Tail(prog[p]),
          [job[p] EXCEPT !.created = TRUE])
  /\ Moves

\* CreateSystemUser: an account that exists is adopted, not created.  A
\* lookup that fails counts as one that finds nothing.
Lookup(p) ==
  /\ At(p, "lookup")
  /\ \/ job[p].name \in accounts /\ Done(p)
     \/ /\ job[p].name \notin accounts \/ "cmd" \in Faults
        /\ Goto(p, <<"useradd">> \o Tail(prog[p]), job[p])
  /\ Moves

UserAdd(p) ==
  /\ At(p, "useradd")
  /\ IF job[p].name \in accounts
     THEN Abort(p)
     ELSE /\ accounts' = accounts \cup {job[p].name}
          /\ Continue(p, [job[p] EXCEPT !.created = TRUE])
          /\ UNCHANGED passdb
          /\ OnSystem

\* usermod (external) needs the account.  CreateUser runs it twice in a row.
AddToGroup(p) ==
  /\ At(p, "group")
  /\ IF job[p].name \in accounts THEN Done(p) /\ Moves ELSE Abort(p)

\* smbpasswd -a (external) needs the account, adds an entry that is on, and
\* leaves the flag of an entry that exists.
SetPassword(p) ==
  /\ At(p, "password")
  /\ IF job[p].name \in accounts
     THEN /\ passdb' = [passdb EXCEPT ![job[p].name] = IF @ = "none" THEN "on" ELSE @]
          /\ Done(p)
          /\ UNCHANGED accounts
          /\ OnSystem
     ELSE Abort(p)

InsertUserStep(p) ==
  /\ At(p, "insertUser")
  /\ IF CanInsertUser(job[p].name)
     THEN /\ InsertUser(job[p].name, IF job[p].temp THEN "running" ELSE "permanent",
                        job[p].created)
          /\ Continue(p, [job[p] EXCEPT !.uid = nextUser, !.changed = TRUE])
          /\ OnTables
     ELSE Abort(p)

SetEnabledStep(p) ==
  /\ At(p, "setEnabled")
  /\ SetEnabled(job[p].uid, job[p].on)
  /\ Changed(p)
  /\ OnTables

\* smbpasswd -e or -d (external) needs the entry.
SetFlag(p) ==
  /\ At(p, "flag")
  /\ IF passdb[job[p].name] # "none"
     THEN /\ passdb' = [passdb EXCEPT ![job[p].name] = IF job[p].on THEN "on" ELSE "off"]
          /\ Done(p)
          /\ UNCHANGED accounts
          /\ OnSystem
     ELSE Abort(p)

\* smbpasswd -x: its failure is ignored.
PdbDelete(p) ==
  /\ At(p, "pdbDelete")
  /\ \/ passdb' = [passdb EXCEPT ![job[p].name] = "none"]
     \/ "cmd" \in Faults /\ UNCHANGED passdb
  /\ Done(p)
  /\ UNCHANGED accounts
  /\ OnSystem

DeleteUserStep(p) ==
  /\ At(p, "deleteUser")
  /\ DeleteUserRow(job[p].uid)
  /\ Changed(p)
  /\ OnTables

\* Mutant: its failure ends the handler.
UserDelAborts(p) ==
  /\ At(p, "userdel")
  /\ \/ /\ accounts' = IF job[p].created THEN accounts \ {job[p].name} ELSE accounts
        /\ Done(p) /\ UNCHANGED passdb /\ OnSystem
     \/ "cmd" \in Faults /\ Abort(p)

\* userdel, only of an account the controller created.  It is the last step
\* of DeleteUser, and the cleanup ignores its failure.
UserDel(p) ==
  /\ At(p, "userdel")
  /\ \/ accounts' = IF job[p].created THEN accounts \ {job[p].name} ELSE accounts
     \/ "cmd" \in Faults /\ UNCHANGED accounts
  /\ Done(p)
  /\ UNCHANGED passdb
  /\ OnSystem

-----------------------------------------------------------------------------
(* Steps of the cleanup *)

\* applyConfig follows only when something had expired.
SelectExpired(p) ==
  /\ At(p, "selectExpired")
  /\ Goto(p, (IF ExpiredTemporary = {} THEN <<>> ELSE <<"nextExpired">> \o ApplySteps)
               \o Tail(prog[p]),
          [job[p] EXCEPT !.rows = ExpiredTemporary])
  /\ Moves

NextExpired(p) ==
  /\ At(p, "nextExpired")
  /\ \/ job[p].rows = {} /\ Done(p)
     \/ \E u \in job[p].rows :
          Goto(p, ExpiredSteps \o prog[p],
               [job[p] EXCEPT !.rows = @ \ {u}, !.uid = u.id,
                              !.name = u.name, !.created = u.created])
  /\ Moves

-----------------------------------------------------------------------------
(* Steps on permissions *)

\* Granting needs the Linux account (usermod); removing does not.
PermUser(p) ==
  /\ At(p, "permUser")
  /\ IF \E u \in users : /\ u.id = job[p].uid
                         /\ job[p].access = "none" \/ u.name \in accounts
     THEN Done(p) /\ Moves
     ELSE Abort(p)

PermVolume(p) ==
  /\ At(p, "permVolume")
  /\ IF HasVolume(job[p].vid) THEN Done(p) /\ Moves ELSE Abort(p)

PermRow(p) ==
  /\ At(p, "permRow")
  /\ \/ /\ job[p].access = "none"
        /\ DeletePerm(job[p].uid, job[p].vid)
        /\ Changed(p)
        /\ OnTables
     \/ /\ job[p].access # "none"
        /\ IF CanUpsert(job[p].uid, job[p].vid)
           THEN /\ Upsert(job[p].uid, job[p].vid, job[p].access)
                /\ Changed(p)
                /\ OnTables
           ELSE Abort(p)

\* Every user and every volume is checked before the first row changes.
BulkCheck(p) ==
  /\ At(p, "bulkCheck")
  /\ IF \A t \in job[p].todo :
          /\ \E u \in users : u.id = t[1] /\ u.name \in accounts
          /\ HasVolume(t[2])
     THEN Done(p) /\ Moves
     ELSE Abort(p)

\* The two nested loops: all the volumes of a user, then the next user.
BulkPair(p) ==
  /\ At(p, "bulkPair")
  /\ \/ job[p].todo = {} /\ Done(p) /\ Moves
     \/ \E t \in job[p].todo :
          /\ t[1] = job[p].uid \/ \A r \in job[p].todo : r[1] # job[p].uid
          /\ IF job[p].access = "none"
             THEN DeletePerm(t[1], t[2])
             ELSE CanUpsert(t[1], t[2]) /\ Upsert(t[1], t[2], job[p].access)
          /\ Goto(p, prog[p], [job[p] EXCEPT !.todo = @ \ {t}, !.uid = t[1],
                                             !.changed = @ \/ perms' # perms])
          /\ OnTables
     \/ /\ job[p].access # "none"
        /\ \E t \in job[p].todo :
             /\ t[1] = job[p].uid \/ \A r \in job[p].todo : r[1] # job[p].uid
             /\ ~CanUpsert(t[1], t[2])
        /\ Abort(p)

\* CreateTemporaryUser: the next of its volumes.
NextGrant(p) ==
  /\ At(p, "nextGrant")
  /\ \/ job[p].todo = {} /\ Done(p)
     \/ \E t \in job[p].todo :
          Goto(p, SetPermissionSteps \o prog[p],
               [job[p] EXCEPT !.todo = @ \ {t}, !.vid = t[2]])
  /\ Moves

SetSettings(p) ==
  /\ At(p, "setSettings")
  /\ UpdateSettingsRows(job[p].setting)
  /\ Changed(p)
  /\ OnTables

-----------------------------------------------------------------------------
(* applyConfig: three reads, the shares, the file, the reload *)

ReadTables(p) ==
  /\ \/ At(p, "readSettings") /\ snap' = [snap EXCEPT ![p].settings = settings]
     \/ At(p, "readVolumes")  /\ snap' = [snap EXCEPT ![p].volumes = EnabledVolumes]
     \/ At(p, "readGrants")   /\ snap' = [snap EXCEPT ![p].grants = ForConfig]
  /\ Done(p)
  /\ UNCHANGED <<tableVars, osVars, smbVars, mu, envVars, applied>>

\* Every user who is to be named in a share is put in the managed group.
EnsureShares(p) ==
  /\ At(p, "ensureShares")
  /\ IF \A v \in snap[p].volumes, g \in snap[p].grants :
          g.volume = v.id => g.name \in accounts
     THEN Done(p) /\ Moves
     ELSE ApplyFailed(p) /\ UNCHANGED smbVars

\* Generator.Write replaces the file whole, or leaves it.
WriteConf(p) ==
  /\ At(p, "writeConf")
  /\ conf' = RenderConfig(snap[p].settings, snap[p].volumes, snap[p].grants)
  /\ snap' = [snap EXCEPT ![p] = NoSnap]
  /\ Done(p)
  /\ UNCHANGED <<tableVars, osVars, loaded, mu, envVars, applied>>

\* smbd reads whatever file is there; then last_reload_at is stored.
ReloadSmbd(p) ==
  /\ At(p, "reload")
  /\ loaded' = conf
  /\ UNCHANGED conf
  /\ \/ /\ Done(p)
        /\ applied' = "ok"
        /\ UNCHANGED <<tableVars, osVars, mu, snap, envVars>>
     \/ "db" \in Faults /\ ApplyFailed(p)

RestartSmbd(p) ==
  /\ At(p, "restart")
  /\ loaded' = conf
  /\ Done(p)
  /\ UNCHANGED <<tableVars, osVars, conf, mu, snap, envVars, applied>>

-----------------------------------------------------------------------------
(* Failures *)

\* A statement fails (the client has gone and its context is cancelled, the
\* disk is full) or a command does, and the handler returns.
Fail(p) ==
  /\ \/ "db" \in Faults /\ \E s \in DbSteps \ {"reload"} : At(p, s)
     \/ "cmd" \in Faults /\ \E s \in CmdSteps \ {"pdbDelete", "userdel"} : At(p, s)
  /\ IF \E s \in ApplyStep : At(p, s)
     THEN ApplyFailed(p) /\ UNCHANGED smbVars
     ELSE Abort(p)

\* A process that starts repairs all the shares; it re-applies nothing.
AtStart == [p \in Proc |-> IF p \in Starter THEN RepairAllSteps ELSE <<>>]

\* The process dies, or its 30 seconds of shutdown run out, and systemd
\* starts it again.
Crash ==
  /\ "crash" \in Faults
  /\ \E p \in Proc : prog[p] # <<>>
  /\ prog' = AtStart
  /\ job' = [p \in Proc |-> NoJob]
  /\ snap' = [p \in Proc |-> NoSnap]
  /\ mu' = NoProc
  /\ applied' = "failed"
  /\ UNCHANGED <<tableVars, osVars, smbVars, envVars>>

\* A temporary user's time runs out, which only the cleanup takes notice of.
LeaseExpires ==
  /\ Janitor # {}
  /\ \E u \in users :
       /\ u.lease = "running"
       /\ users' = (users \ {u}) \cup {[u EXCEPT !.lease = "expired"]}
  /\ UNCHANGED <<volumes, perms, settings, nextUser, nextVolume,
                 prog, job, osVars, smbVars, mu, snap, envVars, applied>>

-----------------------------------------------------------------------------
Init ==
  /\ users = Users0 /\ volumes = Volumes0 /\ perms = Perms0 /\ settings = Setting0
  /\ nextUser = NextUser0 /\ nextVolume = NextVolume0
  /\ accounts = Preexisting \cup {u.name : u \in Users0}
  /\ passdb = [n \in Name |->
                 IF \E u \in Users0 : u.name = n /\ u.enabled THEN "on"
                 ELSE IF \E u \in Users0 : u.name = n THEN "off" ELSE "none"]
  /\ conf = Described /\ loaded = conf
  /\ mu = NoProc
  /\ prog = AtStart
  /\ job = [p \in Proc |-> NoJob]
  /\ snap = [p \in Proc |-> NoSnap]
  /\ issued = {u.name : u \in Users0} \cap TempName
  /\ started = 0
  /\ applied = "ok"

Run(p) ==
  \/ Unlock(p)
  \/ GetVolume(p) \/ Walk(p)
  \/ InsertVolumeStep(p) \/ UpdateVolumeStep(p) \/ DeleteVolumeStep(p)
  \/ GetUser(p) \/ Lookup(p) \/ UserAdd(p) \/ AddToGroup(p) \/ SetPassword(p)
  \/ InsertUserStep(p) \/ SetEnabledStep(p) \/ SetFlag(p)
  \/ PdbDelete(p) \/ DeleteUserStep(p) \/ UserDel(p)
  \/ SelectExpired(p) \/ NextExpired(p)
  \/ PermUser(p) \/ PermVolume(p) \/ PermRow(p)
  \/ BulkCheck(p) \/ BulkPair(p) \/ NextGrant(p) \/ SetSettings(p)
  \/ ReadTables(p) \/ EnsureShares(p) \/ WriteConf(p) \/ ReloadSmbd(p)
  \/ RestartSmbd(p)
  \/ Fail(p)

Next ==
  \/ \E p \in Worker : Request(p)
  \/ \E p \in Janitor : Tick(p)
  \/ \E p \in Proc : Lock(p) \/ Run(p)
  \/ LeaseExpires
  \/ Crash

Spec == Init /\ [][Next]_vars

\* Commands return and statements finish, the ticker ticks, and the Go
\* runtime hands a sync.Mutex to a waiter in the end (starvation mode).
Fairness ==
  /\ \A p \in Proc : WF_vars(Run(p)) /\ SF_vars(Lock(p))
  /\ \A p \in Janitor : WF_vars(Tick(p))

FairSpec == Spec /\ Fairness

-----------------------------------------------------------------------------
(* Properties *)

TypeOK ==
  /\ StoreTypeOK
  /\ accounts \subseteq Name
  /\ passdb \in [Name -> {"none", "on", "off"}]
  /\ conf \in Config /\ loaded \in Config
  /\ mu \in Proc \cup {NoProc}
  /\ prog \in [Proc -> Seq(Step)]
  /\ job \in [Proc -> Job]
  /\ snap \in [Proc -> Snapshot]
  /\ issued \subseteq TempName
  /\ started \in 0 .. MaxRequests
  /\ applied \in {"ok", "failed"}

\* A step the handler of p has still to take.
Will(p, s) == \E i \in 1 .. Len(prog[p]) : prog[p][i] = s

\* Between requests, with no cleanup under way either.
Quiet == \A p \in Proc : prog[p] = <<>>

\* What the controller is for: when nothing is running and nothing has failed
\* since the last applyConfig, smbd shares the enabled volumes, with the
\* settings, and lets in (and lets write) exactly whom the tables say.
Enforced == Quiet /\ applied = "ok" => Exact(loaded)

\* The operations, step by step, implement Enforcement: a reload takes smbd to
\* what the tables describe at that very step, never to a snapshot that they
\* have left, and no step of a handler is both a change and an apply.
Abstract == INSTANCE Enforcement WITH desired <- Described, enforced <- loaded

NeverStale == Abstract!Spec

\* smbd never keeps running an older file than the one on disk, unless the
\* last apply failed or the process that wrote it has still to reload smbd.
ReloadOwed ==
  loaded # conf /\ applied = "ok" =>
    \E p \in Proc : Will(p, "reload")

\* An account the machine had before the controller is never deleted,
\* whatever requests race, fail or are cut off by a crash.
PreexistingKept == Preexisting \subseteq accounts

\* Every SMB user of the database has its Linux account.
UsersHaveAccounts == \A u \in users : u.name \in accounts

\* When no command fails, an account the controller made has its user: no
\* deletion and no cleanup leaves one behind.
NoOrphanAccount ==
  Quiet => \A n \in accounts \ Preexisting : \E u \in users : u.name = n

\* When no command fails, Samba's password database agrees with the users
\* table on who exists and who is enabled.
FlagsAgree ==
  Quiet => \A u \in users : passdb[u.name] = IF u.enabled THEN "on" ELSE "off"

\* Where the code returns between a change of a row and the apply that follows:
\* the process dies; a statement fails as UpdateVolume or UpdateUser reads the row
\* back, as the cleanup deletes the next user, or half-way through
\* BulkSetPermissions; smbpasswd refuses UpdateUser's flag; a grant's user or
\* volume has gone meanwhile; CreateTemporaryUser, its row inserted, is refused
\* one of its grants.
Leaves(p) ==
  \/ Crash
  \/ "db" \in Faults /\ \E s \in {"reread", "deleteUser", "bulkPair"} : At(p, s)
  \/ At(p, "flag") /\ ("cmd" \in Faults \/ passdb[job[p].name] = "none")
  \/ /\ At(p, "bulkPair") /\ job[p].access # "none"
     /\ \E t \in job[p].todo : ~CanUpsert(t[1], t[2])
  \/ job[p].temp /\ \E s \in {"permUser", "permVolume", "permRow"} : At(p, s)

\* A handler that has changed a row goes on until it calls applyConfig, in every
\* operation and whatever fails, except at those places: no other failure, no
\* wait for the mutex and no row that is gone costs a change its apply.
KeepsToApply == \A p \in Proc :
  job[p].changed /\ Will(p, "readSettings") /\ ~At(p, "readSettings")
    => Will(p, "readSettings")' \/ Leaves(p)

RegeneratesOnChange == [][KeepsToApply]_vars

\* At most one process is between its Lock and its Unlock, and it is the
\* owner of the mutex.
MutexHeld ==
  \A p \in Proc :
    (\E i \in 1 .. Len(prog[p]) :
        prog[p][i] = "unlock" /\ \A k \in 1 .. i : prog[p][k] # "lock") <=> mu = p

\* Every request is answered.
RequestsFinish == \A p \in Worker : prog[p] # <<>> ~> prog[p] = <<>>

\* Every temporary user whose time has run out is removed, with its
\* permissions, although commands fail.
ExpiredRemoved ==
  \A id \in UserId :
    (\E u \in users : u.id = id /\ u.lease = "expired")
      ~> ~HasUser(id) /\ \A p \in perms : p.user # id
=============================================================================
