-------------------------------- MODULE Store --------------------------------
(***************************************************************************)
(* The SQLite database of the controller (internal/database and            *)
(* internal/repository), one operator per SQL statement.  The pool holds   *)
(* one connection and the code opens a transaction only for the system     *)
(* settings, so a statement is the unit of atomicity and nothing larger.   *)
(*                                                                         *)
(* A table is a set of rows.  Columns that decide nothing (display names,  *)
(* comments, browseable, timestamps) are left out, and so are the share    *)
(* name and path of a volume: a volume is known by its id, and a rejected  *)
(* duplicate is one of the ways its INSERT or UPDATE may fail.             *)
(***************************************************************************)
EXTENDS Naturals

CONSTANTS
  Name,         \* the user names in play
  Setting,      \* the values of the [global] settings in play
  MaxUsers,     \* bound: user ids ever issued
  MaxVolumes    \* bound: volume ids ever issued

ASSUME BoundsAssumption == MaxUsers \in Nat /\ MaxVolumes \in Nat

VARIABLES users, volumes, perms, settings,
          nextUser, nextVolume    \* the AUTOINCREMENT counters

tableVars == <<users, volumes, perms, settings, nextUser, nextVolume>>

UserId == 1 .. MaxUsers
VolumeId == 1 .. MaxVolumes
Access == {"none", "read", "readwrite"}
Lease == {"permanent", "running", "expired"}

UserRow == [id : UserId, name : Name, enabled : BOOLEAN,
            lease : Lease, created : BOOLEAN]
VolumeRow == [id : VolumeId, guest : BOOLEAN, enabled : BOOLEAN]
PermissionRow == [user : UserId, volume : VolumeId, access : Access]

\* A row of the join that applyConfig renders.
Grant == [name : Name, volume : VolumeId, access : {"read", "readwrite"}]

StoreTypeOK ==
  /\ users \subseteq UserRow
  /\ volumes \subseteq VolumeRow
  /\ perms \subseteq PermissionRow
  /\ settings \in Setting
  /\ nextUser \in 1 .. MaxUsers + 1
  /\ nextVolume \in 1 .. MaxVolumes + 1

-----------------------------------------------------------------------------
(* Queries *)

HasUser(id) == \E u \in users : u.id = id
HasVolume(id) == \E v \in volumes : v.id = id

EnabledVolumes == {v \in volumes : v.enabled}
ExpiredTemporary == {u \in users : u.lease = "expired"}

\* Mutant: without the filter on enabled users.
ForConfigAnyUser ==
  {g \in Grant : \E p \in perms :
      /\ p.volume = g.volume /\ p.access = g.access
      /\ \E u \in users : u.id = p.user /\ u.name = g.name
      /\ \E v \in volumes : v.id = p.volume /\ v.enabled}

\* The join of PermissionRepo.ForConfig: only enabled users on enabled
\* volumes, and never a row whose access is "none".
ForConfig ==
  {g \in Grant : \E p \in perms :
      /\ p.volume = g.volume /\ p.access = g.access
      /\ \E u \in users : u.id = p.user /\ u.name = g.name /\ u.enabled
      /\ \E v \in volumes : v.id = p.volume /\ v.enabled}

-----------------------------------------------------------------------------
(* Statements.  Each says what becomes of every table. *)

\* username is UNIQUE; the id is the next of the AUTOINCREMENT counter.
CanInsertUser(n) == nextUser \in UserId /\ \A u \in users : u.name # n

InsertUser(n, lease, created) ==
  /\ CanInsertUser(n)
  /\ users' = users \cup {[id |-> nextUser, name |-> n, enabled |-> TRUE,
                           lease |-> lease, created |-> created]}
  /\ nextUser' = nextUser + 1
  /\ UNCHANGED <<volumes, perms, settings, nextVolume>>

\* UPDATE ... WHERE id: no row, no effect, no error.
SetEnabled(id, on) ==
  /\ users' = {IF u.id = id THEN [u EXCEPT !.enabled = on] ELSE u : u \in users}
  /\ UNCHANGED <<volumes, perms, settings, nextUser, nextVolume>>

\* Mutant: no cascade.
DeleteUserRowOnly(id) ==
  /\ users' = {u \in users : u.id # id}
  /\ UNCHANGED <<volumes, perms, settings, nextUser, nextVolume>>

\* ON DELETE CASCADE removes the permissions with the user or the volume.
DeleteUserRow(id) ==
  /\ users' = {u \in users : u.id # id}
  /\ perms' = {p \in perms : p.user # id}
  /\ UNCHANGED <<volumes, settings, nextUser, nextVolume>>

CanInsertVolume == nextVolume \in VolumeId

\* Mutant: the id of the row to come.
InsertVolumeNextId(guest) ==
  /\ CanInsertVolume
  /\ volumes' = volumes \cup {[id |-> nextVolume + 1, guest |-> guest, enabled |-> TRUE]}
  /\ nextVolume' = nextVolume + 1
  /\ UNCHANGED <<users, perms, settings, nextUser>>

InsertVolume(guest) ==
  /\ CanInsertVolume
  /\ volumes' = volumes \cup {[id |-> nextVolume, guest |-> guest, enabled |-> TRUE]}
  /\ nextVolume' = nextVolume + 1
  /\ UNCHANGED <<users, perms, settings, nextUser>>

UpdateVolumeRow(id, guest, on) ==
  /\ volumes' = {IF v.id = id THEN [id |-> id, guest |-> guest, enabled |-> on]
                             ELSE v : v \in volumes}
  /\ UNCHANGED <<users, perms, settings, nextUser, nextVolume>>

DeleteVolumeRow(id) ==
  /\ volumes' = {v \in volumes : v.id # id}
  /\ perms' = {p \in perms : p.volume # id}
  /\ UNCHANGED <<users, settings, nextUser, nextVolume>>

\* Mutant: foreign_keys = OFF.
CanUpsertAlways(uid, vid) == uid # 0 /\ vid # 0

\* REFERENCES with foreign_keys = ON: both parents must exist.
CanUpsert(uid, vid) == HasUser(uid) /\ HasVolume(vid)

Upsert(uid, vid, access) ==
  /\ CanUpsert(uid, vid)
  /\ perms' = {p \in perms : ~(p.user = uid /\ p.volume = vid)}
                \cup {[user |-> uid, volume |-> vid, access |-> access]}
  /\ UNCHANGED <<users, volumes, settings, nextUser, nextVolume>>

DeletePerm(uid, vid) ==
  /\ perms' = {p \in perms : ~(p.user = uid /\ p.volume = vid)}
  /\ UNCHANGED <<users, volumes, settings, nextUser, nextVolume>>

\* The one transaction of the code: all the settings at once.
UpdateSettingsRows(s) ==
  /\ settings' = s
  /\ UNCHANGED <<users, volumes, perms, nextUser, nextVolume>>

-----------------------------------------------------------------------------
(* What the constraints of the schema give the service. *)

\* A permission always names a user and a volume that exist, and there is at
\* most one per pair: the schema's foreign keys, cascades and UNIQUE, against
\* grants that race the deletion of either parent.
ReferentialIntegrity ==
  /\ \A p \in perms : HasUser(p.user) /\ HasVolume(p.volume)
  /\ \A p, q \in perms : p.user = q.user /\ p.volume = q.volume => p = q

\* Ids and names identify users, and an id is never issued twice: work begun
\* for a deleted row cannot reach a later one.
KeysUnique ==
  /\ \A u, w \in users : u.id = w.id \/ u.name = w.name => u = w
  /\ \A v, w \in volumes : v.id = w.id => v = w
  /\ \A u \in users : u.id < nextUser
  /\ \A v \in volumes : v.id < nextVolume
=============================================================================
