# A formal model of SMB Controller

TLA+ modules that model the controller, TLC configurations that check them on
small instances, and theorems that TLAPS proves for every instance. The
reference is the Go code; the line numbers below are those of the repository.

## 1. The system

SMB Controller is one Go process that runs as root. It keeps the description of
a Samba server in SQLite and makes the machine agree with it: it creates Linux
accounts, sets Samba passwords, repairs the permissions of shared directories,
writes `smb.conf` from the database and reloads `smbd`.

| Component | State it keeps | Operations | Talks to |
|---|---|---|---|
| SMB service (`internal/service/smb_service.go`) | a mutex, `mu` | create, update, delete, repair volumes; create, update, enable, delete users; temporary users; single and bulk permissions; cleanup; `applyConfig` | repositories, executor, generator |
| System service (`internal/service/system_service.go`) | none | reload, restart, update settings | `applyConfig`, executor |
| Database and repositories (`internal/database`, `internal/repository`) | the tables | one SQL statement per method; one transaction, for the settings | SQLite through a pool of one connection |
| Executor (`internal/smb/executor.go`) | none of its own: the accounts and Samba's database | `useradd`, `usermod`, `userdel`, `smbpasswd`, permission walks, reload, restart | the operating system |
| Configuration generator (`internal/smb/generator.go`) | a mutex, `smb.conf`, the temporary file, the backups | render, write | the file system, `testparm` |
| Administrator setup (`internal/service/admin_service.go`) | the `admins` table, the flag `initialized` | one-time setup, authentication | repositories |
| Session store (`internal/session/session.go`) | a map of sessions under an `RWMutex` | create, get, delete, cleanup | handlers, middleware, its own goroutine |
| HTTP layer (`internal/handler`) | none | checks the origin and the session, decodes a request, calls one operation, encodes the answer | services, session store, a reverse proxy in front |
| Process (`main.go`) | none | start-up repair, two cleanup goroutines, shutdown | all |
| Environment detector, validation, configuration, web page | none that matters here | read, check | |

`net/http` runs every request in a goroutine of its own, and two more goroutines
clean up expired temporary users and expired sessions. What they share is the
database, the operating system, `smb.conf`, the two mutexes and the session map.

### What is hard about it

* **Four stores, no transaction.** One operation changes a table, the Linux
  accounts, Samba's database and `smb.conf`, in an order of its own, and any step
  may fail. No order is undone when a later step fails.
* **A mutex that only some take.** `SetPermission`, `BulkSetPermissions`, the
  repairs and the cleanup hold `SMBService.mu`; the operations on volumes, users
  and settings, which read the same tables and write the same file, do not.
* **Read, then act.** `applyConfig` reads three times and writes later; grants
  check their user and volume before they insert; the cleanup works through a list.
* **Crashes.** Nothing re-applies the configuration at start-up.
* **Names with a second's resolution**, one temporary file for all writers.
* **A check long before the act** in the setup, with bcrypt in between.
* **A session judged after the lock is released.**
* **A tree that changes while it is walked.** The repair of a share takes thousands
  of system calls, tolerates errors below the root, and ends with two runs of
  `setfacl`; clients create, move and delete all the while.
* **Who is speaking?** The origin check and the cookie ask for the address a request
  names, believe forwarding headers when it counts as local, and take that from an
  address that another middleware rewrites first. Which page sent the request, its
  `Origin` header, nobody asks.

### What makes each component correct

* Service: when nothing is running and nothing has failed, `smbd` lets in exactly
  whom the tables say; `smbd` never keeps an older file than the one on disk
  without someone owing it a reload; it is never taken to a configuration the tables
  have already left; accounts that were there before are never
  deleted; every user has an account; expired users go; every request ends.
* Store: no permission without its user and volume, whatever races.
* Generator: the file is replaced whole, by what `testparm` accepted of that very
  call, or not at all; what is replaced is backed up; backups stay bounded.
* Executor: after a repair that reports success, everything in the share belongs to
  the managed group and is open to it, and so is what is created from then on.
* Setup: never closed with nobody able to log in; a late call changes nothing; it
  can always be finished.
* HTTP layer: a request that names no configured address neither sets up nor logs in;
  from a configured address both can be done, on every way to the server the code
  provides for; the cookie is Secure exactly over HTTPS.
* Sessions: a session that was logged out is refused; nobody is logged out by
  accident; expired sessions are removed.

## 2. The modules

| Module | Models | Notes |
|---|---|---|
| `Store` | the tables of the service | one operator per query or statement |
| `Render` | `smb.conf` as a value, and what Samba makes of it | extends `Store` |
| `Enforcement` | what the controller promises as a whole | abstract specification |
| `SmbService` | SMB service, system service, the executor's commands, the cleanup goroutine | extends `Render`, implements `Enforcement` |
| `ConfFile` | what `Generator.Write` promises | abstract specification |
| `ConfGenerator` | `Generator.Write`, step by step | implements `ConfFile` |
| `ShareWalk` | the repair of a share's permissions among clients at work | |
| `AdminSetup` | `AdminService.Init` | |
| `RequestOrigin` | the middleware's rules for origins and for Secure | pure operators |
| `HttpGate` | origin check, setup and login, for any request | extends `AdminSetup`, `RequestOrigin` |
| `SessionStore` | `session.Store` | |
| `MC*` | the small values TLC needs | constants only |
| `SmbServiceProofs` | the tables' statements and `DescribedExact`; types, integrity, pre-existing accounts | |
| `SmbControlProofs` | the structure of the handlers; `MutexHeld`, `ReloadOwed` | extends the one before |
| `SmbEnforcementProofs` | the service implements `Enforcement`; `Enforced`, `RegeneratesOnChange` | extends the one before |
| `SmbAccountsProofs` | `UsersHaveAccounts`, `FlagsAgree` | extends the one before |
| `ConfGeneratorProofs`, `ShareWalkProofs`, `HttpGateProofs`, `SessionStoreProofs` | the theorems of those modules | |

### Store

A table is a set of rows. The pool holds one connection (`database.go:17`) and
the code opens a transaction only for the settings, so a statement is atomic and
nothing larger is. The operators contain what the schema does by itself: UNIQUE
names, AUTOINCREMENT ids that are never used again, foreign keys that refuse a
grant, cascades that remove one. `ForConfig` is the join of
`PermissionRepo.ForConfig`, with its three filters. Display names, comments,
share names and paths are left out. A refused duplicate of a share name is one of
the ways in which an INSERT fails.

### Render

`Section` is the loop of `applyConfig` over the enabled volumes: who is valid, who
writes, who reads, and whether nobody is let in. `Admits` and `LetsWrite` say what
`smbd` does with a section and are the only thing taken from Samba; without a list
of valid users Samba admits everybody, which is why the deny flag exists. The
template's text is not modelled, its meaning is. `Exact(c)` says that a
configuration is what the tables say.

### SmbService

Each process of the model is a goroutine. A *handler* is the sequence of steps a
goroutine has still to take (`prog`), with its local variables in `job` and what
`applyConfig` has read in `snap`. A step is one statement, one command or one file
operation, and one action of the module. So the order of the code can be read off
the handlers:

```
DeleteUserSteps == <<"getUser", "pdbDelete", "deleteUser">> \o ApplySteps \o <<"userdel">>
```

`Abort` is an early return: it drops the rest of the handler, except for the
deferred Unlock when the mutex is held. `ApplyFailed` is an error of `applyConfig`
and differs from `Abort` in one caller: `CreateTemporaryUser` discards the result
of its `SetPermission` and goes on with the next volume (`smb_service.go:306-308`).
`Fail` lets a statement or a command fail at any step; errors the code ignores
(`_ =`) are branches of the steps themselves. `Crash` empties every handler, frees
the mutex and changes nothing that is stored.

| Action | Code |
|---|---|
| `CreateVolume` ... `UpdateSettings` | a request begins: its handler and locals |
| `Lock`, `Unlock` | `s.mu.Lock()`, `defer s.mu.Unlock()` |
| `Lookup`, `UserAdd`, `AddToGroup`, `SetPassword`, `SetFlag`, `PdbDelete`, `UserDel` | `executor.go` 43-84, 302-312 |
| `InsertUserStep`, `SetEnabledStep`, `DeleteUserStep`, `InsertVolumeStep`, ... | the repository call, then `Store`'s statement |
| `SelectExpired`, `NextExpired`, `Tick` | `CleanupExpiredTemporaryUsers`, and the ticker of `main.go:130` |
| `PermUser`, `PermVolume`, `PermRow`, `BulkCheck`, `BulkPair`, `NextGrant` | the permission operations |
| `ReadTables`, `EnsureShares`, `WriteConf`, `ReloadSmbd` | `applyConfig` (531-587) |
| `AtStart` | the goroutine of the start-up repair (`main.go:72-85`), again after a crash |
| `LeaseExpires` | a temporary user's time runs out |

`applied` is bookkeeping of the model: how the last `applyConfig` ended, or
"failed" when a handler left a change behind without one. It is what lets
`Enforced` speak only of what the code has acknowledged.

### Enforcement

Two variables, what the database describes (`desired`) and what `smbd` runs with
(`enforced`). `Change` changes the first; `Apply` makes the second equal to the first.
Lagging behind is allowed, going to anything but the present description is not.
`SmbService` implements it with `desired <- Described`, the configuration rendered
from the tables as they are, and `enforced <- loaded`: `NeverStale`. It can hold only
where no two handlers are between reading and reloading at a time. `stale_overwrite`
shows what happens elsewhere.

### ConfFile and ConfGenerator

`ConfFile` has a file and, for each writer, the version it was asked to write. A
call replaces the file by that version if `testparm` accepts it, or gives up.
`ConfGenerator` has the mutex, the temporary file that all calls share, the
backups with the second in their names, and a truncated state (`Partial`) for
files that `os.WriteFile` has opened and not yet filled. A call may fail at each
step, the process may crash, and the wall clock may be set back. Then the fresh backup
has a name that sorts before older ones, and `BackedUp` says exactly when the pruning
may take it. `SmbService` uses the result: its `WriteConf`
replaces the file in one step, which is what `Refines` justifies.

### ShareWalk

One tree of a few names, a `parent` for each, and attributes: whether the managed
group owns the entry, setgid, what the group and what everybody else may do, the
access ACL and the default ACL. A walker is a goroutine in `EnsureSharePathPermissions`
(`deep`) or `EnsureShareTopPermissions`. It keeps paths, as the code does, and a path
leads somewhere only while each name on it is where it was. It makes up to three passes:

| Action | Code (`executor.go`) |
|---|---|
| `Begin` | `managedGroupGID`, `Lstat` of the root |
| `Visit` | the callback of `WalkDir` for one entry: errors, `entry.Info`, symbolic links |
| `Chown`, `Chmod` | `applyShareEntryPerms`; the mode written is the mode read in `Visit` |
| `List` | `WalkDir` (and `setfacl -R`) reads a directory, once |
| `Acl`, `NextPass` | `applyManagedACL`: the access ACL, then the default ACL, errors logged only |
| `Create`, `Delete`, `Move`, `ClientChmod` | clients, through `smbd` or on the machine (external) |

`WalkDir` visits names in order and depth first; the model allows any order in which a
directory comes before what is in it. `touched` excuses entries on which an error was
tolerated and entries that were moved, `narrowed` those whose owner or creator shut
the group out: what the walk does not promise for them is in the definitions of
`Repaired` and `DefaultsEverywhere`.

### RequestOrigin and HttpGate

`RequestOrigin` has one operator per function of `middleware.go`, on requests as
records of what arrives: the connection, `Host`, the two kinds of forwarding headers,
and the client's address in `X-Real-IP` or `X-Forwarded-For`, which `RealIP`
(`main.go:93`) takes from anyone. `HttpGate` puts them in front of the setup and the
login. A *deployment* is the address a browser asks for, one request, and the configured
`server.domain`. Nothing relates the request to the address: that is a hypothesis of the
properties that need it (`Told`), and `UnaddressedInert` does without.

What the check is worth follows from what it reads. It compares the address that a
request names (`Addressed`) with the configured ones; a request of some other page to a
configured address names that address and is served, and a request is local
(`FromLoopback`) if its headers say so. `UnaddressedInert` says no more than the code
does: a request that names no configured address achieves nothing.

### AdminSetup and SessionStore

`AdminSetup` has the check of the flag and of the name, the INSERT and the flag's UPDATE
as steps of their own; `NoName` stands for the names that `validateUsername` refuses. `SessionStore` splits `Get` where it releases the lock, and the sweep where it
has read the clock and not yet taken the lock. `late` and `stale` are bookkeeping:
whether a call began after setup, or a request after the logout of its session.

## 3. The runs

| Run | Instance | Checks | Shows |
|---|---|---|---|
| `serial` | 1 administrator, all operations, statements and commands fail, crashes, 3 requests | `TypeOK`, `Enforced`, `NeverStale` | operations one after the other enforce what the tables say, also after failures, once an apply succeeds, and `smbd` never goes back |
| `concurrent` | 2 administrators, all operations, all faults, 2 requests | `ReferentialIntegrity`, `PreexistingKept`, `ReloadOwed`, `MutexHeld`, `RegeneratesOnChange` | what survives without the mutex; a handler that has changed a row goes on to `applyConfig`, except at the places that `Leaves` names |
| `cleanup` | 1 administrator, the cleanup and the start-up repair, no faults, 2 requests | `UsersHaveAccounts`, `FlagsAgree` | the cleanup and a request do not take each other's accounts or flags |
| `locked` | 2 administrators and the cleanup, operations that hold the mutex throughout, failing commands, fairness | `Enforced`, `NeverStale`, `RegeneratesOnChange`, `RequestsFinish`, `ExpiredRemoved` | with the mutex, configurations never overtake each other; nobody waits for ever; expired users go; the failures the cleanup ignores cost it no apply |
| `generator` | 2 writers, 3 versions one of which `testparm` rejects, failures, a crash, a clock set back, fairness | `TypeOK`, `Refines`, `ReplacedIsBackedUp`, `BackupsBounded`, `WritesReturn` | the file changes whole and is backed up first |
| `walk` | 1 walker, a tree of 4 names with a link, a file open to others and a free name, 2 steps of clients, 1 failing call | `TypeOK`, `Repaired`, `DefaultsEverywhere` | a repair that reports success has repaired, whatever clients do meanwhile |
| `setup` | 2 clients, 3 names and one that is refused, 1 fault, 23 deployments, fairness | `GateTypeOK`, `NeverLockedOut`, `SetupCloses`, `UnaddressedInert`, `SetupCompletes` | setup is safe against failures, does nothing for requests that name no configured address, and can be finished from a configured one |
| `session` | 2 requests, 2 sessions, 4 ticks, fairness | `TypeOK`, `LoggedOutStaysOut`, `LiveSessionsKept`, `ExpiredSwept` | lookups, logouts and sweeps do not disturb each other |
| `stale_overwrite` | 2 administrators, no faults | `Enforced` fails | finding 1 |
| `orphan_account` | 1 administrator and the cleanup, no faults | `NoOrphanAccount` fails | finding 2 |
| `walk_narrows` | 1 walker, nobody else, nothing fails | `NeverNarrows` fails | finding 3 |
| `proxied` | one HTTPS proxy that tells the client's address | `CookieSecure` fails | finding 4 |

Deadlock is checked in `session`. The other systems really may stop: their requests,
walks and setups are bounded.

**Bounds.** `MaxRequests` bounds requests. A request inserts one row at most and
`RoomAssumption` gives ids for all of them, so the id bounds never bite. The
starting databases contain a user with a grant and, where the cleanup is of
interest, a temporary user with a grant whose time may run out, so two requests are
enough for every pair of operations to meet. Two workers are enough for one
operation to overtake another; workers are symmetric and `concurrent` uses the
symmetry. One name belongs to a machine account
that was there before (`bob`), so that adoption happens. Three requests in `serial`
let an operation fail, a second repair it and a third depend on both.
`SessionStore` gets four ticks for a lifetime of one, so a session can begin late,
expire and be swept. In `ConfGenerator` one backup is kept and the clock has three
seconds and may be set back once, so that names collide and sort the wrong way. In
`ShareWalk` two steps of clients (`MaxClient`) and one failing call (`MaxErrors`) let
an entry be deleted and replaced, or moved into or out of a directory that was read
already; three client steps with one walker and two walkers with one client step were
checked as well and differ in running time only. In `HttpGate` one fault can burn one
name in each of two calls; there are three names. Its deployments have default ports
left out and written out, odd ports, an IPv6 literal, names without a scheme, an
address that is not configured and one of the same name under another scheme; the
requests come directly and by proxies on the same machine and on another one, with
either kind of forwarding header or none, and with the client's address told, told as
local, or not told.

**Fairness.** `WF(Run(p))`: commands return and statements finish. The code sets no
time limit on commands, so this is an assumption about the machine. It includes
`Fail`, so a step may end in an error. `SF(Lock(p))`, `SF(Acquire(w))`: a
`sync.Mutex` in starvation mode is handed to the waiter, so a goroutine that waits
gets it if it is freed again and again. `WF(Tick)`: `time.Ticker`. In `HttpGate`,
`WF(SetupStep(c))`: statements finish; `SF(Post(c, n))` for each name: the
administrator who is refused tries other names; `WF(Login)`: and logs in afterwards. No
fairness is given to requests of the service, to clocks that move leases, to walks, or
to failures.

**Mutants.** Definitions marked "Mutant" state the code with a plausible mistake in
it (a dropped filter, a missing Unlock, an order swapped). They are not part of any
specification. PROJECT.json pairs each property of each passing run with the mutant
that breaks it.

## 4. The findings

1. **The older snapshot wins** (`smb_service.go:531`). Design.md:1279 asks for a
   mutex around the regeneration of `smb.conf`. Two administrators work at once, one
   of them on a volume or a user: the configuration from the earlier reading can be
   written last, both requests succeed, and `smbd` keeps enforcing what the tables no
   longer say until something else is applied.
2. **An account without a user** (`smb_service.go:380`). `DeleteUser` calls `userdel`
   last and returns before it when `applyConfig` fails, after the row is gone. No
   command needs to be at fault: if the cleanup deletes an account between the
   snapshot and `usermod`, the apply fails.
3. **A repair that takes permissions away** (`executor.go:156`). The comment at
   `executor.go:258` promises that existing bits are never removed and that files
   opened more widely are left alone. That is true of chown and chmod; the `setfacl`
   that follows has `o::---` and takes everything from others.
4. **An HTTPS login without Secure** (`main.go:93`). `admin_handler.go:52` says that
   Secure is set for HTTPS behind a trusted loopback proxy. If that proxy also sends
   X-Real-IP or X-Forwarded-For, as most do by default, `RealIP` has replaced the
   loopback address before `isSecureRequest` looks at it. By the same step such a proxy
   makes a configured HTTPS origin be refused, which is why `SetupCompletes` asks for a
   proxy that keeps the address to itself.

Smaller disagreements, which no run is spent on: `BulkSetPermissions` returns at the
first row that fails, with the earlier rows changed and no new configuration
(`smb_service.go:486`, Design.md:314); two writes within a second share one backup
(`generator.go:123`, Design.md:891); two overlapping setups with different names both
succeed (`admin_service.go:22`); `middleware_test.go:66-76` says that forwarded headers of
clients on other machines must not be trusted and tests the function by itself, while in
the server `RealIP` runs first and the connection's address is not what is asked.

`UsersHaveAccounts` is checked and proved against the cleanup only. With a second
administrator the code does not promise it: a `DeleteUser` whose `userdel` is still to
come and a `CreateUser` of the same name, which finds the account, end with a row
without an account. The hazard is listed at `smb_service.go:384`.

## 5. The theorems

TLC looks at small instances; the theorems hold for every set of names, volumes,
processes, settings and every number of requests. They rest on the named
assumptions of the modules, which TLC evaluates in every run: names come from two
disjoint pools and pre-existing accounts from the first (`NameAssumption`), the
owner of a free mutex is not a process (`ProcAssumption`), there are ids enough
(`RoomAssumption`, `BoundsAssumption`), and the database at start is one the schema
admits, does not claim a pre-existing account and gives leases to temporary users only
(`DatabaseAssumption`); likewise `GeneratorAssumption`, `WalkAssumption`,
`SetupAssumption` and `SessionAssumption`. What a theorem needs
beyond them stands in its statement.

* **`DescribedExact`** (`SmbServiceProofs`): the configuration rendered from one reading of
  the tables is `Exact`. The argument goes user by user: the grants of the join are
  those of an enabled user on an enabled volume, and the deny flag stands for the
  empty list. What remains of `Enforced` is *which* reading is in force.
* **`ServiceTyped`**, **`ServiceReferentialIntegrity`**, **`ServicePreexistingKept`**
  (`SmbServiceProofs`) follow from one inductive invariant, `IInv`, in five parts.
  `DataInv` is what the schema keeps: a lemma per statement.
  `PreexistingKept` alone is not inductive, because `userdel` trusts a local variable
  read long before. The invariant adds that no row, no handler's locals and no row on
  the cleanup's list calls an account "created" that was there before (`Safe`). The
  flag is born in `UserAdd` only, where the account did not exist, and copied
  afterwards. Types need one more thing: a step that takes the account's name from the
  request is only in handlers that have one (`Fits`).
* **`ServiceMutexHeld`**, **`ServiceReloadOwed`** (`SmbControlProofs`). Both are about
  the sequences of steps that handlers are made of, so the invariant `ControlInv` is
  too: in what a process has still to do, every `unlock` has its `lock` before it unless
  the process is inside its section now (`WellBracketed`), the steps of `applyConfig`
  follow each other to the reload (`Chained`), and a process is inside its section
  exactly while it owns the mutex. The module's first lemmas show that taking off the first step,
  unwinding and putting an inner operation in front keep a sequence so. From there
  `OwedInv` says that whenever the file and what `smbd` has loaded differ and nothing
  has failed, some process is *at* its reload: a write is followed by it at once, and a
  second write by another process only adds a second reload.
* **`ServiceEnforces`** (`SmbEnforcementProofs`): `Spec => NeverStale` under the
  assumption `Exclusion`, that there is one process, or that only operations are
  requested that hold the mutex throughout (`setPermission`, `bulk`, `repair`), by any
  number of workers, with the cleanup and the repair at start. The assumption is needed:
  `stale_overwrite` refutes the conclusion without it. `LockingInv` turns it into what
  the steps need, that a process past its Lock is alone; `FreshInv` says that what the
  one at work has read is what the tables still say, reading by reading, and that the
  file it is about to load describes them. Then the reload maps to `Apply` and every
  other step to `Change` or a stutter.
* **`ServiceEnforced`** (`SmbEnforcementProofs`): `Spec => []Enforced`, again under
  `Exclusion` and for any faults, crashes included. `NeverStale` says that a reload is
  never wrong, not that there is one. `EnforcedInv` adds that: while nothing has failed
  (`applied = "ok"`), `smbd` lags behind the tables only if some process has changed
  something and has its reload still to come. A handler that returns early after a
  change sets `applied` to "failed", so the invariant has to follow the flag `changed`
  from each change to the reload, and it has to know that no handler which changes rows
  is begun without one (`FollowsInv`, a fact about the sequences alone). Together with
  `FreshInv`, which makes the reload one of the present tables, and `DescribedExact`,
  a quiet system is exact.
* **`ServiceGetsToApply`** (`SmbEnforcementProofs`): `Spec => RegeneratesOnChange` without
  a hypothesis: any processes, operations and faults. A handler that has changed a row
  may take other steps before the first reading of `applyConfig`; at each of them the
  apply stays ahead or the step is at a place in `Leaves`, which are those at which the
  code really gives up (for instance `smb_service.go:398-399` in the cleanup, 328 in
  `UpdateUser`, 486 in `BulkSetPermissions`). What the theorem excludes is every other loss: a
  failing `smbpasswd -x` or `userdel`, whose errors the cleanup ignores, a wait, or
  another process. `PromptInv` carries the argument: from a change on, only the steps
  in `Between` lie ahead of the apply (`Direct`), and in `CreateTemporaryUser`, which is told
  apart by its lease, also the checks of an inner grant; a change is made only by steps
  in front of such a way (`Prompt`). The run `concurrent` shows the
  same for requests on an instance with every fault, and `locked` for the cleanup with
  failing commands; a statement that fails in the cleanup is met by the theorem only.
* **`ServiceUsersHaveAccounts`** (`SmbAccountsProofs`): with one administrator at a time
  (`OneAdministrator`: at most one worker), any number of cleanups and repairs at start,
  any faults and crashes, every user of the table has an account. A handler learns a
  name at its `getUser` or from its list of expired rows, and takes the account away
  many steps later, so `AccountInv` follows the names. What stands before a `userdel` in
  a handler is an erasure in order (`Ordered`); while it is on its way, a row of that
  name is the very row it is to delete, and once that is deleted there is none
  (`ErasedBy`). Nobody else works on the name of a user being created, and from the
  password on its account is there (`Reserved`). That this holds against the cleanup
  rests on names: cleanups work only on temporary users' names, all of which have been
  handed out (`RowNames`, `JobNames`), and `CreateTemporaryUser` makes up one that has
  not. A second administrator breaks
  `Reserved` and the property; see the end of section 4.
* **`ServiceFlagsAgree`** (`SmbAccountsProofs`): with one administrator at a time and
  nothing that fails, any number of cleanups and repairs at start, a quiet system has
  every row of the table in Samba's database, enabled or not as the row says. Both
  hypotheses are needed. `UpdateUser` changes the row and then the flag,
  `SetUserEnabled` the flag and then the row, so a statement, a command or a crash
  that cuts one of them in two leaves the two apart, and so do two such requests for
  the same user. While handlers are at work the two may disagree; `FlagInv` says on
  whose account. Either somebody is to delete the row (`Doomed`), or a handler has
  changed one of the two and has the other still to change (`Due`), and then what it
  has changed is what it was asked for; if neither is the case, they agree. That a
  handler stays on the user it has looked up, though the cleanup may delete that user
  at any moment, needs facts about ids and names: a row of the id it has is a row of
  the name it has (`Found`, `Rowed`), as ids are never used again. That the row of a
  *new* user finds its flag on needs facts about what deleted users leave behind:
  `smbpasswd -a` keeps the flag of an entry that exists, so no entry that is off may
  be left under a name an administrator could type again. Entries that are off and
  have no row bear names of temporary users that have been handed out (`NotOff`):
  `DeleteUser` removes the entry before the row (`Cleared`), and only requests that
  overlap a cleanup can put one back and switch it off. The invariant was
  model-checked on the instance of `cleanup` first.
* **`GeneratorTyped`**, **`GeneratorBacksUp`**, **`GeneratorBounded`**,
  **`GeneratorRefines`** (`ConfGeneratorProofs`). The inductive invariant: only the
  holder of the mutex is inside `Write` (`MutualExclusion`); from the check on, the
  temporary file is what this call rendered and `testparm` has accepted it before the
  rename (`TmpIsOwn`); a call has a version until it has replaced the file
  (`AskedWhileCalled`); names of backups differ and there are finitely many
  (`NamesDiffer`); past the pruning the current version is among them or its name is
  older than as many as are kept (`BackupsReady`). `Call` maps to `Ask`, `Rename` to
  `Replace`, `Return` to `GiveUp` or a stutter, all else to a stutter.
* **`WalkTyped`**, **`WalkRepairs`**, **`WalkDefaults`** (`ShareWalkProofs`), for any tree,
  any number of walkers, client steps and tolerated errors. The inductive invariant says
  where the entries are that a repair has not reached: all of those it still owes lie
  below its front, the entry at hand and those it has listed and not visited
  (`GroupAhead`; `DefaultAhead` for the default ACL), an entry at its chmod has been
  given to the group or will be visited again (`OwnedFirst`), and the parents form a
  tree without cycles (`IsTree`), which makes what is below one child disjoint from its
  siblings. A client that creates an entry in front of the walk leaves it to the walk;
  behind it, the directory's setgid bit and default ACL have done the work already; and
  what it moves is excused. So when the front is empty nothing is owed. That the share is a tree at start is in `WalkAssumption`.
* **`GateTyped`**, **`NobodyLockedOut`**, **`SetupStaysClosed`** (`HttpGateProofs`): the
  flag is set only by a call whose row is in the table, and a late call reads a flag
  that is never taken back.
* **`UnaddressedStayOut`** (`HttpGateProofs`): once `server.domain` holds an origin, a
  request that names none of its origins has no effect, for every request that can
  arrive. The argument is about addresses: what the server makes of a request
  (`RequestOriginOf`) is the canonical form of an address that the request names
  (`OriginAddressed`), and two addresses that `Canonical` makes equal are one origin, whatever
  default ports are written out (`CanonicalTells`); so the request is not served
  (`UnaddressedRefused`), and only served ones begin anything. The theorem does not say
  which page sent the request, and it takes a request for local when the server does.
* **`SessionTyped`**, **`LogoutFinal`**, **`SessionsKept`** (`SessionStoreProofs`): a
  session is stored once, so after a logout nothing brings its id back (`StoredOnce`,
  `MapKeyed`), and what a lookup has read still describes the session if it is still
  there (`ReadHolds`), so a drop decided on it is right when it comes.

Only model-checked: the properties under fairness (`RequestsFinish`, `ExpiredRemoved`,
`WritesReturn`, `SetupCompletes`, `ExpiredSwept`), because the prover handles neither
fairness nor ENABLED. Every invariant that a passing run checks is a theorem. The
expected violations are counterexamples of small instances and need no proof.

## 6. What is not modelled

* Passwords as values. That `CreateUser` of an existing name changes that user's
  Samba password before the INSERT is refused is listed as a hazard only.
* An empty `backup_dir`, which turns backups off; directories that cannot be made.
* Owner bits, execute bits and masks beyond what the group and others may do; the
  owner that `inherit owner` gives new files.
* Limits of time: the cleanup's two minutes, which run while it waits for the mutex
  (`main.go:132`), the half hour of the start-up repair, the server's write timeout
  (`main.go:102`). Their effect, a failing statement or a repeated request, is one of
  those the runs have.
* `SmbService` writes `smb.conf` in one step. `GeneratorRefines` justifies that; the two
  are not composed into one state machine, whose product would add only interleavings
  that the generator's mutex rules out.
* Validation of names and paths and the loading of the configuration: pure functions of
  strings, without state, whose refusals end a request or the process before anything
  begins. The aliases SMB2 and SMB3, which rank differently here (`config.go:193`) than
  in Samba, are listed as a hazard.
* The text of the template, listings, status, the environment detector (it reads once
  at start), migration of old databases, the embedded files.
* The web page: to the server its requests are any requests.
