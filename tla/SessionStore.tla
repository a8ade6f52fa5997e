----------------------------- MODULE SessionStore -----------------------------
(***************************************************************************)
(* session.Store: the map of logged-in sessions, as requests look sessions *)
(* up, log in and log out while the cleanup goroutine runs.  The map is    *)
(* guarded by a lock, but Get looks at the session it found after it has   *)
(* released it, and removes an expired one under the lock taken anew.      *)
(***************************************************************************)
EXTENDS Integers

CONSTANTS
  Request,     \* goroutines serving requests
  Id,          \* random session ids: never drawn twice
  TTLHours,    \* session.ttl_hours as configured, here in ticks
  MaxTime,     \* bound: ticks of the clock
  None         \* no id, no session

ASSUME SessionAssumption ==
  TTLHours \in Int /\ MaxTime \in Nat /\ None \notin Id

VARIABLES
  sessions,    \* the map: [id, expires]
  drawn,       \* ids drawn so far
  gone,        \* ids whose logout has been answered
  pc, sid,     \* each request's place and the id of its cookie
  found,       \* the session Get has read: its expiry, or -1
  stale,       \* whether that id was logged out before the request began
  deadline,    \* the time cleanupOnce has read, or -1 between two runs
  now

vars == <<sessions, drawn, gone, pc, sid, found, stale, deadline, now>>

\* NewStore
TTL == IF TTLHours <= 0 THEN 8 ELSE TTLHours

Init ==
  /\ sessions = {} /\ drawn = {} /\ gone = {}
  /\ pc = [r \in Request |-> "idle"]
  /\ sid = [r \in Request |-> None]
  /\ found = [r \in Request |-> -1]
  /\ stale = [r \in Request |-> FALSE]
  /\ deadline = -1 /\ now = 0

Finish(r) ==
  /\ pc' = [pc EXCEPT ![r] = "idle"]
  /\ sid' = [sid EXCEPT ![r] = None]
  /\ found' = [found EXCEPT ![r] = -1]
  /\ stale' = [stale EXCEPT ![r] = FALSE]

Enter(r, place, id) ==
  /\ pc[r] = "idle"
  /\ pc' = [pc EXCEPT ![r] = place]
  /\ sid' = [sid EXCEPT ![r] = id]
  /\ stale' = [stale EXCEPT ![r] = id \in gone]

\* Mutant: a tick too long.
CreateLonger(r) == \E id \in Id \ drawn :
  /\ Enter(r, "store", id)
  /\ drawn' = drawn \cup {id}
  /\ found' = [found EXCEPT ![r] = now + TTL + 1]
  /\ UNCHANGED <<sessions, gone, deadline, now>>

\* Create: the id and the expiry first, ...
Create(r) == \E id \in Id \ drawn :
  /\ Enter(r, "store", id)
  /\ drawn' = drawn \cup {id}
  /\ found' = [found EXCEPT ![r] = now + TTL]
  /\ UNCHANGED <<sessions, gone, deadline, now>>

\* ... then the map, under the lock.
Store(r) ==
  /\ pc[r] = "store"
  /\ sessions' = sessions \cup {[id |-> sid[r], expires |-> found[r]]}
  /\ Finish(r)
  /\ UNCHANGED <<drawn, gone, deadline, now>>

\* A browser knows the cookies of the logins that were answered.
Known == {id \in drawn : \A r \in Request : pc[r] = "store" => sid[r] # id}

Get(r) == \E id \in Known :
  /\ Enter(r, "get", id)
  /\ UNCHANGED <<sessions, drawn, gone, found, deadline, now>>

Read(r) ==
  /\ pc[r] = "get"
  /\ \/ \E s \in sessions : /\ s.id = sid[r]
                            /\ found' = [found EXCEPT ![r] = s.expires]
                            /\ pc' = [pc EXCEPT ![r] = "judge"]
                            /\ UNCHANGED <<sid, stale>>
     \/ /\ \A s \in sessions : s.id # sid[r]
        /\ Finish(r)
  /\ UNCHANGED <<sessions, drawn, gone, deadline, now>>

\* time.Now().After(ExpiresAt)
Judge(r) ==
  /\ pc[r] = "judge"
  /\ pc' = [pc EXCEPT ![r] = IF now > found[r] THEN "drop" ELSE "accepted"]
  /\ UNCHANGED <<sessions, drawn, gone, sid, found, stale, deadline, now>>

\* The request that was let in is served.
Serve(r) ==
  /\ pc[r] = "accepted"
  /\ Finish(r)
  /\ UNCHANGED <<sessions, drawn, gone, deadline, now>>

Drop(r) ==
  /\ pc[r] = "drop"
  /\ sessions' = {s \in sessions : s.id # sid[r]}
  /\ Finish(r)
  /\ UNCHANGED <<drawn, gone, deadline, now>>

\* Logout: Delete, and the answer.
Logout(r) == \E id \in Known :
  /\ Enter(r, "delete", id)
  /\ UNCHANGED <<sessions, drawn, gone, found, deadline, now>>

\* Mutant: only the cookie is cleared.
DeleteCookie(r) ==
  /\ pc[r] = "delete"
  /\ gone' = gone \cup {sid[r]}
  /\ Finish(r)
  /\ UNCHANGED <<sessions, drawn, deadline, now>>

Delete(r) ==
  /\ pc[r] = "delete"
  /\ sessions' = {s \in sessions : s.id # sid[r]}
  /\ gone' = gone \cup {sid[r]}
  /\ Finish(r)
  /\ UNCHANGED <<drawn, deadline, now>>

\* cleanupOnce reads the clock before it waits for the lock.
CleanupBegins ==
  /\ deadline = -1
  /\ deadline' = now
  /\ UNCHANGED <<sessions, drawn, gone, pc, sid, found, stale, now>>

\* Mutants: the last tick of a session's life is cut off; the clock is read once.
CleanupSweepsEarly ==
  /\ deadline # -1
  /\ sessions' = {s \in sessions : ~(deadline >= s.expires)}
  /\ deadline' = -1
  /\ UNCHANGED <<drawn, gone, pc, sid, found, stale, now>>

CleanupSweepsFrozen ==
  /\ deadline # -1
  /\ sessions' = {s \in sessions : ~(deadline > s.expires)}
  /\ UNCHANGED <<drawn, gone, pc, sid, found, stale, deadline, now>>

CleanupSweeps ==
  /\ deadline # -1
  /\ sessions' = {s \in sessions : ~(deadline > s.expires)}
  /\ deadline' = -1
  /\ UNCHANGED <<drawn, gone, pc, sid, found, stale, now>>

Tick ==
  /\ now < MaxTime
  /\ now' = now + 1
  /\ UNCHANGED <<sessions, drawn, gone, pc, sid, found, stale, deadline>>

Next ==
  \/ \E r \in Request : \/ Create(r) \/ Store(r) \/ Get(r) \/ Read(r) \/ Judge(r)
                        \/ Serve(r) \/ Drop(r) \/ Logout(r) \/ Delete(r)
  \/ CleanupBegins \/ CleanupSweeps \/ Tick

Spec == Init /\ [][Next]_vars

\* The clock and the ticker of the cleanup go on.
FairSpec ==
  /\ Spec
  /\ WF_vars(Tick) /\ WF_vars(CleanupBegins) /\ WF_vars(CleanupSweeps)

-----------------------------------------------------------------------------
(* Properties *)

Session == [id : Id, expires : 0 .. MaxTime + TTL]

TypeOK ==
  /\ sessions \subseteq Session
  /\ drawn \subseteq Id /\ gone \subseteq drawn
  /\ pc \in [Request -> {"idle", "store", "get", "judge", "accepted", "drop", "delete"}]
  /\ sid \in [Request -> Id \cup {None}]
  /\ found \in [Request -> -1 .. MaxTime + TTL]
  /\ stale \in [Request -> BOOLEAN]
  /\ deadline \in -1 .. MaxTime /\ now \in 0 .. MaxTime

\* A request that begins after its session was logged out is refused,
\* whatever lookups, logins and cleanups overlap with the logout.
LoggedOutStaysOut == \A r \in Request : stale[r] => pc[r] # "accepted"

\* Of one step: who leaves the map, and why.
StaysUnlessDue == \A s \in sessions :
  s \notin sessions' =>
    now > s.expires \/ \E r \in Request : pc[r] = "delete" /\ sid[r] = s.id

\* Nobody is logged out by accident: a session leaves the map because it has
\* expired, or because a logout of that very session is under way.
LiveSessionsKept == [][StaysUnlessDue]_vars

\* A session that has expired leaves the map, though nobody asks for it again.
ExpiredSwept ==
  \A id \in Id : (\E s \in sessions : s.id = id /\ now > s.expires)
                   ~> (\A s \in sessions : s.id # id)
=============================================================================
