-------------------------- MODULE SessionStoreProofs --------------------------
(***************************************************************************)
(* SessionStore, for any number of requests and sessions and any length of *)
(* life: its types, that a logout is final, and that nobody is logged out  *)
(* by accident.                                                            *)
(***************************************************************************)
EXTENDS SessionStore, TLAPS

\* An id is drawn once: until its session is in the map, no other request has
\* it and no session bears it.
StoredOnce == \A r \in Request : pc[r] = "store" =>
  /\ found[r] >= 0
  /\ sid[r] \notin gone
  /\ \A q \in Request : q # r /\ pc[q] # "idle" => sid[q] # sid[r]
  /\ \A s \in sessions : s.id # sid[r]

\* Ids are keys of the map, and what was logged out is not in it.
MapKeyed ==
  /\ \A s, t \in sessions : s.id = t.id => s = t
  /\ \A s \in sessions : s.id \in drawn \ gone

\* What Get has read stays true of the session while that is in the map.
ReadHolds == \A r \in Request :
  /\ pc[r] # "idle" => sid[r] \in drawn
  /\ stale[r] => pc[r] \in {"get", "delete"} /\ sid[r] \in gone
  /\ pc[r] \in {"judge", "accepted", "drop"} =>
       \A s \in sessions : s.id = sid[r] => s.expires = found[r]
  /\ pc[r] = "drop" => now > found[r]

IInv == TypeOK /\ StoredOnce /\ MapKeyed /\ ReadHolds /\ deadline <= now

-----------------------------------------------------------------------------
LEMMA TTLPositive == TTL \in Nat /\ TTL > 0
BY SessionAssumption DEF TTL

LEMMA InitIInv == Init => IInv
<1> SUFFICES ASSUME Init PROVE IInv
  OBVIOUS
<1>1. TypeOK
  BY TTLPositive, SessionAssumption DEF Init, TypeOK, Session
<1>2. StoredOnce /\ MapKeyed /\ ReadHolds /\ deadline <= now
  BY DEF Init, StoredOnce, MapKeyed, ReadHolds
<1> QED
  BY <1>1, <1>2 DEF IInv

LEMMA CreateKeeps == ASSUME IInv, NEW r \in Request, Create(r) PROVE IInv'
<1> USE TTLPositive, SessionAssumption DEF IInv
<1>1. PICK id \in Id \ drawn :
        /\ Enter(r, "store", id)
        /\ drawn' = drawn \cup {id}
        /\ found' = [found EXCEPT ![r] = now + TTL]
        /\ UNCHANGED <<sessions, gone, deadline, now>>
  BY DEF Create
<1>2. TypeOK'
  BY <1>1 DEF TypeOK, Enter
<1>3. StoredOnce'
  BY <1>1 DEF TypeOK, Enter, StoredOnce, MapKeyed, ReadHolds, Session
<1>4. MapKeyed' /\ ReadHolds' /\ (deadline <= now)'
  BY <1>1 DEF TypeOK, Enter, StoredOnce, MapKeyed, ReadHolds
<1> QED
  BY <1>2, <1>3, <1>4

LEMMA StoreKeeps == ASSUME IInv, NEW r \in Request, Store(r) PROVE IInv'
<1> USE TTLPositive, SessionAssumption DEF IInv, Store, Finish
<1>1. TypeOK'
  BY DEF TypeOK, StoredOnce, ReadHolds, Session
<1>2. StoredOnce' /\ (deadline <= now)'
  BY DEF TypeOK, StoredOnce
<1>3. MapKeyed'
  BY DEF TypeOK, StoredOnce, MapKeyed, ReadHolds
<1>4. ReadHolds'
  BY DEF TypeOK, StoredOnce, ReadHolds
<1> QED
  BY <1>1, <1>2, <1>3, <1>4

\* Get and Logout: a request with a cookie the browser knows.
LEMMA EnterKeeps ==
  ASSUME IInv, NEW r \in Request, Get(r) \/ Logout(r) PROVE IInv'
<1> USE TTLPositive, SessionAssumption DEF IInv
<1>1. PICK id \in Known, place \in {"get", "delete"} :
        /\ Enter(r, place, id)
        /\ UNCHANGED <<sessions, drawn, gone, found, deadline, now>>
  BY DEF Get, Logout
<1>2. id \in drawn /\ \A q \in Request : pc[q] = "store" => sid[q] # id
  BY <1>1 DEF Known
<1>3. TypeOK'
  BY <1>1, <1>2 DEF TypeOK, Enter
<1>4. StoredOnce' /\ MapKeyed' /\ (deadline <= now)'
  BY <1>1, <1>2 DEF TypeOK, Enter, StoredOnce, MapKeyed
<1>5. ReadHolds'
  BY <1>1, <1>2 DEF TypeOK, Enter, ReadHolds
<1> QED
  BY <1>3, <1>4, <1>5

LEMMA ReadKeeps == ASSUME IInv, NEW r \in Request, Read(r) PROVE IInv'
<1> USE TTLPositive, SessionAssumption DEF IInv, Read, Finish
<1>1. TypeOK'
  <2>1. ASSUME NEW s \in sessions,
               found' = [found EXCEPT ![r] = s.expires],
               pc' = [pc EXCEPT ![r] = "judge"], UNCHANGED <<sid, stale>>
        PROVE  TypeOK'
    <3>1. s.expires \in -1 .. MaxTime + TTL
      BY DEF TypeOK, Session
    <3> QED
      BY <2>1, <3>1 DEF TypeOK
  <2>2. CASE Finish(r)
    BY <2>2 DEF TypeOK
  <2> QED
    BY <2>1, <2>2
<1>2. StoredOnce' /\ MapKeyed' /\ (deadline <= now)'
  BY DEF TypeOK, StoredOnce, MapKeyed
<1>3. ReadHolds'
  BY DEF TypeOK, MapKeyed, ReadHolds
<1> QED
  BY <1>1, <1>2, <1>3

LEMMA JudgeKeeps ==
  ASSUME IInv, NEW r \in Request, Judge(r) \/ Serve(r) PROVE IInv'
<1> USE TTLPositive, SessionAssumption DEF IInv, Judge, Serve, Finish
<1>1. TypeOK'
  <2>1. CASE Judge(r)
    <3>1. pc' \in [Request -> {"idle", "store", "get", "judge", "accepted", "drop", "delete"}]
      BY <2>1 DEF TypeOK
    <3> QED
      BY <2>1, <3>1 DEF TypeOK
  <2>2. CASE Serve(r)
    BY <2>2 DEF TypeOK
  <2> QED
    BY <2>1, <2>2
<1>2. StoredOnce' /\ MapKeyed' /\ (deadline <= now)'
  BY DEF TypeOK, StoredOnce, MapKeyed
<1>3. ReadHolds'
  BY DEF TypeOK, ReadHolds
<1> QED
  BY <1>1, <1>2, <1>3

LEMMA DropKeeps == ASSUME IInv, NEW r \in Request, Drop(r) PROVE IInv'
<1> USE TTLPositive, SessionAssumption DEF IInv, Drop, Finish
<1>1. TypeOK'
  BY DEF TypeOK
<1>2. StoredOnce' /\ MapKeyed' /\ (deadline <= now)'
  BY DEF TypeOK, StoredOnce, MapKeyed
<1>3. ReadHolds'
  BY DEF TypeOK, ReadHolds
<1> QED
  BY <1>1, <1>2, <1>3

LEMMA DeleteKeeps == ASSUME IInv, NEW r \in Request, Delete(r) PROVE IInv'
<1> USE TTLPositive, SessionAssumption DEF IInv, Delete, Finish
<1>1. TypeOK'
  BY DEF TypeOK, ReadHolds
<1>2. StoredOnce' /\ MapKeyed' /\ (deadline <= now)'
  BY DEF TypeOK, StoredOnce, MapKeyed, ReadHolds
<1>3. ReadHolds'
  BY DEF TypeOK, ReadHolds
<1> QED
  BY <1>1, <1>2, <1>3

LEMMA CleanupKeeps ==
  ASSUME IInv, CleanupBegins \/ CleanupSweeps \/ Tick PROVE IInv'
<1> USE TTLPositive, SessionAssumption
    DEF IInv, CleanupBegins, CleanupSweeps, Tick
<1>1. TypeOK'
  BY DEF TypeOK
<1>2. StoredOnce' /\ MapKeyed' /\ (deadline <= now)'
  BY DEF TypeOK, StoredOnce, MapKeyed
<1>3. ReadHolds'
  BY DEF TypeOK, ReadHolds
<1> QED
  BY <1>1, <1>2, <1>3

LEMMA NextIInv == IInv /\ [Next]_vars => IInv'
<1> SUFFICES ASSUME IInv, [Next]_vars PROVE IInv'
  OBVIOUS
<1>1. CASE \E r \in Request : Create(r) \/ Store(r) \/ Get(r) \/ Logout(r)
  BY <1>1, CreateKeeps, StoreKeeps, EnterKeeps
<1>2. CASE \E r \in Request : Read(r) \/ Judge(r) \/ Serve(r) \/ Drop(r) \/ Delete(r)
  BY <1>2, ReadKeeps, JudgeKeeps, DropKeeps, DeleteKeeps
<1>3. CASE CleanupBegins \/ CleanupSweeps \/ Tick
  BY <1>3, CleanupKeeps
<1>4. CASE UNCHANGED vars
  BY <1>4 DEF vars, IInv, TypeOK, StoredOnce, MapKeyed, ReadHolds
<1> QED
  BY <1>1, <1>2, <1>3, <1>4 DEF Next

\* IInv is an inductive invariant of the session store.
THEOREM SessionInvariant == Spec => []IInv
BY InitIInv, NextIInv, PTL DEF Spec

\* Type correctness, for any number of requests and any time to live.
THEOREM SessionTyped == Spec => []TypeOK
<1>1. IInv => TypeOK
  BY DEF IInv
<1> QED
  BY <1>1, SessionInvariant, PTL

\* A request that begins after the logout of its session was answered is never
\* let in, whatever lookups, logins and cleanups overlap with the logout.
THEOREM LogoutFinal == Spec => []LoggedOutStaysOut
<1>1. IInv => LoggedOutStaysOut
  BY DEF IInv, ReadHolds, LoggedOutStaysOut
<1> QED
  BY <1>1, SessionInvariant, PTL

\* A session leaves the map only when it has expired or is being logged out,
\* although Get and the cleanup act on what they read before they had the lock.
THEOREM SessionsKept == Spec => LiveSessionsKept
<1>1. ASSUME IInv, [Next]_vars PROVE [StaysUnlessDue]_vars
  <2> USE <1>1 DEF IInv
  <2> SUFFICES ASSUME NEW s \in sessions, s \notin sessions'
               PROVE now > s.expires \/ \E r \in Request : pc[r] = "delete" /\ sid[r] = s.id
    BY DEF StaysUnlessDue
  <2>1. CASE \E r \in Request : Drop(r)
    BY <2>1 DEF Drop, ReadHolds, TypeOK
  <2>2. CASE \E r \in Request : Delete(r)
    BY <2>2 DEF Delete
  <2>3. CASE CleanupSweeps
    BY <2>3, SessionAssumption, TTLPositive DEF CleanupSweeps, TypeOK, Session
  <2>4. CASE \E r \in Request : \/ Create(r) \/ Store(r) \/ Get(r) \/ Read(r)
                                \/ Judge(r) \/ Serve(r) \/ Logout(r)
    BY <2>4 DEF Create, Store, Get, Read, Judge, Serve, Logout
  <2>5. CASE CleanupBegins \/ Tick \/ UNCHANGED vars
    BY <2>5 DEF CleanupBegins, Tick, vars
  <2> QED
    BY <2>1, <2>2, <2>3, <2>4, <2>5 DEF Next
<1> QED
  BY <1>1, SessionInvariant, PTL DEF Spec, LiveSessionsKept
=============================================================================
