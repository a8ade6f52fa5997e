---------------------------- MODULE HttpGateProofs ----------------------------
(***************************************************************************)
(* The setup behind the origin check, for any number of overlapping calls, *)
(* of names, of faults and of deployments: its types, that nobody is       *)
(* locked out, that the setup closes, and that requests which name no      *)
(* configured origin achieve nothing.                                      *)
(***************************************************************************)
EXTENDS HttpGate, TLAPS

\* A call past the check has a valid name, and it sets the flag only with its
\* row in the table.
CallsOrdered == \A c \in Client :
  /\ pc[c] \in {"insert", "flag"} => name[c] \in AdminName
  /\ pc[c] = "flag" => name[c] \in admins

\* The flag, once set, was set by a call that was answered; rows stay.
FlagEarned ==
  /\ initialized => answered # {}
  /\ answered \subseteq admins

\* A call that began after the setup gets no further than the check.
LateStops == \A c \in Client :
  late[c] => initialized /\ pc[c] \in {"check", "idle"}

IInv == GateTypeOK /\ CallsOrdered /\ FlagEarned /\ LateStops

-----------------------------------------------------------------------------
(* The origin check *)

\* Origins that a browser tells apart stay apart when the code has cut off the
\* default ports.
LEMMA CanonicalTells ==
  ASSUME NEW s, NEW t, Canonical(s.scheme, s.host) = Canonical(t.scheme, t.host)
  PROVE  SameOrigin(s, t)
<1>1. /\ s.scheme = t.scheme
      /\ IF s.host.port = DefaultPort(s.scheme)
         THEN Canonical(s.scheme, s.host).name = Bare(s.host.name) /\ Canonical(s.scheme, s.host).port = "none"
         ELSE Canonical(s.scheme, s.host).name = s.host.name /\ Canonical(s.scheme, s.host).port = s.host.port
  BY DEF Canonical
<1>2. IF t.host.port = DefaultPort(t.scheme)
      THEN Canonical(t.scheme, t.host).name = Bare(t.host.name) /\ Canonical(t.scheme, t.host).port = "none"
      ELSE Canonical(t.scheme, t.host).name = t.host.name /\ Canonical(t.scheme, t.host).port = t.host.port
  BY DEF Canonical
<1>3. Bare(s.host.name) = Bare(t.host.name)
  BY <1>1, <1>2 DEF Bare
<1> QED
  BY <1>1, <1>2, <1>3 DEF SameOrigin

\* The origin a request counts as is that of an address it names.
LEMMA OriginAddressed ==
  ASSUME NEW r
  PROVE  \E t \in Addressed(r) : RequestOriginOf(r) = Canonical(t.scheme, t.host)
<1> DEFINE own == IF r.tls THEN "https" ELSE "http"
           fwd == ForwardedOrigin(r)
           t == [scheme |-> IF FromLoopback(r) /\ fwd.proto # "none" THEN fwd.proto ELSE own,
                 host |-> IF FromLoopback(r) /\ fwd.host # NoHost THEN fwd.host ELSE r.host]
<1>1. fwd.proto \in {r.xproto, r.fproto} /\ fwd.host \in {r.xhost, r.fhost}
  BY DEF ForwardedOrigin
<1>2. t \in Addressed(r)
  BY <1>1 DEF Addressed
<1>3. RequestOriginOf(r) = Canonical(t.scheme, t.host)
  BY DEF RequestOriginOf
<1> QED
  BY <1>2, <1>3

\* server.domain holds an origin, and the request names none of them.
Unaddressed ==
  /\ Valid(domains) # {}
  /\ \A d \in Valid(domains), t \in Addressed(request) : ~SameOrigin(d, t)

\* Such a request is not served.
LEMMA UnaddressedRefused ==
  ASSUME Unaddressed PROVE ~Served
<1>1. NormalizeAllowed(domains) # {}
  BY DEF NormalizeAllowed, Unaddressed
<1>2. RequestOriginOf(request) \notin NormalizeAllowed(domains)
  <2>1. PICK t \in Addressed(request) : RequestOriginOf(request) = Canonical(t.scheme, t.host)
    BY OriginAddressed
  <2>2. SUFFICES ASSUME NEW d \in Valid(domains),
                        Canonical(d.scheme, d.host) = Canonical(t.scheme, t.host)
                 PROVE  FALSE
    BY <2>1 DEF NormalizeAllowed
  <2>3. SameOrigin(d, t)
    BY <2>2, CanonicalTells
  <2> QED
    BY <2>3 DEF Unaddressed
<1> QED
  BY <1>1, <1>2 DEF Served, Trusted

-----------------------------------------------------------------------------
LEMMA InitIInv == GateInit => IInv
<1> SUFFICES ASSUME GateInit PROVE IInv
  OBVIOUS
<1> USE SetupAssumption DEF GateInit, Init
<1>1. TypeOK
  <2>1. late \in [Client -> BOOLEAN]
    BY Zenon
  <2>2. pc \in [Client -> {"idle", "check", "insert", "flag"}]
    OBVIOUS
  <2>3. name \in [Client -> AdminName \cup {NoName}]
    OBVIOUS
  <2>4. faults \in 0 .. MaxFaults
    OBVIOUS
  <2>5. initialized \in BOOLEAN
    BY Zenon
  <2> QED
    BY <2>1, <2>2, <2>3, <2>4, <2>5 DEF TypeOK
<1>2. GateTypeOK
  BY <1>1 DEF GateTypeOK
<1>3. CallsOrdered /\ FlagEarned /\ LateStops
  BY DEF CallsOrdered, FlagEarned, LateStops
<1> QED
  BY <1>1, <1>2, <1>3 DEF IInv

LEMMA PostKeeps ==
  ASSUME IInv, NEW c \in Client, NEW n \in AdminName \cup {NoName}, Post(c, n) PROVE IInv'
<1> USE DEF Post, Call, IInv
<1>1. GateTypeOK'
  BY DEF GateTypeOK, TypeOK
<1>2. CallsOrdered'
  BY DEF CallsOrdered, GateTypeOK, TypeOK
<1>3. FlagEarned' /\ LateStops'
  BY DEF FlagEarned, LateStops, GateTypeOK, TypeOK
<1> QED
  BY <1>1, <1>2, <1>3

LEMMA CheckKeeps ==
  ASSUME IInv, NEW c \in Client, Check(c), UNCHANGED <<deployment, cookie>>
  PROVE  IInv'
<1> USE DEF Check, Goto, IInv
<1>1. GateTypeOK'
  BY DEF GateTypeOK, TypeOK
<1>2. CallsOrdered' /\ FlagEarned'
  BY DEF CallsOrdered, FlagEarned, GateTypeOK, TypeOK
<1>3. LateStops'
  BY DEF LateStops, GateTypeOK, TypeOK
<1> QED
  BY <1>1, <1>2, <1>3

LEMMA InsertKeeps ==
  ASSUME IInv, NEW c \in Client, Insert(c), UNCHANGED <<deployment, cookie>>
  PROVE  IInv'
<1> USE DEF Insert, Goto, IInv
<1>1. name[c] \in AdminName
  BY DEF CallsOrdered
<1>2. GateTypeOK'
  BY <1>1 DEF GateTypeOK, TypeOK
<1>3. CallsOrdered' /\ FlagEarned'
  BY <1>1 DEF CallsOrdered, FlagEarned, GateTypeOK, TypeOK
<1>4. LateStops'
  BY DEF LateStops, GateTypeOK, TypeOK
<1> QED
  BY <1>2, <1>3, <1>4

LEMMA SetFlagKeeps ==
  ASSUME IInv, NEW c \in Client, SetFlag(c), UNCHANGED <<deployment, cookie>>
  PROVE  IInv'
<1> USE DEF SetFlag, Goto, IInv
<1>1. name[c] \in AdminName /\ name[c] \in admins
  BY DEF CallsOrdered
<1>2. GateTypeOK'
  BY <1>1 DEF GateTypeOK, TypeOK
<1>3. CallsOrdered' /\ FlagEarned'
  BY <1>1 DEF CallsOrdered, FlagEarned, GateTypeOK, TypeOK
<1>4. LateStops'
  BY DEF LateStops, GateTypeOK, TypeOK
<1> QED
  BY <1>2, <1>3, <1>4

\* A call that gives up, and a restart that cuts all of them off.
LEMMA FaultKeeps ==
  ASSUME IInv, (\E c \in Client : Fail(c)) \/ Crash, UNCHANGED <<deployment, cookie>>
  PROVE  IInv'
<1> USE SetupAssumption DEF IInv
<1>1. CASE \E c \in Client : Fail(c)
  <2> PICK c \in Client : Fail(c)
    BY <1>1
  <2> USE DEF Fail, Goto
  <2>1. GateTypeOK'
    BY DEF GateTypeOK, TypeOK
  <2>2. CallsOrdered' /\ FlagEarned'
    BY DEF CallsOrdered, FlagEarned, GateTypeOK, TypeOK
  <2>3. LateStops'
    BY DEF LateStops, GateTypeOK, TypeOK
  <2> QED
    BY <2>1, <2>2, <2>3
<1>2. CASE Crash
  BY <1>2 DEF Crash, GateTypeOK, TypeOK, CallsOrdered, FlagEarned, LateStops
<1> QED
  BY <1>1, <1>2

LEMMA NextIInv == IInv /\ [GateNext]_gateVars => IInv'
<1> SUFFICES ASSUME IInv, [GateNext]_gateVars PROVE IInv'
  OBVIOUS
<1>1. CASE \E c \in Client, n \in AdminName \cup {NoName} : Post(c, n)
  BY <1>1, PostKeeps
<1>2. CASE \E c \in Client : SetupStep(c) /\ UNCHANGED <<deployment, cookie>>
  BY <1>2, CheckKeeps, InsertKeeps, SetFlagKeeps DEF SetupStep
<1>3. CASE /\ (\E c \in Client : Fail(c)) \/ Crash
           /\ UNCHANGED <<deployment, cookie>>
  BY <1>3, FaultKeeps
<1>4. CASE Login \/ UNCHANGED gateVars
  BY <1>4 DEF Login, gateVars, vars, IInv, GateTypeOK, TypeOK, CallsOrdered,
     FlagEarned, LateStops
<1> QED
  BY <1>1, <1>2, <1>3, <1>4 DEF GateNext

\* IInv is an inductive invariant of the setup.
THEOREM GateInvariant == GateSpec => []IInv
BY InitIInv, NextIInv, PTL DEF GateSpec

\* Type correctness, for any number of calls, names and deployments.
THEOREM GateTyped == GateSpec => []GateTypeOK
<1>1. IInv => GateTypeOK
  BY DEF IInv
<1> QED
  BY <1>1, GateInvariant, PTL

\* A system that counts as set up has the row of every administrator whose
\* setup was answered with success, and at least one, whatever overlaps, fails
\* or is cut off.
THEOREM NobodyLockedOut == GateSpec => []NeverLockedOut
<1>1. IInv => NeverLockedOut
  BY DEF IInv, FlagEarned, NeverLockedOut
<1> QED
  BY <1>1, GateInvariant, PTL

\* A call that begins after the setup changes nothing, however many overlap.
THEOREM SetupStaysClosed == GateSpec => []SetupCloses
<1>1. IInv => SetupCloses
  BY DEF IInv, LateStops, SetupCloses
<1> QED
  BY <1>1, GateInvariant, PTL

\* The origin check, for every request a client can make up and with any number
\* of calls: once server.domain holds an origin, nothing that names none of its
\* origins sets the system up or logs anybody in.
THEOREM UnaddressedStayOut == GateSpec => []UnaddressedInert
<1> DEFINE Inert == Unaddressed => admins = {} /\ cookie = "none" /\ \A c \in Client : pc[c] = "idle"
<1>1. GateInit => Inert
  BY DEF GateInit, Init
<1>2. Inert /\ [GateNext]_gateVars => Inert'
  <2> SUFFICES ASSUME Inert, [GateNext]_gateVars PROVE Inert'
    OBVIOUS
  <2>1. UNCHANGED deployment
    BY DEF GateNext, gateVars, Post, Login
  <2>2. Unaddressed' <=> Unaddressed
    BY <2>1 DEF Unaddressed, request, domains
  <2> SUFFICES ASSUME Unaddressed
               PROVE  admins' = {} /\ cookie' = "none" /\ \A c \in Client : pc'[c] = "idle"
    BY <2>1, <2>2
  <2>3. ~Served
    BY UnaddressedRefused
  <2>4. CASE UNCHANGED gateVars
    BY <2>4 DEF gateVars, vars
  <2>5. CASE \E c \in Client : (SetupStep(c) \/ Fail(c)) /\ UNCHANGED <<deployment, cookie>>
    BY <2>5 DEF SetupStep, Check, Insert, SetFlag, Fail
  <2>6. CASE Crash /\ UNCHANGED <<deployment, cookie>>
    BY <2>6 DEF Crash
  <2> QED
    BY <2>3, <2>4, <2>5, <2>6 DEF GateNext, Post, Login
<1>3. Inert => UnaddressedInert
  BY DEF Unaddressed, UnaddressedInert
<1> QED
  BY <1>1, <1>2, <1>3, PTL DEF GateSpec
=============================================================================
