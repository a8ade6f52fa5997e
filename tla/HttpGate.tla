------------------------------ MODULE HttpGate ------------------------------
(***************************************************************************)
(* The administrator's way into the program: the origin check in front of  *)
(* every route, the setup behind it, and the login with its cookie.        *)
(***************************************************************************)
EXTENDS AdminSetup, RequestOrigin

CONSTANT
  Deployment     \* [site, request, domains]: the address a browser asks for, a
                 \* scheme and a host; how its requests arrive, any record of
                 \* RequestOrigin; and server.domain

VARIABLES
  deployment,
  cookie         \* the browser's cookie: "none", "plain" or "secure"

gateVars == <<vars, deployment, cookie>>

site == deployment.site
request == deployment.request
domains == deployment.domains

Served == Trusted(request, domains)

GateInit ==
  /\ Init
  /\ deployment \in Deployment
  /\ cookie = "none"

\* POST /setup/init
Post(c, n) ==
  /\ Served
  /\ Call(c, n)
  /\ UNCHANGED <<deployment, cookie>>

\* POST /auth/login with the name and password of a setup that was answered;
\* the flag is not asked for.
Login ==
  /\ Served
  /\ \E n \in admins : n \in answered
  /\ cookie' = IF IsSecure(request) THEN "secure" ELSE "plain"
  /\ UNCHANGED <<vars, deployment>>

SetupStep(c) == Check(c) \/ Insert(c) \/ SetFlag(c)

GateNext ==
  \/ \E c \in Client, n \in AdminName \cup {NoName} : Post(c, n)
  \/ \E c \in Client : (SetupStep(c) \/ Fail(c)) /\ UNCHANGED <<deployment, cookie>>
  \/ Crash /\ UNCHANGED <<deployment, cookie>>
  \/ Login

GateSpec == GateInit /\ [][GateNext]_gateVars

\* Statements finish, and an administrator who is refused tries other names
\* and logs in afterwards.
FairGateSpec ==
  /\ GateSpec
  /\ \A c \in Client : WF_gateVars(SetupStep(c) /\ UNCHANGED <<deployment, cookie>>)
  /\ \A n \in AdminName : SF_gateVars(\E c \in Client : Post(c, n))
  /\ WF_gateVars(Login)

-----------------------------------------------------------------------------
(* Properties *)

GateTypeOK ==
  /\ TypeOK
  /\ deployment \in Deployment
  /\ cookie \in {"none", "plain", "secure"}

\* Two addresses of one origin: the default port goes without saying, and
\* whether an IPv6 literal is in brackets makes no difference.
SameOrigin(s, t) ==
  /\ s.scheme = t.scheme /\ Bare(s.host.name) = Bare(t.host.name)
  /\ \/ s.host.port = t.host.port
     \/ {s.host.port, t.host.port} = {"none", DefaultPort(s.scheme)}

\* The addresses a request names: by its connection and its Host header and, when
\* it counts as local, by any of its forwarding headers too.
Addressed(r) ==
  LET local(values) == IF FromLoopback(r) THEN values ELSE {}
  IN  [scheme : {IF r.tls THEN "https" ELSE "http"} \cup local({r.xproto, r.fproto}),
       host : {r.host} \cup local({r.xhost, r.fhost})]

\* Once server.domain holds an origin, a request that names none of its origins
\* achieves nothing, whatever it consists of: it sets nothing up and logs nobody
\* in, and what a proxy on another machine says of scheme and host is no help.
\* Which page sent the request is not asked: whoever names a configured address
\* is served.
UnaddressedInert ==
  /\ Valid(domains) # {}
  /\ \A d \in Valid(domains), t \in Addressed(request) : ~SameOrigin(d, t)
  => admins = {} /\ cookie = "none" /\ \A c \in Client : pc[c] = "idle"

\* server.domain names the address; an IPv6 literal with the default port written
\* out is lost, because the brackets go with the port.
Configured(s) == \E d \in Valid(domains) :
  /\ d.host.name = s.host.name /\ SameOrigin(d, s)
  /\ d.host.name = "[v6]" => d.host.port # DefaultPort(d.scheme)

\* The server learns the address: from the browser itself, or from a proxy on the
\* same machine that keeps the client's address to itself and tells scheme and
\* host in either kind of header, or the scheme alone and keeps Host.
Told(r, s) ==
  LET x == <<r.xproto, r.xhost>>
      f == <<r.fproto, r.fhost>>
      nothing == <<"none", NoHost>>
  IN  /\ r.client = "none"
      /\ \/ /\ r.peer = "other" /\ r.host = s.host
            /\ r.tls <=> s.scheme = "https"
         \/ /\ r.peer = "loopback"
            /\ \/ x = <<s.scheme, s.host>>
               \/ x = nothing /\ f = <<s.scheme, s.host>>
               \/ x = <<s.scheme, NoHost>> /\ r.host = s.host

\* An administrator who uses a configured address can finish the setup, with
\* another name if a crash has left the first one in the table, and then log
\* in: over TLS of the server's own or through a local proxy.
SetupCompletes ==
  Configured(site) /\ Told(request, site) ~> initialized /\ cookie # "none"

\* The cookie is for HTTPS only when the browser uses HTTPS.
CookieSecure == cookie # "none" => (cookie = "secure" <=> site.scheme = "https")
=============================================================================
