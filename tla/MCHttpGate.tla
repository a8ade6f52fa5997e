----------------------------- MODULE MCHttpGate -----------------------------
(* Small instances of HttpGate for TLC. *)
EXTENDS HttpGate, TLC

CONSTANTS c1, c2, a1, a2, a3

At(scheme, host, port) == [scheme |-> scheme, host |-> [name |-> host, port |-> port]]

Public == At("https", "admin", "none")
OddPort == At("http", "admin", "8080")
Literal == At("https", "[v6]", "none")
Other == At("http", "other", "none")
SameName == At("http", "admin", "none")

\* The browser's own connection.
Direct(s) ==
  [tls |-> s.scheme = "https", host |-> s.host, peer |-> "other", client |-> "none",
   xproto |-> "none", xhost |-> NoHost, fproto |-> "none", fhost |-> NoHost]

\* A proxy without TLS, which addresses the server by a host of its own.
Proxy(peer, client) ==
  [Direct(At("http", "inner", "8080")) EXCEPT !.peer = peer, !.client = client]

XHeaders(r, s) == [r EXCEPT !.xproto = s.scheme, !.xhost = s.host]
XProto(r, s) == [r EXCEPT !.xproto = s.scheme, !.host = s.host]
Forwarded(r, s) == [r EXCEPT !.fproto = s.scheme, !.fhost = s.host]

\* Written-out default ports, an IPv6 literal with and without one, a name
\* without a scheme.
Domains1 == {At("https", "admin", "443"), OddPort}
Domains2 == {At("https", "[v6]", "443"), At("http", "other", "80")}
Domains3 == {Literal, At("none", "admin", "none")}

Deploy(s, requests, configured) ==
  [site : {s}, request : requests, domains : configured]

\* On the same machine, silent about the client or not, with each kind of header
\* or none; and on another one, with a client there and elsewhere.
Proxies(s) ==
  {XHeaders(Proxy("loopback", client), s) : client \in {"none", "other"}}
    \cup {XProto(Proxy("loopback", "none"), s), Forwarded(Proxy("loopback", "none"), s)}
    \cup {Proxy("loopback", "none")}
    \cup {XHeaders(Proxy("other", client), s) : client \in {"none", "loopback", "other"}}

Deployments ==
  Deploy(Public, {Direct(Public)}, {{}, {At("none", "admin", "none")}, Domains1})
    \cup Deploy(SameName, {Direct(SameName)}, {Domains1, Domains3})
    \cup Deploy(Public, Proxies(Public), {Domains1})
    \cup Deploy(OddPort, {Direct(OddPort), Forwarded(Proxy("loopback", "none"), OddPort)}, {Domains1})
    \cup Deploy(Literal, {Direct(Literal), XHeaders(Proxy("loopback", "none"), Literal)}, {Domains2, Domains3})
    \cup Deploy(Other, {Direct(Other), XHeaders(Proxy("loopback", "none"), Other)}, {Domains1, Domains2})
HttpsProxy == Deploy(Public, {XHeaders(Proxy("loopback", "other"), Public)}, {{}})
=============================================================================
