---------------------------- MODULE RequestOrigin ----------------------------
(***************************************************************************)
(* How the HTTP layer tells from a request which address it was sent to,   *)
(* and what it makes of it (internal/handler/middleware.go).  The page     *)
(* that sends it, its Origin header, is never asked for.  A request is a   *)
(* record of what arrives at the server:                                   *)
(*   tls        whether the connection is TLS                              *)
(*   host       the Host header                                            *)
(*   peer       "loopback" or "other": who opened the connection           *)
(*   client     the address in X-Real-IP or X-Forwarded-For, or "none"     *)
(*   xproto, xhost, fproto, fhost   X-Forwarded-Proto and -Host, and the   *)
(*              proto and host of Forwarded, or "none" and NoHost          *)
(* A host is a name with a port, or "none" for a port that is left out; a  *)
(* name may be an IPv6 literal in brackets.  Case and white space, which   *)
(* the code normalises, are left out.                                      *)
(***************************************************************************)

NoHost == [name |-> "none", port |-> "none"]

DefaultPort(scheme) == IF scheme = "http" THEN "80" ELSE "443"

\* net.SplitHostPort takes the brackets off.
Bare(name) == IF name = "[v6]" THEN "v6" ELSE name

\* Mutant: default ports are kept.
CanonicalAsWritten(scheme, host) ==
  [scheme |-> scheme, name |-> host.name, port |-> host.port]

\* canonicalOrigin
Canonical(scheme, host) ==
  IF host.port = DefaultPort(scheme)
  THEN [scheme |-> scheme, name |-> Bare(host.name), port |-> "none"]
  ELSE [scheme |-> scheme, name |-> host.name, port |-> host.port]

\* Entries of server.domain without a scheme or a host are dropped.
Valid(domains) ==
  {d \in domains : d.scheme \in {"http", "https"} /\ d.host # NoHost}

NormalizeAllowed(domains) ==
  {Canonical(d.scheme, d.host) : d \in Valid(domains)}

\* chi's middleware.RealIP (external) runs first and puts the address in the
\* headers, whoever sent them, in place of the connection's.
RemoteAddr(r) == IF r.client = "none" THEN r.peer ELSE r.client

FromLoopback(r) == RemoteAddr(r) = "loopback"

\* Forwarded counts only if neither X-Forwarded header is there.
ForwardedOrigin(r) ==
  IF r.xproto # "none" \/ r.xhost # NoHost
  THEN [proto |-> r.xproto, host |-> r.xhost]
  ELSE [proto |-> r.fproto, host |-> r.fhost]

\* Mutant: forwarding headers count from every address.
RequestOriginBelieved(r) ==
  LET fwd == ForwardedOrigin(r)
      own == IF r.tls THEN "https" ELSE "http"
  IN  Canonical(IF fwd.proto # "none" THEN fwd.proto ELSE own,
                IF fwd.host # NoHost THEN fwd.host ELSE r.host)

RequestOriginOf(r) ==
  LET fwd == ForwardedOrigin(r)
      own == IF r.tls THEN "https" ELSE "http"
  IN  Canonical(IF FromLoopback(r) /\ fwd.proto # "none" THEN fwd.proto ELSE own,
                IF FromLoopback(r) /\ fwd.host # NoHost THEN fwd.host ELSE r.host)

\* TrustedDomainMiddleware: without a single valid origin in the configuration,
\* every request is let in.
Trusted(r, domains) ==
  NormalizeAllowed(domains) = {} \/ RequestOriginOf(r) \in NormalizeAllowed(domains)

IsSecure(r) ==
  r.tls \/ (FromLoopback(r) /\ ForwardedOrigin(r).proto = "https")
=============================================================================
