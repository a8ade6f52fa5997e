-------------------------------- MODULE Render --------------------------------
(***************************************************************************)
(* smb.conf as a value: the data applyConfig hands to Generator.Render     *)
(* (internal/service/smb_service.go and internal/smb/generator.go), and    *)
(* what Samba makes of a section.                                          *)
(***************************************************************************)
EXTENDS Store

ShareSection == [volume : VolumeId, guest : BOOLEAN, valid : SUBSET Name,
                 write : SUBSET Name, read : SUBSET Name, deny : BOOLEAN]
Config == [global : Setting, shares : SUBSET ShareSection]

Granted(gs, id, levels) ==
  {n \in Name : \E g \in gs : g.volume = id /\ g.name = n /\ g.access \in levels}

\* One share of the loop over the enabled volumes: the valid users are all
\* the users with a grant; with none, and no guests, nobody is let in.
Section(v, gs) ==
  LET valid == Granted(gs, v.id, {"read", "readwrite"})
  IN  [volume |-> v.id, guest |-> v.guest, valid |-> valid,
       write |-> Granted(gs, v.id, {"readwrite"}),
       read  |-> Granted(gs, v.id, {"read"}),
       deny  |-> ~v.guest /\ valid = {}]

RenderConfig(s, vs, gs) == [global |-> s, shares |-> {Section(v, gs) : v \in vs}]

\* The configuration that the database describes now.
Described == RenderConfig(settings, EnabledVolumes, ForConfig)

-----------------------------------------------------------------------------
(* Samba (external).  The template writes "read only = yes", "valid users" *)
(* when the list is not empty, a name nobody bears when deny is set, and   *)
(* nothing otherwise; without the line Samba admits everyone.              *)

Admits(s, n) == IF s.valid # {} THEN n \in s.valid ELSE ~s.deny
LetsWrite(s, n) == Admits(s, n) /\ n \in s.write

-----------------------------------------------------------------------------
(* What smbd is to enforce. *)

\* Whether the tables give name n one of the levels on volume id.
Allowed(n, id, levels) ==
  \E u \in users, p \in perms : /\ u.name = n /\ u.enabled
                                /\ p.user = u.id /\ p.volume = id
                                /\ p.access \in levels

\* c shares the enabled volumes, with the settings, and lets in (and lets
\* write) exactly whom the tables say; a guest share lets everybody in.
Exact(c) ==
  /\ c.global = settings
  /\ {s.volume : s \in c.shares} = {v.id : v \in EnabledVolumes}
  /\ \A s \in c.shares, n \in Name :
       /\ LetsWrite(s, n) <=> Allowed(n, s.volume, {"readwrite"})
       /\ ~s.guest => (Admits(s, n) <=> Allowed(n, s.volume, {"read", "readwrite"}))
=============================================================================
