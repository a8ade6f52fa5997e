------------------------------ MODULE ShareWalk ------------------------------
(***************************************************************************)
(* The repair of a share's permissions (internal/smb/executor.go) while    *)
(* clients go on working in the share: EnsureSharePathPermissions, which   *)
(* walks the whole tree with chown and chmod and then lets setfacl do so   *)
(* twice, and EnsureShareTopPermissions, which repairs the root only.  The *)
(* modes are reduced to what the group may do (grp: read and write), what  *)
(* everybody else may do (oth: anything) and setgid.                       *)
(***************************************************************************)
EXTENDS Naturals, FiniteSets, Sequences

CONSTANTS
  Id,            \* names of files and directories below the root
  Root, Gone,    \* the share's root; the parent of a name not in use
  Kind,          \* "dir", "file" or "link", for each name and the root
  Parent0,       \* the tree at the start
  Open0,         \* the entries that are open to others at the start
  Walker,        \* goroutines that repair the share, once each
  MaxClient,     \* bound: steps of clients
  MaxErrors      \* bound: system calls and commands that fail

Entry == Id \cup {Root}

\* What lies at or below some entry of F: in every set with F that has the
\* children of its members.
Closed(S, tree) == \A c \in Id : tree[c] \in S => c \in S
Below(F, tree) ==
  {x \in Entry : \A S \in SUBSET Entry : F \subseteq S /\ Closed(S, tree) => x \in S}

\* Every name in use is in a directory that is in use, and below the root.
IsTree(tree) == \A e \in Id : tree[e] # Gone =>
  /\ Kind[tree[e]] = "dir" /\ (tree[e] \in Id => tree[tree[e]] # Gone)
  /\ e \in Below({Root}, tree)

ASSUME WalkAssumption ==
  /\ Root \notin Id /\ Gone \notin Entry
  /\ Kind \in [Entry -> {"dir", "file", "link"}] /\ Kind[Root] = "dir"
  /\ Parent0 \in [Id -> Entry \cup {Gone}] /\ IsTree(Parent0) /\ Open0 \subseteq Entry
  /\ MaxClient \in Nat /\ MaxErrors \in Nat

VARIABLES
  parent,        \* the tree
  attr,          \* owner group, mode and ACLs of every entry
  call,          \* each walker's place and locals
  touched,       \* the entries the walks are excused from: an error was
                 \* tolerated there, or a client moved them
  narrowed,      \* the entries whose creator or owner shut the group out
  client, errors

vars == <<parent, attr, call, touched, narrowed, client, errors>>

IsDir(e) == Kind[e] = "dir"
Live == {e \in Id : parent[e] # Gone} \cup {Root}

\* A path is the sequence of names from the root; it leads somewhere only
\* while each name is still where it was when the path was made.
Resolves(path) == \A i \in 2 .. Len(path) : parent[path[i]] = path[i - 1]
Last(path) == path[Len(path)]

Children(path) ==
  {Append(path, e) : e \in {c \in Id : parent[c] = Last(path)}}

Subtree(e) == Below({e}, parent)

Untouched == [managed |-> FALSE, setgid |-> FALSE, grp |-> FALSE, oth |-> FALSE,
              acl |-> FALSE, dacl |-> FALSE]

Idle == [at |-> "start", deep |-> FALSE, pass |-> "mode", todo |-> {}, path |-> <<Root>>,
         oth |-> FALSE, soft |-> FALSE]

Init ==
  /\ parent = Parent0
  /\ attr = [e \in Entry |-> [Untouched EXCEPT !.oth = e \in Open0]]
  /\ call = [w \in Walker |-> Idle]
  /\ touched = {} /\ narrowed = {}
  /\ client = 0 /\ errors = 0

-----------------------------------------------------------------------------
(* Steps of a walker *)

At(w, place) == call[w].at = place
Goto(w, place) == call' = [call EXCEPT ![w].at = place]
Return(w, answer) ==
  call' = [call EXCEPT ![w] = [Idle EXCEPT !.at = answer, !.deep = call[w].deep,
                                           !.soft = call[w].soft]]

StartPass(w, p) ==
  call' = [call EXCEPT ![w].at = "acl", ![w].pass = p, ![w].path = <<Root>>]

\* Mutant: the default ACL without -R.
DescendNotForDefaults(w) ==
  IF IsDir(Last(call[w].path)) /\ call[w].deep /\ call[w].pass # "default"
  THEN "list" ELSE "next"

\* After a directory its entries are to come, after a file the next entry.
Descend(w) == IF IsDir(Last(call[w].path)) /\ call[w].deep THEN "list" ELSE "next"

Failing == errors < MaxErrors /\ errors' = errors + 1
NoFailure == UNCHANGED errors

\* Either of the two calls begins: managedGroupGID and Lstat of the root, which
\* is refused if it has gone or is no longer a directory.
Begin(w) ==
  /\ At(w, "start")
  /\ \/ /\ NoFailure
        /\ \E deep \in BOOLEAN :
             call' = [call EXCEPT ![w].at = "chown", ![w].deep = deep,
                                  ![w].oth = attr[Root].oth]
     \/ Failing /\ Return(w, "error")
  /\ UNCHANGED <<parent, attr, touched, narrowed, client>>

\* Mutant: a directory whose chown or chmod fails is skipped.
TolerateAndSkip(w, place, excused) ==
  IF call[w].path = <<Root>>
  THEN Return(w, "error") /\ UNCHANGED touched
  ELSE Goto(w, "next") /\ touched' = touched \cup excused

\* Mutant: an error at the root is tolerated like any other.
TolerateAtRoot(w, place, excused) ==
  Goto(w, place) /\ touched' = touched \cup excused

\* An error ends the call at the root and is tolerated below it.
Tolerate(w, place, excused) ==
  IF call[w].path = <<Root>>
  THEN Return(w, "error") /\ UNCHANGED touched
  ELSE Goto(w, place) /\ touched' = touched \cup excused

\* applyShareEntryPerms: chown, then chmod with the mode read before.
Chown(w) ==
  /\ At(w, "chown")
  /\ LET e == Last(call[w].path) IN
     \/ /\ Resolves(call[w].path) /\ NoFailure
        /\ attr' = [attr EXCEPT ![e].managed = TRUE]
        /\ Goto(w, "chmod") /\ UNCHANGED touched
     \/ /\ ~Resolves(call[w].path) /\ NoFailure
        /\ Tolerate(w, Descend(w), {}) /\ UNCHANGED attr
     \/ /\ Resolves(call[w].path) /\ Failing
        /\ Tolerate(w, Descend(w), {e}) /\ UNCHANGED attr
  /\ UNCHANGED <<parent, narrowed, client>>

Chmod(w) ==
  /\ At(w, "chmod")
  /\ LET e == Last(call[w].path) IN
     \/ /\ Resolves(call[w].path) /\ NoFailure
        /\ attr' = [attr EXCEPT ![e].setgid = IsDir(e), ![e].grp = TRUE,
                                ![e].oth = call[w].oth]
        /\ Goto(w, Descend(w)) /\ UNCHANGED touched
     \/ /\ ~Resolves(call[w].path) /\ NoFailure
        /\ Tolerate(w, Descend(w), {}) /\ UNCHANGED attr
     \/ /\ Resolves(call[w].path) /\ Failing
        /\ Tolerate(w, Descend(w), {e}) /\ UNCHANGED attr
  /\ UNCHANGED <<parent, narrowed, client>>

\* What setfacl does to one entry (external): the access ACL takes everything
\* from others, the default ACL is for directories.
SetFacl(e) ==
  [attr EXCEPT ![e] = [@ EXCEPT !.acl = TRUE, !.grp = TRUE, !.oth = FALSE]]
SetDefault(e) == IF IsDir(e) THEN [attr EXCEPT ![e].dacl = TRUE] ELSE attr

Acl(w) ==
  /\ At(w, "acl")
  /\ \/ /\ Resolves(call[w].path) /\ NoFailure
        /\ attr' = IF call[w].pass = "access" THEN SetFacl(Last(call[w].path))
                                              ELSE SetDefault(Last(call[w].path))
        /\ Goto(w, Descend(w))
     \/ /\ \/ ~Resolves(call[w].path) /\ NoFailure
           \/ Resolves(call[w].path) /\ Failing
        /\ call' = [call EXCEPT ![w].at = "next", ![w].soft = TRUE]
        /\ UNCHANGED attr
  /\ UNCHANGED <<parent, touched, narrowed, client>>

\* A directory is read once, after it was dealt with itself.  WalkDir hands
\* an error back to the callback, which skips the directory; setfacl counts it.
List(w) ==
  /\ At(w, "list")
  /\ LET p == call[w].path IN
     \/ /\ Resolves(p) /\ NoFailure
        /\ call' = [call EXCEPT ![w].at = "next",
                                ![w].todo = @ \cup Children(p)]
        /\ UNCHANGED touched
     \/ /\ \/ ~Resolves(p) /\ NoFailure
           \/ Resolves(p) /\ Failing
        /\ IF call[w].pass = "mode"
           THEN Tolerate(w, "next", IF Resolves(p) THEN Subtree(Last(p)) ELSE {})
           ELSE /\ call' = [call EXCEPT ![w].at = "next", ![w].soft = TRUE]
                /\ UNCHANGED touched
  /\ UNCHANGED <<parent, attr, narrowed, client>>

\* The next entry.  WalkDir goes depth first by name; any order is allowed
\* here.  entry.Info reads the mode that chmod will write back; links and
\* entries that have gone are passed over.
Visit(w) ==
  /\ At(w, "next")
  /\ \E p \in call[w].todo :
       LET c == [call[w] EXCEPT !.todo = @ \ {p}, !.path = p]
           e == Last(p)
       IN
       \/ /\ Resolves(p) /\ Kind[e] # "link" /\ NoFailure
          /\ call' = [call EXCEPT ![w] = [c EXCEPT
                        !.at = IF c.pass = "mode" THEN "chown" ELSE "acl",
                        !.oth = attr[e].oth]]
          /\ UNCHANGED touched
       \/ /\ Kind[e] = "link" \/ (~Resolves(p) /\ c.pass = "mode")
          /\ NoFailure
          /\ call' = [call EXCEPT ![w] = c]
          /\ UNCHANGED touched
       \/ /\ Kind[e] # "link" /\ ~Resolves(p) /\ c.pass # "mode" /\ NoFailure
          /\ call' = [call EXCEPT ![w] = [c EXCEPT !.soft = TRUE]]
          /\ UNCHANGED touched
       \/ /\ Resolves(p) /\ Failing
          /\ IF c.pass = "mode"
             THEN /\ call' = [call EXCEPT ![w] = c]
                  /\ touched' = touched \cup Subtree(e)
             ELSE /\ call' = [call EXCEPT ![w] = [c EXCEPT !.soft = TRUE]]
                  /\ UNCHANGED touched
  /\ UNCHANGED <<parent, attr, narrowed, client>>

\* applyManagedACL after the walk: the access ACL, unless setfacl is missing,
\* and the default ACL, unless the first had an error.  None of it is fatal.
NextPass(w) ==
  /\ At(w, "next") /\ call[w].todo = {}
  /\ \/ /\ NoFailure
        /\ \/ call[w].pass = "mode" /\ StartPass(w, "access")
           \/ call[w].pass = "access" /\ ~call[w].soft /\ StartPass(w, "default")
           \/ call[w].pass = "access" /\ call[w].soft /\ Return(w, "ok")
           \/ call[w].pass = "default" /\ Return(w, "ok")
     \/ /\ call[w].pass = "mode" /\ Failing
        /\ call' = [call EXCEPT ![w] = [Idle EXCEPT !.at = "ok", !.deep = call[w].deep,
                                                    !.soft = TRUE]]
  /\ UNCHANGED <<parent, attr, touched, narrowed, client>>

-----------------------------------------------------------------------------
(* Clients, through smbd or on the machine itself (external) *)

\* What clients work on; links stay where they are.
Working == {e \in Live : Kind[e] # "link"} \ {Root}

ClientStep == client < MaxClient /\ client' = client + 1

\* smbd creates with force group and inherit permissions, a local process with
\* its own group and a umask of 022 unless setgid or a default ACL say otherwise.
Created(d, e, smb) ==
  [managed |-> smb \/ attr[d].setgid,
   setgid |-> IsDir(e) /\ attr[d].setgid,
   grp |-> attr[d].dacl \/ (smb /\ attr[d].grp),
   oth |-> ~attr[d].dacl /\ (smb => attr[d].oth),
   acl |-> attr[d].dacl,
   dacl |-> IsDir(e) /\ attr[d].dacl]

Create == \E d \in Live, e \in Id \ Live, smb \in BOOLEAN :
  /\ IsDir(d) /\ Kind[e] # "link" /\ ClientStep
  /\ parent' = [parent EXCEPT ![e] = d]
  /\ attr' = [attr EXCEPT ![e] = Created(d, e, smb)]
  /\ touched' = IF d \in touched THEN touched \cup {e} ELSE touched \ {e}
  /\ narrowed' = IF attr'[e].grp THEN narrowed \ {e} ELSE narrowed \cup {e}
  /\ UNCHANGED <<call, errors>>

Delete == \E e \in Working :
  /\ e \notin {parent[x] : x \in Id} /\ ClientStep
  /\ parent' = [parent EXCEPT ![e] = Gone]
  /\ attr' = [attr EXCEPT ![e] = Untouched]
  /\ touched' = touched \ {e} /\ narrowed' = narrowed \ {e}
  /\ UNCHANGED <<call, errors>>

Move == \E e \in Working, d \in Live :
  /\ IsDir(d) /\ parent[e] # d /\ ClientStep
  /\ d \notin Subtree(e)
  /\ parent' = [parent EXCEPT ![e] = d]
  /\ touched' = touched \cup Subtree(e)
  /\ UNCHANGED <<attr, call, narrowed, errors>>

\* A client opens an entry to all or shuts everybody out.  chmod keeps setgid;
\* with an ACL the group's bits are its mask.
ClientChmod == \E e \in Working \cup {Root}, open \in BOOLEAN :
  /\ ClientStep
  /\ <<attr[e].grp, attr[e].oth>> # <<open, open>>
  /\ attr' = [attr EXCEPT ![e].grp = open, ![e].oth = open]
  /\ narrowed' = IF open THEN narrowed ELSE narrowed \cup {e}
  /\ UNCHANGED <<parent, call, touched, errors>>

-----------------------------------------------------------------------------
Work(w) ==
  \/ Begin(w) \/ Chown(w) \/ Chmod(w) \/ Acl(w) \/ List(w) \/ Visit(w) \/ NextPass(w)

Next ==
  \/ \E w \in Walker : Work(w)
  \/ Create \/ Delete \/ Move \/ ClientChmod

Spec == Init /\ [][Next]_vars

-----------------------------------------------------------------------------
(* Properties *)

Flags == DOMAIN Untouched

TypeOK ==
  /\ parent \in [Id -> Entry \cup {Gone}]
  /\ attr \in [Entry -> [Flags -> BOOLEAN]]
  /\ \A w \in Walker :
       /\ call[w].at \in {"start", "chown", "chmod", "acl", "list", "next", "ok", "error"}
       /\ call[w].pass \in {"mode", "access", "default"}
       /\ \A p \in call[w].todo \cup {call[w].path} :
            p[1] = Root /\ \A i \in 2 .. Len(p) : p[i] \in Id
  /\ touched \subseteq Id /\ narrowed \subseteq Entry
  /\ client \in 0 .. MaxClient /\ errors \in 0 .. MaxErrors

InGroup(e) ==
  attr[e].managed /\ (IsDir(e) => attr[e].setgid) /\ (e \in narrowed \/ attr[e].grp)

\* Once EnsureSharePathPermissions has answered without an error, everything
\* in the share belongs to the managed group and is open to it, and so does
\* everything that is created from then on: also what was created or
\* replaced while the walk went by, and what lies beside or below an entry on
\* which a chown or chmod failed.  EnsureShareTopPermissions says so of the root.
Repaired == \A w \in Walker :
  At(w, "ok") => \A e \in (IF call[w].deep THEN Live \ touched ELSE {Root}) :
    Kind[e] # "link" => InGroup(e)

\* If no setfacl failed, every directory has the default ACL, also those made
\* meanwhile, so that what is created in it is open to the group whatever its
\* creator's umask.
DefaultsEverywhere == \A w \in Walker :
  At(w, "ok") /\ call[w].deep /\ ~call[w].soft =>
    \A e \in Live \ touched : IsDir(e) => attr[e].dacl

\* A repair never removes permission bits.
NeverNarrows ==
  [][call' # call => \A e \in Entry : /\ attr[e].grp => attr'[e].grp
                                    /\ attr[e].oth => attr'[e].oth]_vars
=============================================================================
