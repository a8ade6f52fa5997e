---------------------------- MODULE ShareWalkProofs ----------------------------
(***************************************************************************)
(* The repair of a share of any size and shape, by any number of walkers,  *)
(* with any number of clients' steps and of errors: its types, and that    *)
(* what it answers with success is repaired.                               *)
(*                                                                         *)
(* What a walk has still to do is its front: the entries it knows of and   *)
(* the children of the directory it is about to list.  An entry that is    *)
(* not repaired lies below the front, wherever the clients have put it.    *)
(***************************************************************************)
EXTENDS ShareWalk, SequenceTheorems, WellFoundedInduction, TLAPS

-----------------------------------------------------------------------------
(* What lies below *)

Tree == [Id -> Entry \cup {Gone}]

LEMMA BelowIn ==
  ASSUME NEW F, NEW tree, NEW S, S \subseteq Entry, F \subseteq S, Closed(S, tree)
  PROVE  Below(F, tree) \subseteq S
BY DEF Below

LEMMA BelowIs ==
  ASSUME NEW F, F \subseteq Entry, NEW tree
  PROVE  /\ Below(F, tree) \subseteq Entry /\ F \subseteq Below(F, tree)
         /\ Closed(Below(F, tree), tree)
<1>1. Below(F, tree) \subseteq Entry /\ F \subseteq Below(F, tree)
  BY DEF Below
<1>2. Closed(Below(F, tree), tree)
  <2> SUFFICES ASSUME NEW c \in Id, tree[c] \in Below(F, tree) PROVE c \in Below(F, tree)
    BY DEF Closed
  <2> SUFFICES ASSUME NEW S \in SUBSET Entry, F \subseteq S, Closed(S, tree) PROVE c \in S
    BY DEF Below, Entry
  <2>1. tree[c] \in S
    BY DEF Below
  <2> QED
    BY <2>1 DEF Closed
<1> QED
  BY <1>1, <1>2

LEMMA BelowGrows ==
  ASSUME NEW F, NEW G, F \subseteq G, NEW tree
  PROVE  Below(F, tree) \subseteq Below(G, tree)
BY DEF Below

LEMMA BelowNothing == ASSUME NEW tree PROVE Below({}, tree) = {}
<1> Closed({}, tree)
  BY DEF Closed
<1> QED
  BY DEF Below

LEMMA BelowUnion ==
  ASSUME NEW F, F \subseteq Entry, NEW G, G \subseteq Entry, NEW tree
  PROVE  Below(F \cup G, tree) \subseteq Below(F, tree) \cup Below(G, tree)
<1> DEFINE S == Below(F, tree) \cup Below(G, tree)
<1>1. S \subseteq Entry /\ F \cup G \subseteq S /\ Closed(S, tree)
  BY BelowIs DEF Closed
<1> QED
  BY <1>1, BelowIn

KidsIn(e, tree) == {c \in Id : tree[c] = e}

\* An entry that is done leaves its children.
LEMMA BelowStep ==
  ASSUME NEW F, F \subseteq Entry, NEW e \in Entry, NEW tree
  PROVE  Below(F \cup {e}, tree) \subseteq {e} \cup Below(F \cup KidsIn(e, tree), tree)
<1> DEFINE G == F \cup KidsIn(e, tree)
           S == {e} \cup Below(G, tree)
<1>1. G \subseteq Entry
  BY DEF KidsIn, Entry
<1>2. S \subseteq Entry /\ F \cup {e} \subseteq S /\ Closed(S, tree)
  BY <1>1, BelowIs DEF Closed, KidsIn
<1> QED
  BY <1>2, BelowIn

\* Cutting off an entry, or putting it elsewhere, takes out of a place at most
\* what lies below that entry.
LEMMA BelowCut ==
  ASSUME NEW F, NEW G, G \subseteq Entry, NEW tree \in Tree, NEW e \in Id, NEW z,
         F \subseteq G \cup Below({e}, tree)
  PROVE  Below(F, tree) \subseteq Below(G, [tree EXCEPT ![e] = z]) \cup Below({e}, tree)
<1> DEFINE new == [tree EXCEPT ![e] = z]
           S == Below(G, new) \cup Below({e}, tree)
<1>1. {e} \subseteq Entry
  BY DEF Entry
<1>2. S \subseteq Entry /\ F \subseteq S
  BY <1>1, BelowIs
<1>3. Closed(S, tree)
  <2> SUFFICES ASSUME NEW c \in Id, tree[c] \in S PROVE c \in S
    BY DEF Closed
  <2>1. CASE c = e \/ tree[c] \in Below({e}, tree)
    BY <2>1, <1>1, BelowIs DEF Closed
  <2>2. CASE c # e /\ tree[c] \in Below(G, new)
    <3>1. new[c] = tree[c]
      BY <2>2 DEF Tree
    <3> QED
      BY <3>1, <2>2, BelowIs DEF Closed
  <2> QED
    BY <2>1, <2>2
<1> QED
  BY <1>2, <1>3, BelowIn

\* What was moved together stays together.
LEMMA BelowMoved ==
  ASSUME NEW tree \in Tree, NEW e \in Id, NEW z
  PROVE  Below({e}, [tree EXCEPT ![e] = z]) \subseteq Below({e}, tree)
<1>1. {e} \subseteq Entry
  BY DEF Entry
<1>2. Closed(Below({e}, tree), [tree EXCEPT ![e] = z])
  BY <1>1, BelowIs DEF Closed, Tree
<1> QED
  BY <1>1, <1>2, BelowIs, BelowIn

\* A new name only adds.
LEMMA BelowAdded ==
  ASSUME NEW F, NEW G, F \subseteq G, G \subseteq Entry,
         NEW tree \in Tree, NEW e \in Id, tree[e] \notin Entry, NEW z
  PROVE  Below(F, tree) \subseteq Below(G, [tree EXCEPT ![e] = z])
<1> DEFINE new == [tree EXCEPT ![e] = z]
<1>1. Below(G, new) \subseteq Entry /\ F \subseteq Below(G, new) /\ Closed(Below(G, new), new)
  BY BelowIs
<1>2. \A c \in Id : tree[c] \in Entry => new[c] = tree[c]
  BY DEF Tree
<1>3. Closed(Below(G, new), tree)
  BY <1>1, <1>2 DEF Closed
<1> QED
  BY <1>1, <1>3, BelowIn

\* An induction over places in a sequence, stated once.
LEMMA LeastIndex ==
  ASSUME NEW T, T \subseteq Nat, T # {}
  PROVE  \E n \in T : \A m \in T : n <= m
<1>1. PICK n \in T : \A m \in T : ~(<<m, n>> \in OpToRel(<, Nat))
  BY NatLessThanWellFounded, WFMin
<1>2. \A m \in T : ~(m < n)
  BY <1>1 DEF OpToRel
<1> QED
  BY <1>2

Path == {p \in Seq(Entry) : p # <<>> /\ p[1] = Root /\ \A i \in 2 .. Len(p) : p[i] \in Id}

Leads(p, tree) == \A i \in 2 .. Len(p) : tree[p[i]] = p[i - 1]

\* A path leads down: its end lies below each of its names.
LEMMA PathDown ==
  ASSUME NEW tree, NEW p \in Path, Leads(p, tree), NEW i \in 1 .. Len(p)
  PROVE  Last(p) \in Below({p[i]}, tree)
<1>1. Len(p) \in Nat /\ Len(p) >= 1 /\ \A j \in 1 .. Len(p) : p[j] \in Entry
  BY DEF Path
<1> SUFFICES ASSUME NEW S \in SUBSET Entry, p[i] \in S, Closed(S, tree), Last(p) \notin S
             PROVE  FALSE
  BY <1>1 DEF Below, Last
<1> DEFINE T == {j \in 1 .. Len(p) : i <= j /\ p[j] \notin S}
<1>2. T \subseteq Nat /\ Len(p) \in T
  BY <1>1 DEF Last
<1>3. PICK n \in T : \A m \in T : n <= m
  BY <1>2, LeastIndex
<1>4. n \in 1 .. Len(p) /\ i <= n /\ p[n] \notin S
  BY <1>3
<1>5. n # i /\ n \in 2 .. Len(p) /\ n - 1 \in 1 .. Len(p) /\ i <= n - 1
  BY <1>4, <1>1
<1>6. n - 1 \notin T
  BY <1>3, <1>5
<1>7. p[n - 1] \in S /\ p[n] \in Id
  BY <1>6, <1>5 DEF Path
<1>8. p[n] \in S
  BY <1>5, <1>7 DEF Leads, Closed
<1> QED
  BY <1>4, <1>8

-----------------------------------------------------------------------------
(* Types *)

Attr == [managed : BOOLEAN, setgid : BOOLEAN, grp : BOOLEAN, oth : BOOLEAN,
         acl : BOOLEAN, dacl : BOOLEAN]

Call == [at : {"start", "chown", "chmod", "acl", "list", "next", "ok", "error"},
         deep : BOOLEAN, pass : {"mode", "access", "default"},
         todo : SUBSET Path, path : Path, oth : BOOLEAN, soft : BOOLEAN]

\* Where a call may be with what.
CallOK(c) ==
  /\ \A p \in c.todo : Len(p) > 1
  /\ c.at = "start" => c.path = <<Root>> /\ c.todo = {} /\ c.pass = "mode"
  /\ c.at = "ok" => c.todo = {}
  /\ c.at \in {"chown", "chmod"} => c.pass = "mode"
  /\ c.at = "acl" => c.pass # "mode"
  /\ c.at = "list" => c.deep /\ IsDir(Last(c.path))

Typed ==
  /\ parent \in Tree
  /\ attr \in [Entry -> Attr]
  /\ call \in [Walker -> Call]
  /\ \A w \in Walker : CallOK(call[w])
  /\ touched \subseteq Id /\ narrowed \subseteq Entry
  /\ client \in 0 .. MaxClient /\ errors \in 0 .. MaxErrors

LEMMA RootPath == <<Root>> \in Path /\ Last(<<Root>>) = Root /\ \A tree : Leads(<<Root>>, tree)
BY DEF Path, Last, Leads, Entry

LEMMA PathEnds ==
  ASSUME NEW p \in Path
  PROVE  /\ Last(p) \in Entry /\ Len(p) \in Nat /\ Len(p) >= 1
         /\ p # <<Root>> => Len(p) > 1
         /\ Len(p) > 1 => Last(p) \in Id
<1>1. Len(p) \in Nat /\ Len(p) >= 1 /\ \A j \in 1 .. Len(p) : p[j] \in Entry
  BY DEF Path
<1>2. Len(p) = 1 => p = <<Root>>
  BY DEF Path
<1>3. \A i \in 2 .. Len(p) : p[i] \in Id
  BY DEF Path
<1> QED
  BY <1>1, <1>2, <1>3 DEF Last

LEMMA PathGrows ==
  ASSUME NEW p \in Path, NEW e \in Id
  PROVE  /\ Append(p, e) \in Path /\ Len(Append(p, e)) > 1 /\ Last(Append(p, e)) = e
         /\ \A tree : Leads(p, tree) /\ tree[e] = Last(p) => Leads(Append(p, e), tree)
<1>1. Len(p) \in Nat /\ Len(p) >= 1 /\ p \in Seq(Entry) /\ e \in Entry
  BY PathEnds DEF Path, Entry
<1>2. /\ Append(p, e) \in Seq(Entry) /\ Len(Append(p, e)) = Len(p) + 1
      /\ Append(p, e)[Len(p) + 1] = e
      /\ \A i \in 1 .. Len(p) : Append(p, e)[i] = p[i]
  BY <1>1
<1>3. Append(p, e) \in Path
  <2>1. p[1] = Root /\ \A i \in 2 .. Len(p) : p[i] \in Id
    BY DEF Path
  <2>2. Append(p, e)[1] = Root
    BY <2>1, <1>1, <1>2
  <2>3. ASSUME NEW i \in 2 .. Len(p) + 1 PROVE Append(p, e)[i] \in Id
    <3>1. CASE i = Len(p) + 1
      BY <3>1, <1>2
    <3>2. CASE i # Len(p) + 1
      <4>1. i \in 2 .. Len(p) /\ i \in 1 .. Len(p)
        BY <3>2, <1>1
      <4> QED
        BY <4>1, <2>1, <1>2
    <3> QED
      BY <3>1, <3>2
  <2>4. Append(p, e) # <<>>
    BY <1>1, <1>2
  <2> QED
    BY <1>2, <2>2, <2>3, <2>4 DEF Path
<1>4. ASSUME NEW tree, Leads(p, tree), tree[e] = Last(p) PROVE Leads(Append(p, e), tree)
  <2> SUFFICES ASSUME NEW i \in 2 .. Len(p) + 1
               PROVE  tree[Append(p, e)[i]] = Append(p, e)[i - 1]
    BY <1>2 DEF Leads
  <2>1. CASE i = Len(p) + 1
    BY <2>1, <1>1, <1>2, <1>4 DEF Last
  <2>2. CASE i # Len(p) + 1
    <3>1. i \in 2 .. Len(p) /\ i - 1 \in 1 .. Len(p) /\ i \in 1 .. Len(p)
      BY <2>2, <1>1
    <3> QED
      BY <3>1, <1>2, <1>4 DEF Leads
  <2> QED
    BY <2>1, <2>2
<1> QED
  BY <1>1, <1>2, <1>3, <1>4 DEF Last

LEMMA SubtreeInIds == ASSUME NEW e \in Id PROVE Subtree(e) \subseteq Id
<1>1. Closed(Id, parent) /\ Id \subseteq Entry
  BY DEF Closed, Entry
<1> QED
  BY <1>1, BelowIn DEF Subtree

LEMMA TypedTypeOK == Typed => TypeOK
<1> SUFFICES ASSUME Typed PROVE TypeOK
  OBVIOUS
<1>1. Flags = {"managed", "setgid", "grp", "oth", "acl", "dacl"}
  BY DEF Flags, Untouched
<1>2. \A a \in Attr : a \in [Flags -> BOOLEAN]
  BY <1>1 DEF Attr
<1>3. attr \in [Entry -> [Flags -> BOOLEAN]]
  BY <1>2 DEF Typed
<1>4. ASSUME NEW w \in Walker
      PROVE  /\ call[w].at \in {"start", "chown", "chmod", "acl", "list", "next", "ok", "error"}
             /\ call[w].pass \in {"mode", "access", "default"}
             /\ \A p \in call[w].todo \cup {call[w].path} :
                  p[1] = Root /\ \A i \in 2 .. Len(p) : p[i] \in Id
  <2>1. call[w] \in Call
    BY DEF Typed
  <2>2. \A p \in call[w].todo \cup {call[w].path} : p \in Path
    BY <2>1 DEF Call
  <2> QED
    BY <2>1, <2>2 DEF Call, Path
<1> QED
  BY <1>3, <1>4 DEF Typed, TypeOK, Tree

\* One call goes on; the rest of the typing.
Surroundings ==
  /\ parent' \in Tree /\ attr' \in [Entry -> Attr]
  /\ touched' \subseteq Id /\ narrowed' \subseteq Entry
  /\ client' \in 0 .. MaxClient /\ errors' \in 0 .. MaxErrors

Becomes(w, c) == call' = [call EXCEPT ![w] = c]

LEMMA CallTyped ==
  ASSUME Typed, NEW w \in Walker, NEW c \in Call, CallOK(c), Becomes(w, c), Surroundings
  PROVE  Typed'
<1>1. \A q \in Walker : call'[q] = IF q = w THEN c ELSE call[q]
  BY DEF Becomes, Typed
<1>2. call' \in [Walker -> Call]
  BY DEF Becomes, Typed
<1>3. ASSUME NEW q \in Walker PROVE CallOK(call'[q])
  BY <1>1 DEF Typed
<1> QED
  BY <1>2, <1>3 DEF Typed, Surroundings

\* The records a step puts in place of a call.
Placed(c, place) == [c EXCEPT !.at = place]
Returned(c, answer) == [Idle EXCEPT !.at = answer, !.deep = c.deep, !.soft = c.soft]
Passing(c, p) == [c EXCEPT !.at = "acl", !.pass = p, !.path = <<Root>>]
Onward(c) == IF IsDir(Last(c.path)) /\ c.deep THEN "list" ELSE "next"

LEMMA RecordsTyped ==
  ASSUME NEW c \in Call, CallOK(c)
  PROVE  /\ \A s \in {"ok", "error"} : Returned(c, s) \in Call /\ CallOK(Returned(c, s))
         /\ c.at # "start" => Placed(c, "next") \in Call /\ CallOK(Placed(c, "next"))
         /\ c.at # "start" => Placed(c, Onward(c)) \in Call /\ CallOK(Placed(c, Onward(c)))
         /\ \A p \in {"access", "default"} : Passing(c, p) \in Call /\ CallOK(Passing(c, p))
         /\ c.pass = "mode" => Placed(c, "chmod") \in Call /\ CallOK(Placed(c, "chmod"))
<1> USE RootPath DEF Call, CallOK
<1>1. \A s \in {"ok", "error"} : Returned(c, s) \in Call /\ CallOK(Returned(c, s))
  BY DEF Returned, Idle
<1>2. c.at # "start" => Placed(c, "next") \in Call /\ CallOK(Placed(c, "next"))
  BY DEF Placed
<1>3. c.at # "start" => Placed(c, Onward(c)) \in Call /\ CallOK(Placed(c, Onward(c)))
  BY DEF Placed, Onward
<1>4. \A p \in {"access", "default"} : Passing(c, p) \in Call /\ CallOK(Passing(c, p))
  BY DEF Passing
<1>5. c.pass = "mode" => Placed(c, "chmod") \in Call /\ CallOK(Placed(c, "chmod"))
  BY DEF Placed
<1> QED
  BY <1>1, <1>2, <1>3, <1>4, <1>5

LEMMA ErrorsTyped ==
  ASSUME Typed, Failing \/ NoFailure PROVE errors' \in 0 .. MaxErrors
BY WalkAssumption DEF Typed, Failing, NoFailure

\* How the actions put the records there.
LEMMA Puts ==
  ASSUME Typed, NEW w \in Walker
  PROVE  /\ \A s : Goto(w, s) <=> Becomes(w, Placed(call[w], s))
         /\ \A s : Return(w, s) <=> Becomes(w, Returned(call[w], s))
         /\ \A p : StartPass(w, p) <=> Becomes(w, Passing(call[w], p))
         /\ Descend(w) = Onward(call[w])
<1>1. call[w] \in Call
  BY DEF Typed
<1> QED
  BY <1>1 DEF Goto, Return, StartPass, Descend, Becomes, Placed, Returned, Passing, Onward,
     Typed, Call

\* An error at the root, or below it.
LEMMA Tolerated ==
  ASSUME Typed, NEW w \in Walker, NEW place, NEW excused, Tolerate(w, place, excused)
  PROVE  \/ Becomes(w, Returned(call[w], "error")) /\ touched' = touched
         \/ /\ Becomes(w, Placed(call[w], place)) /\ touched' = touched \cup excused
            /\ Last(call[w].path) \in Id /\ call[w].path # <<Root>>
<1>1. call[w].path \in Path
  BY DEF Typed, Call
<1> QED
  BY <1>1, Puts, PathEnds DEF Tolerate

\* What a walker makes of the attributes of the entry it is at.
AttrChange(e, s) ==
  \/ attr' = attr
  \/ attr' = [attr EXCEPT ![e].managed = TRUE]
  \/ attr' = [attr EXCEPT ![e].setgid = IsDir(e), ![e].grp = TRUE, ![e].oth = s]
  \/ attr' = [attr EXCEPT ![e].dacl = TRUE]
  \/ attr' = [attr EXCEPT ![e] = [@ EXCEPT !.acl = TRUE, !.grp = TRUE, !.oth = FALSE]]

LEMMA AttrTyped ==
  ASSUME Typed, NEW e \in Entry, NEW s \in BOOLEAN, AttrChange(e, s)
  PROVE  attr' \in [Entry -> Attr]
<1>1. attr \in [Entry -> Attr] /\ attr[e] \in Attr /\ IsDir(e) \in BOOLEAN
  BY DEF Typed, IsDir
<1>2. /\ [attr[e] EXCEPT !.managed = TRUE] \in Attr
      /\ [attr[e] EXCEPT !.setgid = IsDir(e), !.grp = TRUE, !.oth = s] \in Attr
      /\ [attr[e] EXCEPT !.acl = TRUE, !.grp = TRUE, !.oth = FALSE] \in Attr
      /\ [attr[e] EXCEPT !.dacl = TRUE] \in Attr
  BY <1>1 DEF Attr
<1>3. CASE attr' = [attr EXCEPT ![e].managed = TRUE]
  BY <1>1, <1>2, <1>3
<1>4. CASE attr' = [attr EXCEPT ![e].setgid = IsDir(e), ![e].grp = TRUE, ![e].oth = s]
  BY <1>1, <1>2, <1>4
<1>5. CASE attr' = [attr EXCEPT ![e].dacl = TRUE]
  BY <1>1, <1>2, <1>5
<1>6. CASE attr' = [attr EXCEPT ![e] = [@ EXCEPT !.acl = TRUE, !.grp = TRUE, !.oth = FALSE]]
  BY <1>1, <1>2, <1>6
<1> QED
  BY <1>1, <1>3, <1>4, <1>5, <1>6 DEF AttrChange

LEMMA WalkerAttr ==
  ASSUME NEW w \in Walker, Work(w)
  PROVE  AttrChange(Last(call[w].path), call[w].oth)
<1>1. CASE Chown(w)
  BY <1>1 DEF Chown, AttrChange
<1>2. CASE Chmod(w)
  BY <1>2 DEF Chmod, AttrChange
<1>3. CASE Acl(w)
  BY <1>3 DEF Acl, SetFacl, SetDefault, AttrChange
<1>4. CASE Begin(w) \/ List(w) \/ Visit(w) \/ NextPass(w)
  BY <1>4 DEF Begin, List, Visit, NextPass, AttrChange
<1> QED
  BY <1>1, <1>2, <1>3, <1>4 DEF Work

LEMMA BeginTyped ==
  ASSUME Typed, NEW w \in Walker, Begin(w) PROVE Typed'
<1> DEFINE c == call[w]
<1>1. c \in Call /\ CallOK(c) /\ c.at = "start"
  BY DEF Typed, Begin, At
<1>2. Surroundings
  BY ErrorsTyped DEF Begin, Surroundings, Typed
<1>3. CASE Return(w, "error")
  BY <1>1, <1>2, <1>3, Puts, RecordsTyped, CallTyped
<1>4. ASSUME NEW deep \in BOOLEAN,
             call' = [call EXCEPT ![w].at = "chown", ![w].deep = deep, ![w].oth = attr[Root].oth]
      PROVE  Typed'
  <2> DEFINE d == [c EXCEPT !.at = "chown", !.deep = deep, !.oth = attr[Root].oth]
  <2>1. attr[Root].oth \in BOOLEAN
    BY DEF Typed, Attr, Entry
  <2>2. d \in Call /\ CallOK(d)
    BY <1>1, <2>1 DEF Call, CallOK
  <2>3. Becomes(w, d)
    BY <1>1, <1>4 DEF Becomes, Typed, Call
  <2> QED
    BY <1>2, <2>2, <2>3, CallTyped
<1> QED
  BY <1>3, <1>4 DEF Begin

LEMMA EntryTyped ==
  ASSUME Typed, NEW w \in Walker, Chown(w) \/ Chmod(w) \/ Acl(w) PROVE Typed'
<1> DEFINE c == call[w]
           e == Last(c.path)
<1>1. c \in Call /\ CallOK(c) /\ c.path \in Path /\ e \in Entry /\ c.oth \in BOOLEAN
  BY PathEnds DEF Typed, Call
<1>2. c.at \in {"chown", "chmod", "acl"}
  BY DEF Chown, Chmod, Acl, At
<1>3. attr' \in [Entry -> Attr]
  BY <1>1, WalkerAttr, AttrTyped DEF Work
<1>4. errors' \in 0 .. MaxErrors
  BY ErrorsTyped DEF Chown, Chmod, Acl
<1>5. CASE touched' = touched
  <2>1. Surroundings
    BY <1>3, <1>4, <1>5 DEF Chown, Chmod, Acl, Surroundings, Typed
  <2>2. CASE Becomes(w, Returned(c, "error"))
    BY <1>1, <2>1, <2>2, RecordsTyped, CallTyped
  <2>3. CASE Becomes(w, Placed(c, Onward(c)))
    BY <1>1, <1>2, <2>1, <2>3, RecordsTyped, CallTyped
  <2>4. CASE At(w, "chown") /\ Becomes(w, Placed(c, "chmod"))
    BY <1>1, <2>1, <2>4, RecordsTyped, CallTyped DEF At, CallOK
  <2>5. CASE At(w, "acl") /\ call' = [call EXCEPT ![w].at = "next", ![w].soft = TRUE]
    <3> DEFINE d == [c EXCEPT !.at = "next", !.soft = TRUE]
    <3>1. d \in Call /\ CallOK(d)
      BY <1>1 DEF Call, CallOK
    <3>2. Becomes(w, d)
      BY <2>5 DEF Becomes, Typed, Call
    <3> QED
      BY <2>1, <3>1, <3>2, CallTyped
  <2>6. CASE Tolerate(w, Descend(w), {})
    <3>1. Becomes(w, Returned(c, "error")) \/ Becomes(w, Placed(c, Onward(c)))
      BY <2>6, Tolerated, Puts
    <3> QED
      BY <3>1, <2>2, <2>3
  <2>7. CASE Tolerate(w, Descend(w), {e})
    <3>1. Becomes(w, Returned(c, "error")) \/ Becomes(w, Placed(c, Onward(c)))
      BY <2>7, Tolerated, Puts
    <3> QED
      BY <3>1, <2>2, <2>3
  <2> QED
    BY <2>3, <2>4, <2>5, <2>6, <2>7, Puts DEF Chown, Chmod, Acl
<1>6. CASE Tolerate(w, Descend(w), {e}) /\ touched' # touched
  <2>1. /\ Becomes(w, Placed(c, Onward(c))) /\ touched' = touched \cup {e} /\ e \in Id
    BY <1>6, Tolerated, Puts
  <2>2. Surroundings
    BY <1>3, <1>4, <2>1 DEF Chown, Chmod, Acl, Surroundings, Typed
  <2> QED
    BY <1>1, <1>2, <2>1, <2>2, RecordsTyped, CallTyped
<1>7. touched' = touched \/ Tolerate(w, Descend(w), {e})
  <2>1. Tolerate(w, Descend(w), {}) => touched' = touched
    BY DEF Tolerate
  <2> QED
    BY <2>1 DEF Chown, Chmod, Acl
<1> QED
  BY <1>5, <1>6, <1>7

LEMMA ListTyped ==
  ASSUME Typed, NEW w \in Walker, List(w) PROVE Typed'
<1> DEFINE c == call[w]
           e == Last(c.path)
<1>1. c \in Call /\ CallOK(c) /\ c.path \in Path /\ c.todo \subseteq Path /\ c.at = "list"
  BY DEF Typed, Call, List, At
<1>2. errors' \in 0 .. MaxErrors
  BY ErrorsTyped DEF List
<1>3. CASE Tolerate(w, "next", IF Resolves(c.path) THEN Subtree(e) ELSE {})
  <2>1. touched' \subseteq Id
    BY <1>3, Tolerated, SubtreeInIds DEF Typed
  <2>2. Surroundings
    BY <1>2, <2>1 DEF List, Surroundings, Typed
  <2> QED
    BY <1>1, <1>3, <2>2, Tolerated, RecordsTyped, CallTyped
<1>4. CASE call' = [call EXCEPT ![w].at = "next", ![w].todo = @ \cup Children(c.path)] /\ UNCHANGED touched
  <2> DEFINE d == [c EXCEPT !.at = "next", !.todo = @ \cup Children(c.path)]
  <2>1. Surroundings
    BY <1>2, <1>4 DEF List, Surroundings, Typed
  <2>2. \A p \in Children(c.path) : p \in Path /\ Len(p) > 1
    BY <1>1, PathGrows DEF Children
  <2>3. d \in Call /\ CallOK(d)
    BY <1>1, <2>2 DEF Call, CallOK
  <2>4. Becomes(w, d)
    BY <1>4 DEF Becomes, Typed, Call
  <2> QED
    BY <2>1, <2>3, <2>4, CallTyped
<1>5. CASE call' = [call EXCEPT ![w].at = "next", ![w].soft = TRUE] /\ UNCHANGED touched
  <2> DEFINE d == [c EXCEPT !.at = "next", !.soft = TRUE]
  <2>1. Surroundings
    BY <1>2, <1>5 DEF List, Surroundings, Typed
  <2>2. d \in Call /\ CallOK(d)
    BY <1>1 DEF Call, CallOK
  <2>3. Becomes(w, d)
    BY <1>5 DEF Becomes, Typed, Call
  <2> QED
    BY <2>1, <2>2, <2>3, CallTyped
<1> QED
  BY <1>3, <1>4, <1>5 DEF List

\* What becomes of a call that takes p from what is to come.
Taken(c, p) == [c EXCEPT !.todo = @ \ {p}, !.path = p]
Entered(c, p) ==
  [Taken(c, p) EXCEPT !.at = IF c.pass = "mode" THEN "chown" ELSE "acl",
                      !.oth = attr[Last(p)].oth]
Softened(c) == [c EXCEPT !.soft = TRUE]

\* The four ways in which an entry is visited.
Visits(w, p) ==
  LET c == call[w] IN
  \/ /\ Resolves(p) /\ Kind[Last(p)] # "link"
     /\ Becomes(w, Entered(c, p)) /\ UNCHANGED touched
  \/ /\ Kind[Last(p)] = "link" \/ (~Resolves(p) /\ c.pass = "mode")
     /\ Becomes(w, Taken(c, p)) /\ UNCHANGED touched
  \/ /\ c.pass # "mode"
     /\ Becomes(w, Softened(Taken(c, p))) /\ UNCHANGED touched
  \/ /\ c.pass = "mode"
     /\ Becomes(w, Taken(c, p)) /\ touched' = touched \cup Subtree(Last(p))

LEMMA VisitVisits ==
  ASSUME NEW w \in Walker, Typed, Visit(w)
  PROVE  /\ \E p \in call[w].todo : Visits(w, p)
         /\ At(w, "next") /\ UNCHANGED <<parent, attr, narrowed, client>>
         /\ Failing \/ NoFailure
<1>1. call[w] \in Call
  BY DEF Typed
<1>2. PICK p \in call[w].todo :
       LET c == [call[w] EXCEPT !.todo = @ \ {p}, !.path = p]
           e == Last(p)
       IN
       \/ /\ Resolves(p) /\ Kind[e] # "link" /\ NoFailure
          /\ call' = [call EXCEPT ![w] = [c EXCEPT
                        !.at = IF c.pass = "mode" THEN "chown" ELSE "acl",
                        !.oth = attr[e].oth]]
          /\ UNCHANGED touched
       \/ /\ Kind[e] = "link" \/ (~Resolves(p) /\ c.pass = "mode")
          /\ NoFailure
          /\ call' = [call EXCEPT ![w] = c]
          /\ UNCHANGED touched
       \/ /\ Kind[e] # "link" /\ ~Resolves(p) /\ c.pass # "mode" /\ NoFailure
          /\ call' = [call EXCEPT ![w] = [c EXCEPT !.soft = TRUE]]
          /\ UNCHANGED touched
       \/ /\ Resolves(p) /\ Failing
          /\ IF c.pass = "mode"
             THEN /\ call' = [call EXCEPT ![w] = c]
                  /\ touched' = touched \cup Subtree(e)
             ELSE /\ call' = [call EXCEPT ![w] = [c EXCEPT !.soft = TRUE]]
                  /\ UNCHANGED touched
  BY DEF Visit
<1>3. Taken(call[w], p).pass = call[w].pass
  BY <1>1 DEF Taken, Call
<1>4. Visits(w, p)
  BY <1>2, <1>3 DEF Visits, Taken, Entered, Softened, Becomes
<1> QED
  BY <1>2, <1>4 DEF Visit

LEMMA VisitTyped ==
  ASSUME Typed, NEW w \in Walker, Visit(w) PROVE Typed'
<1> DEFINE c == call[w]
<1>1. PICK p \in c.todo : Visits(w, p)
  BY VisitVisits
<1>2. c \in Call /\ CallOK(c) /\ c.at = "next" /\ p \in Path /\ Len(p) > 1
  BY VisitVisits DEF Typed, Call, At, CallOK
<1>3. Last(p) \in Id /\ attr[Last(p)].oth \in BOOLEAN
  BY <1>2, PathEnds DEF Typed, Attr, Entry
<1>4. Surroundings
  <2>1. touched' \subseteq Id
    BY <1>1, <1>3, SubtreeInIds DEF Visits, Typed
  <2> QED
    BY <2>1, VisitVisits, ErrorsTyped DEF Surroundings, Typed
<1>5. Taken(c, p) \in Call /\ CallOK(Taken(c, p))
  BY <1>2 DEF Taken, Call, CallOK
<1>6. Softened(Taken(c, p)) \in Call /\ CallOK(Softened(Taken(c, p)))
  BY <1>5, <1>2 DEF Softened, Taken, Call, CallOK
<1>7. Entered(c, p) \in Call /\ CallOK(Entered(c, p))
  BY <1>2, <1>3 DEF Entered, Taken, Call, CallOK
<1> QED
  BY <1>1, <1>4, <1>5, <1>6, <1>7, CallTyped DEF Visits

LEMMA NextPassTyped ==
  ASSUME Typed, NEW w \in Walker, NextPass(w) PROVE Typed'
<1> DEFINE c == call[w]
           d == [Idle EXCEPT !.at = "ok", !.deep = c.deep, !.soft = TRUE]
<1>1. c \in Call /\ CallOK(c)
  BY DEF Typed
<1>2. Surroundings
  BY ErrorsTyped DEF NextPass, Surroundings, Typed
<1>3. d \in Call /\ CallOK(d)
  BY <1>1, RootPath DEF Call, CallOK, Idle
<1>4. \/ \E p \in {"access", "default"} : Becomes(w, Passing(c, p))
      \/ Becomes(w, Returned(c, "ok")) \/ Becomes(w, d)
  BY Puts DEF NextPass, Becomes
<1> QED
  BY <1>1, <1>2, <1>3, <1>4, RecordsTyped, CallTyped

LEMMA ClientTyped ==
  ASSUME Typed, Create \/ Delete \/ Move \/ ClientChmod PROVE Typed'
<1>1. UNCHANGED <<call, errors>>
  BY DEF Create, Delete, Move, ClientChmod
<1>2. client' \in 0 .. MaxClient
  <2>1. ClientStep \/ client' = client
    BY DEF Create, Delete, Move, ClientChmod
  <2> QED
    BY <2>1, WalkAssumption DEF ClientStep, Typed
<1>3. Surroundings
  <2>1. CASE Create
    <3> PICK d \in Live, e \in Id \ Live, smb \in BOOLEAN :
          /\ parent' = [parent EXCEPT ![e] = d]
          /\ attr' = [attr EXCEPT ![e] = Created(d, e, smb)]
          /\ touched' = IF d \in touched THEN touched \cup {e} ELSE touched \ {e}
          /\ narrowed' = IF attr'[e].grp THEN narrowed \ {e} ELSE narrowed \cup {e}
      BY <2>1 DEF Create
    <3>1. d \in Entry /\ e \in Entry /\ attr[d] \in Attr
      BY DEF Live, Entry, Typed
    <3>2. Created(d, e, smb) \in Attr
      BY <3>1 DEF Created, Attr, IsDir
    <3> QED
      BY <1>1, <1>2, <3>1, <3>2 DEF Surroundings, Typed, Tree
  <2>2. CASE Delete
    <3>1. Untouched \in Attr
      BY DEF Untouched, Attr
    <3> QED
      BY <1>1, <1>2, <2>2, <3>1 DEF Delete, Surroundings, Typed, Tree
  <2>3. CASE Move
    <3> PICK e \in Working, d \in Live :
          parent' = [parent EXCEPT ![e] = d] /\ touched' = touched \cup Subtree(e)
      BY <2>3 DEF Move
    <3>1. d \in Entry /\ e \in Id
      BY DEF Working, Live, Entry
    <3> QED
      BY <1>1, <1>2, <2>3, <3>1, SubtreeInIds DEF Move, Surroundings, Typed, Tree
  <2>4. CASE ClientChmod
    <3> PICK e \in Working \cup {Root}, open \in BOOLEAN :
          /\ attr' = [attr EXCEPT ![e].grp = open, ![e].oth = open]
          /\ narrowed' = IF open THEN narrowed ELSE narrowed \cup {e}
      BY <2>4 DEF ClientChmod
    <3>1. e \in Entry /\ attr[e] \in Attr
      BY DEF Working, Live, Entry, Typed
    <3>2. [attr[e] EXCEPT !.grp = open, !.oth = open] \in Attr
      BY <3>1 DEF Attr
    <3>3. attr' \in [Entry -> Attr]
      BY <3>1, <3>2 DEF Typed
    <3> QED
      BY <1>1, <1>2, <2>4, <3>1, <3>3 DEF ClientChmod, Surroundings, Typed
  <2> QED
    BY <2>1, <2>2, <2>3, <2>4
<1> QED
  BY <1>1, <1>3 DEF Surroundings, Typed

LEMMA NextTyped == Typed /\ [Next]_vars => Typed'
<1> SUFFICES ASSUME Typed, [Next]_vars PROVE Typed'
  OBVIOUS
<1>1. CASE \E w \in Walker : Work(w)
  BY <1>1, BeginTyped, EntryTyped, ListTyped, VisitTyped, NextPassTyped DEF Work
<1>2. CASE Create \/ Delete \/ Move \/ ClientChmod
  BY <1>2, ClientTyped
<1>3. CASE UNCHANGED vars
  BY <1>3 DEF vars, Typed
<1> QED
  BY <1>1, <1>2, <1>3 DEF Next

-----------------------------------------------------------------------------
(* The tree *)

LEMMA LiveBelow ==
  ASSUME IsTree(parent), NEW e \in Live PROVE e \in Entry /\ e \in Below({Root}, parent)
<1>1. {Root} \subseteq Entry
  BY DEF Entry
<1> QED
  BY <1>1, BelowIs DEF IsTree, Live, Entry

\* An entry without children has nothing below it.
LEMMA Childless ==
  ASSUME NEW e \in Entry, NEW tree, KidsIn(e, tree) = {}
  PROVE  Below({e}, tree) = {e}
<1>1. Closed({e}, tree)
  BY DEF Closed, KidsIn
<1> QED
  BY <1>1, BelowIn, BelowIs

LEMMA MoveTree ==
  ASSUME Typed, IsTree(parent), NEW e \in Id, parent[e] # Gone,
         NEW d \in Live, IsDir(d), d \notin Subtree(e)
  PROVE  IsTree([parent EXCEPT ![e] = d])
<1> DEFINE new == [parent EXCEPT ![e] = d]
           B == Below({Root}, new)
<1>1. /\ parent \in Tree /\ {Root} \subseteq Entry /\ {e} \subseteq Entry
      /\ d \in Entry /\ d \in Below({Root}, parent) /\ Gone \notin Entry
  BY LiveBelow, WalkAssumption DEF Typed, Entry
<1>2. B \subseteq Entry /\ {Root} \subseteq B /\ Closed(B, new)
  BY <1>1, BelowIs
<1>3. new[e] = d /\ \A c \in Id : c # e => new[c] = parent[c]
  BY <1>1 DEF Tree
<1>4. d \in B
  <2>1. Below({Root}, parent) \subseteq B \cup Below({e}, parent)
    BY <1>1, BelowCut
  <2> QED
    BY <2>1, <1>1 DEF Subtree
<1>5. Closed(B, parent)
  BY <1>2, <1>3, <1>4 DEF Closed
<1>6. Below({Root}, parent) \subseteq B
  BY <1>2, <1>5, BelowIn
<1>7. e # d
  BY <1>1, BelowIs DEF Subtree
<1>8. ASSUME NEW c \in Id, new[c] # Gone
      PROVE  /\ Kind[new[c]] = "dir" /\ (new[c] \in Id => new[new[c]] # Gone)
             /\ c \in B
  <2>1. parent[c] # Gone
    BY <1>3, <1>8
  <2>2. /\ Kind[parent[c]] = "dir" /\ (parent[c] \in Id => parent[parent[c]] # Gone)
        /\ c \in B
    BY <2>1, <1>6 DEF IsTree
  <2>3. CASE c = e
    <3>1. d \in Id => new[d] # Gone
      BY <1>3, <1>7, WalkAssumption DEF Live
    <3> QED
      BY <2>2, <2>3, <3>1, <1>3 DEF IsDir
  <2>4. CASE c # e
    <3>1. parent[c] = e => new[e] # Gone
      BY <1>1, <1>3
    <3> QED
      BY <2>2, <2>4, <3>1, <1>3
  <2> QED
    BY <2>3, <2>4
<1> QED
  BY <1>8 DEF IsTree

LEMMA DeleteTree ==
  ASSUME Typed, IsTree(parent), NEW e \in Id, e \notin {parent[x] : x \in Id}
  PROVE  IsTree([parent EXCEPT ![e] = Gone])
<1> DEFINE new == [parent EXCEPT ![e] = Gone]
           B == Below({Root}, new)
<1>1. /\ parent \in Tree /\ {Root} \subseteq Entry /\ e \in Entry
  BY DEF Typed, Entry
<1>2. new[e] = Gone /\ \A c \in Id : c # e => new[c] = parent[c]
  BY <1>1 DEF Tree
<1>3. Below({e}, parent) = {e}
  BY <1>1, Childless DEF KidsIn
<1>4. Below({Root}, parent) \subseteq B \cup {e}
  BY <1>1, <1>3, BelowCut
<1>5. ASSUME NEW c \in Id, new[c] # Gone
      PROVE  /\ Kind[new[c]] = "dir" /\ (new[c] \in Id => new[new[c]] # Gone)
             /\ c \in B
  <2>1. c # e /\ parent[c] # Gone /\ parent[c] # e
    BY <1>2, <1>5
  <2> QED
    BY <2>1, <1>2, <1>4 DEF IsTree
<1> QED
  BY <1>5 DEF IsTree

LEMMA CreateTree ==
  ASSUME Typed, IsTree(parent), NEW e \in Id, parent[e] = Gone, NEW d \in Live, IsDir(d)
  PROVE  IsTree([parent EXCEPT ![e] = d])
<1> DEFINE new == [parent EXCEPT ![e] = d]
           B == Below({Root}, new)
<1>1. /\ parent \in Tree /\ {Root} \subseteq Entry /\ e \in Entry
      /\ d \in Entry /\ d \in Below({Root}, parent) /\ Gone \notin Entry
  BY LiveBelow, WalkAssumption DEF Typed, Entry
<1>2. new[e] = d /\ \A c \in Id : c # e => new[c] = parent[c]
  BY <1>1 DEF Tree
<1>3. Below({Root}, parent) \subseteq B
  BY <1>1, BelowAdded
<1>4. e \in B
  BY <1>1, <1>2, <1>3, BelowIs DEF Closed
<1>5. ASSUME NEW c \in Id, new[c] # Gone
      PROVE  /\ Kind[new[c]] = "dir" /\ (new[c] \in Id => new[new[c]] # Gone)
             /\ c \in B
  <2>1. CASE c = e
    <3>1. d \in Id => new[d] # Gone
      BY <1>1, <1>2, WalkAssumption DEF Live
    <3> QED
      BY <2>1, <3>1, <1>2, <1>4 DEF IsDir
  <2>2. CASE c # e
    <3>1. parent[c] # Gone
      BY <1>2, <1>5, <2>2
    <3>2. parent[c] = e => new[e] # Gone
      BY <1>1, <1>2
    <3> QED
      BY <2>2, <3>1, <3>2, <1>2, <1>3 DEF IsTree
  <2> QED
    BY <2>1, <2>2
<1> QED
  BY <1>5 DEF IsTree

LEMMA NextTree == Typed /\ IsTree(parent) /\ [Next]_vars => IsTree(parent')
<1> SUFFICES ASSUME Typed, IsTree(parent), [Next]_vars PROVE IsTree(parent')
  OBVIOUS
<1>1. CASE Create
  <2> PICK d \in Live, e \in Id \ Live : IsDir(d) /\ parent' = [parent EXCEPT ![e] = d]
    BY <1>1 DEF Create
  <2>1. parent[e] = Gone
    BY DEF Live
  <2> QED
    BY <2>1, CreateTree
<1>2. CASE Delete
  <2> PICK e \in Working : /\ e \notin {parent[x] : x \in Id}
                           /\ parent' = [parent EXCEPT ![e] = Gone]
    BY <1>2 DEF Delete
  <2>1. e \in Id
    BY DEF Working, Live
  <2> QED
    BY <2>1, DeleteTree
<1>3. CASE Move
  <2> PICK e \in Working, d \in Live : /\ IsDir(d) /\ d \notin Subtree(e)
                                       /\ parent' = [parent EXCEPT ![e] = d]
    BY <1>3 DEF Move
  <2>1. e \in Id /\ parent[e] # Gone
    BY DEF Working, Live
  <2> QED
    BY <2>1, MoveTree
<1>4. CASE UNCHANGED parent
  BY <1>4
<1> QED
  BY <1>1, <1>2, <1>3, <1>4
     DEF Next, Work, Begin, Chown, Chmod, Acl, List, Visit, NextPass, ClientChmod, vars

-----------------------------------------------------------------------------
(* What a walk has still to do *)

Ends(todo, tree) == {Last(p) : p \in {q \in todo : Leads(q, tree)}}

Here(c, tree) ==
  IF ~Leads(c.path, tree) THEN {}
  ELSE IF c.at \in {"chown", "chmod", "acl"} THEN {Last(c.path)}
  ELSE IF c.at = "list" THEN KidsIn(Last(c.path), tree)
  ELSE {}

Front(c, tree) == Ends(c.todo, tree) \cup Here(c, tree)

Ahead(c, tree) == Below(Front(c, tree), tree)

LEMMA FrontIn ==
  ASSUME NEW c \in Call, NEW tree
  PROVE  Ends(c.todo, tree) \subseteq Entry /\ Front(c, tree) \subseteq Entry
<1>1. \A p \in c.todo \cup {c.path} : p \in Path
  BY DEF Call
<1>2. \A p \in c.todo \cup {c.path} : Last(p) \in Entry
  BY <1>1, PathEnds
<1> QED
  BY <1>2 DEF Ends, Front, Here, KidsIn, Entry

LEMMA PathCut ==
  ASSUME NEW tree \in Tree, NEW e \in Id, NEW z, NEW p \in Path,
         ~(Leads(p, tree) <=> Leads(p, [tree EXCEPT ![e] = z]))
  PROVE  Last(p) \in Below({e}, tree)
<1> DEFINE new == [tree EXCEPT ![e] = z]
<1>1. PICK i \in 2 .. Len(p) : p[i] = e
  <2>1. \A i \in 2 .. Len(p) : p[i] \in Id
    BY DEF Path
  <2>2. \A c \in Id : c # e => new[c] = tree[c]
    BY DEF Tree
  <2>3. Leads(p, tree) \in BOOLEAN /\ Leads(p, new) \in BOOLEAN
    BY DEF Leads
  <2> HIDE DEF new
  <2> QED
    BY <2>1, <2>2, <2>3 DEF Leads, new
<1>2. i \in 1 .. Len(p)
  BY PathEnds
<1>3. CASE Leads(p, tree)
  BY <1>1, <1>2, <1>3, PathDown
<1>4. CASE Leads(p, new)
  <2>1. Last(p) \in Below({e}, new)
    BY <1>1, <1>2, <1>4, PathDown
  <2> QED
    BY <2>1, BelowMoved
<1> QED
  BY <1>3, <1>4 DEF Leads

\* A client that moves or deletes e takes from a front at most what lies below e.
LEMMA FrontCut ==
  ASSUME NEW tree \in Tree, NEW e \in Id, NEW z, NEW c \in Call
  PROVE  LET new == [tree EXCEPT ![e] = z] IN
         /\ Ahead(c, tree) \subseteq Ahead(c, new) \cup Below({e}, tree)
         /\ Below(Ends(c.todo, tree), tree)
              \subseteq Below(Ends(c.todo, new), new) \cup Below({e}, tree)
<1> DEFINE new == [tree EXCEPT ![e] = z]
<1>1. c.path \in Path /\ \A p \in c.todo : p \in Path
  BY DEF Call
<1>2. Ends(c.todo, tree) \subseteq Ends(c.todo, new) \cup Below({e}, tree)
  BY <1>1, PathCut DEF Ends
<1>3. Here(c, tree) \subseteq Here(c, new) \cup Below({e}, tree)
  <2> SUFFICES ASSUME NEW x \in Here(c, tree), x \notin Below({e}, tree) PROVE x \in Here(c, new)
    OBVIOUS
  <2>1. Leads(c.path, tree)
    BY DEF Here
  <2>2. {e} \subseteq Entry
    BY DEF Entry
  <2>3. CASE c.at \in {"chown", "chmod", "acl"}
    <3>1. x = Last(c.path)
      BY <2>1, <2>3 DEF Here
    <3> QED
      BY <3>1, <2>1, <2>3, <1>1, PathCut DEF Here
  <2>4. CASE c.at = "list"
    <3>1. x \in Id /\ tree[x] = Last(c.path)
      BY <2>1, <2>4 DEF Here, KidsIn
    <3>2. x # e /\ Last(c.path) \notin Below({e}, tree)
      BY <3>1, <2>2, BelowIs DEF Closed
    <3>3. new[x] = tree[x]
      BY <3>1, <3>2 DEF Tree
    <3>4. Leads(c.path, new)
      BY <3>2, <2>1, <1>1, PathCut
    <3> QED
      BY <3>1, <3>3, <3>4, <2>4 DEF Here, KidsIn
  <2> QED
    BY <2>1, <2>3, <2>4 DEF Here
<1>4. Front(c, tree) \subseteq Front(c, new) \cup Below({e}, tree)
  BY <1>2, <1>3 DEF Front
<1> QED
  BY <1>2, <1>4, FrontIn, BelowCut DEF Ahead

LEMMA PathAdded ==
  ASSUME NEW tree \in Tree, NEW e \in Id, tree[e] \notin Entry, NEW z, NEW p \in Path,
         Leads(p, tree)
  PROVE  Leads(p, [tree EXCEPT ![e] = z])
<1>1. \A i \in 1 .. Len(p) : p[i] \in Entry
  BY DEF Path
<1>2. \A i \in 2 .. Len(p) : p[i] \in Id /\ i - 1 \in 1 .. Len(p)
  BY PathEnds DEF Path
<1>3. \A i \in 2 .. Len(p) : p[i] # e
  BY <1>1, <1>2 DEF Leads
<1> QED
  BY <1>2, <1>3 DEF Leads, Tree

\* A new name takes nothing from a front.
LEMMA FrontAdded ==
  ASSUME NEW tree \in Tree, NEW e \in Id, tree[e] \notin Entry, NEW z, NEW c \in Call
  PROVE  LET new == [tree EXCEPT ![e] = z] IN
         /\ Ahead(c, tree) \subseteq Ahead(c, new)
         /\ Below(Ends(c.todo, tree), tree) \subseteq Below(Ends(c.todo, new), new)
<1> DEFINE new == [tree EXCEPT ![e] = z]
<1>1. c.path \in Path /\ Last(c.path) \in Entry /\ \A p \in c.todo : p \in Path
  BY PathEnds DEF Call
<1>2. Ends(c.todo, tree) \subseteq Ends(c.todo, new)
  BY <1>1, PathAdded DEF Ends
<1>3. KidsIn(Last(c.path), tree) \subseteq KidsIn(Last(c.path), new)
  BY <1>1 DEF KidsIn, Tree
<1>4. Leads(c.path, tree) => Leads(c.path, new)
  BY <1>1, PathAdded
<1>5. Front(c, tree) \subseteq Front(c, new)
  BY <1>2, <1>3, <1>4 DEF Front, Here
<1> QED
  BY <1>2, <1>5, FrontIn, BelowAdded DEF Ahead

\* The entries that a repair has to see to, and the directories.
Unrepaired == {e \in Live \ touched : Kind[e] # "link" /\ ~InGroup(e)}
Undefaulted == {e \in Live \ touched : IsDir(e) /\ ~attr[e].dacl}

\* During the walk what is not repaired lies ahead, and nothing does after it.
GroupAhead(c) ==
  c.at \notin {"start", "error"} /\ c.deep =>
    IF c.pass = "mode" THEN Unrepaired \subseteq Ahead(c, parent) ELSE Unrepaired = {}

\* The same for the last pass of setfacl.
DefaultAhead(c) ==
  c.deep /\ ~c.soft /\ (c.pass = "default" \/ c.at = "ok") =>
    Undefaulted \subseteq Ahead(c, parent)

\* Chmod comes after chown, or will come again: the entry may have been replaced.
OwnedFirst(c) ==
  c.at = "chmod" /\ Leads(c.path, parent) /\ Last(c.path) \notin touched =>
    attr[Last(c.path)].managed \/ Last(c.path) \in Below(Ends(c.todo, parent), parent)

\* A repair of the root only.
RootOnly(c) ==
  c.at \notin {"start", "error"} /\ ~c.deep =>
    /\ c.path = <<Root>> /\ c.todo = {}
    /\ c.at = "chmod" => attr[Root].managed
    /\ c.at \notin {"chown", "chmod"} => InGroup(Root)

WalkOK(c) == GroupAhead(c) /\ DefaultAhead(c) /\ OwnedFirst(c) /\ RootOnly(c)

IInv == Typed /\ IsTree(parent) /\ \A w \in Walker : WalkOK(call[w])

-----------------------------------------------------------------------------
(* Walkers *)

\* What any step of a walker does for the others.
Improves ==
  /\ parent' = parent /\ touched \subseteq touched'
  /\ Unrepaired' \subseteq Unrepaired /\ Undefaulted' \subseteq Undefaulted
  /\ \A e \in Entry : attr[e].managed => attr'[e].managed
  /\ InGroup(Root) => InGroup(Root)'

LEMMA AttrImproves ==
  ASSUME Typed, NEW e \in Entry, NEW s, AttrChange(e, s),
         parent' = parent, narrowed' = narrowed, touched \subseteq touched'
  PROVE  Improves
<1>1. attr \in [Entry -> Attr] /\ \A x \in Entry : attr[x] \in Attr
  BY DEF Typed
<1>2. ASSUME NEW x \in Entry
      PROVE  /\ attr[x].managed => attr'[x].managed
             /\ attr[x].dacl => attr'[x].dacl
             /\ InGroup(x) => InGroup(x)'
  <2>1. CASE x # e
    BY <1>1, <2>1 DEF AttrChange, InGroup, IsDir
  <2>2. CASE x = e
    <3>1. attr[e] \in Attr
      BY <1>1
    <3>2. CASE attr' = attr
      BY <2>2, <3>2 DEF InGroup
    <3>3. CASE attr' = [attr EXCEPT ![e].managed = TRUE]
      BY <1>1, <2>2, <3>1, <3>3 DEF InGroup, Attr
    <3>4. CASE attr' = [attr EXCEPT ![e].setgid = IsDir(e), ![e].grp = TRUE, ![e].oth = s]
      <4>1. /\ attr'[e].managed = attr[e].managed /\ attr'[e].dacl = attr[e].dacl
            /\ attr'[e].setgid = IsDir(e) /\ attr'[e].grp = TRUE
        BY <1>1, <3>1, <3>4 DEF Attr
      <4> QED
        BY <2>2, <4>1 DEF InGroup
    <3>5. CASE attr' = [attr EXCEPT ![e].dacl = TRUE]
      BY <1>1, <2>2, <3>1, <3>5 DEF InGroup, Attr
    <3>6. CASE attr' = [attr EXCEPT ![e] = [@ EXCEPT !.acl = TRUE, !.grp = TRUE, !.oth = FALSE]]
      BY <1>1, <2>2, <3>1, <3>6 DEF InGroup, Attr
    <3> QED
      BY <3>2, <3>3, <3>4, <3>5, <3>6 DEF AttrChange
  <2> QED
    BY <2>1, <2>2
<1>3. Live' = Live /\ Live \subseteq Entry /\ Root \in Entry
  BY DEF Live, Entry
<1>4. Unrepaired' \subseteq Unrepaired
  BY <1>2, <1>3 DEF Unrepaired
<1>5. Undefaulted' \subseteq Undefaulted
  BY <1>2, <1>3 DEF Undefaulted, IsDir
<1> QED
  BY <1>2, <1>3, <1>4, <1>5 DEF Improves

LEMMA TouchedGrows ==
  ASSUME NEW w \in Walker, Work(w)
  PROVE  /\ touched \subseteq touched' /\ parent' = parent /\ narrowed' = narrowed
BY DEF Work, Begin, Chown, Chmod, Acl, List, Visit, NextPass, Tolerate

LEMMA WorkImproves ==
  ASSUME Typed, NEW w \in Walker, Work(w) PROVE Improves
<1>1. call[w].path \in Path
  BY DEF Typed, Call
<1> QED
  BY <1>1, PathEnds, WalkerAttr, TouchedGrows, AttrImproves

\* So the others, and a call that does not change, keep what they have.
LEMMA OthersKeep ==
  ASSUME Improves, NEW c \in Call, WalkOK(c) PROVE WalkOK(c)'
<1>1. Last(c.path) \in Entry
  BY PathEnds DEF Call
<1>2. GroupAhead(c)'
  BY DEF Improves, WalkOK, GroupAhead
<1>3. DefaultAhead(c)'
  BY DEF Improves, WalkOK, DefaultAhead
<1>4. OwnedFirst(c)'
  BY <1>1 DEF Improves, WalkOK, OwnedFirst
<1>5. RootOnly(c)'
  BY DEF Improves, WalkOK, RootOnly, Entry
<1> QED
  BY <1>2, <1>3, <1>4, <1>5 DEF WalkOK

\* A call that ended in an error owes nothing.
LEMMA ErrorOK ==
  ASSUME NEW c \in Call PROVE WalkOK(Returned(c, "error"))'
BY DEF WalkOK, GroupAhead, DefaultAhead, OwnedFirst, RootOnly, Returned, Idle, Call

\* From an entry to what is in it, or to the next.
LEMMA OnwardAhead ==
  ASSUME Typed, IsTree(parent), NEW c \in Call, c.deep, c.at \in {"chown", "chmod", "acl"}
  PROVE  LET d == Placed(c, Onward(c)) IN
         /\ Ahead(c, parent) \subseteq {Last(c.path)} \cup Ahead(d, parent)
         /\ ~Leads(c.path, parent) => Ahead(c, parent) \subseteq Ahead(d, parent)
         /\ Below(Ends(c.todo, parent), parent) \subseteq Ahead(d, parent)
<1> DEFINE d == Placed(c, Onward(c))
           e == Last(c.path)
           E == Ends(c.todo, parent)
<1>1. /\ e \in Entry /\ Gone \notin Entry /\ E \subseteq Entry
      /\ Front(c, parent) \subseteq Entry
  BY PathEnds, FrontIn, WalkAssumption DEF Call
<1>2. d.todo = c.todo /\ d.path = c.path /\ d.at = Onward(c)
  BY DEF Placed, Call
<1>3. E \subseteq Front(d, parent)
  BY <1>2 DEF Front
<1>4. Below(E, parent) \subseteq Ahead(d, parent)
  BY <1>3, BelowGrows DEF Ahead
<1>5. CASE Leads(c.path, parent)
  <2>1. Front(c, parent) = E \cup {e}
    BY <1>5 DEF Front, Here
  <2>2. ~IsDir(e) => KidsIn(e, parent) = {}
    BY <1>1 DEF IsTree, KidsIn, IsDir
  <2>3. E \cup KidsIn(e, parent) \subseteq Front(d, parent)
    BY <1>2, <1>3, <1>5, <2>2 DEF Front, Here, Onward
  <2>4. Below(E \cup KidsIn(e, parent), parent) \subseteq Ahead(d, parent)
    BY <2>3, BelowGrows DEF Ahead
  <2>5. Below(E \cup {e}, parent) \subseteq {e} \cup Below(E \cup KidsIn(e, parent), parent)
    BY <1>1, BelowStep
  <2> QED
    BY <1>4, <1>5, <2>1, <2>4, <2>5 DEF Ahead
<1>6. CASE ~Leads(c.path, parent)
  <2>1. Front(c, parent) = E
    BY <1>6 DEF Front, Here
  <2> QED
    BY <1>4, <2>1 DEF Ahead
<1> QED
  BY <1>5, <1>6

\* The call of the walker at work, before and after its step.
Works(w, c, d) == /\ IInv /\ w \in Walker /\ Work(w)
                  /\ c = call[w] /\ d = call'[w]

LEMMA WorksHas ==
  ASSUME NEW w, NEW c, NEW d, Works(w, c, d)
  PROVE  /\ Typed /\ IsTree(parent) /\ Improves
         /\ c \in Call /\ CallOK(c) /\ WalkOK(c) /\ d \in Call /\ CallOK(d)
         /\ c.path \in Path /\ Last(c.path) \in Entry
         /\ \A x : Becomes(w, x) => d = x
         /\ \A s : At(w, s) <=> c.at = s
         /\ Resolves(c.path) <=> Leads(c.path, parent)
<1>1. Typed /\ IsTree(parent) /\ w \in Walker /\ WalkOK(c)
  BY DEF Works, IInv
<1>2. Typed'
  BY <1>1, NextTyped DEF Works, Next
<1>3. c \in Call /\ CallOK(c) /\ d \in Call /\ CallOK(d)
  BY <1>1, <1>2 DEF Works, Typed
<1>4. \A x : Becomes(w, x) => d = x
  BY <1>1 DEF Works, Becomes, Typed
<1>5. c.path \in Path /\ Last(c.path) \in Entry
  BY <1>3, PathEnds DEF Call
<1>6. Improves
  BY <1>1, WorkImproves DEF Works
<1> QED
  BY <1>1, <1>3, <1>4, <1>5, <1>6 DEF Works, At, Resolves, Leads

LEMMA BeginOK ==
  ASSUME NEW w, NEW c, NEW d, Works(w, c, d), Begin(w) PROVE WalkOK(d)'
<1> USE WorksHas
<1>1. CASE Return(w, "error")
  <2>1. d = Returned(c, "error")
    BY <1>1, Puts DEF Works
  <2> QED
    BY <2>1, ErrorOK
<1>2. CASE ~Return(w, "error")
  <2>1. PICK deep \in BOOLEAN :
          call' = [call EXCEPT ![w].at = "chown", ![w].deep = deep, ![w].oth = attr[Root].oth]
    BY <1>2 DEF Begin
  <2>2. c.at = "start" /\ c.path = <<Root>> /\ c.todo = {} /\ c.pass = "mode"
    BY DEF Begin, CallOK
  <2>3. call \in [Walker -> Call] /\ w \in Walker /\ c = call[w] /\ d = call'[w]
    BY DEF Works, Typed
  <2>4. d.at = "chown" /\ d.path = <<Root>> /\ d.todo = {} /\ d.pass = "mode"
    BY <2>1, <2>2, <2>3 DEF Call
  <2>5. Front(d, parent') = {Root}
    BY <2>4, RootPath DEF Front, Ends, Here
  <2>6. Unrepaired' \subseteq Ahead(d, parent')
    <3>1. Unrepaired \subseteq Below({Root}, parent)
      BY LiveBelow DEF Unrepaired
    <3> QED
      BY <3>1, <2>5 DEF Improves, Ahead
  <2> QED
    BY <2>4, <2>6 DEF WalkOK, GroupAhead, DefaultAhead, OwnedFirst, RootOnly
<1> QED
  BY <1>1, <1>2

\* An entry that has gone, or on which chown or chmod failed.
LEMMA SkippedOK ==
  ASSUME NEW w, NEW c, NEW d, Works(w, c, d), c.at \in {"chown", "chmod"},
         \/ ~Resolves(c.path) /\ Tolerate(w, Descend(w), {})
         \/ Resolves(c.path) /\ Tolerate(w, Descend(w), {Last(c.path)})
  PROVE  WalkOK(d)'
<1> USE WorksHas
<1>1. CASE Becomes(w, Returned(call[w], "error"))
  <2>1. d = Returned(c, "error")
    BY <1>1 DEF Works
  <2> QED
    BY <2>1, ErrorOK
<1>2. CASE ~Becomes(w, Returned(call[w], "error"))
  <2>1. /\ d = Placed(c, Onward(c)) /\ c.path # <<Root>>
        /\ Resolves(c.path) => Last(c.path) \in touched'
    BY <1>2, Tolerated, Puts DEF Works
  <2>2. /\ d.at = Onward(c) /\ d.pass = "mode" /\ d.path = c.path /\ d.deep = c.deep
        /\ c.pass = "mode"
    BY <2>1 DEF Placed, Call, CallOK
  <2>3. c.deep
    BY <2>1 DEF WalkOK, RootOnly
  <2>4. Unrepaired' \subseteq Ahead(d, parent')
    <3>2. Unrepaired \subseteq Ahead(c, parent)
      BY <2>2, <2>3 DEF WalkOK, GroupAhead
    <3>3. /\ Ahead(c, parent) \subseteq {Last(c.path)} \cup Ahead(d, parent)
          /\ ~Leads(c.path, parent) => Ahead(c, parent) \subseteq Ahead(d, parent)
      BY <2>1, <2>3, OnwardAhead
    <3>4. Last(c.path) \in touched' => Last(c.path) \notin Unrepaired'
      BY DEF Unrepaired
    <3> QED
      BY <2>1, <3>2, <3>3, <3>4 DEF Improves
  <2> QED
    BY <2>2, <2>3, <2>4 DEF WalkOK, GroupAhead, DefaultAhead, OwnedFirst, RootOnly, Onward
<1> QED
  BY <1>1, <1>2

LEMMA ChownOK ==
  ASSUME NEW w, NEW c, NEW d, Works(w, c, d), Chown(w) PROVE WalkOK(d)'
<1> USE WorksHas
<1>1. c.at = "chown" /\ c.pass = "mode" /\ c = call[w]
  BY DEF Chown, Works, CallOK
<1>2. CASE Resolves(c.path) /\ Goto(w, "chmod")
           /\ attr' = [attr EXCEPT ![Last(c.path)].managed = TRUE]
  <2>1. d = Placed(c, "chmod")
    BY <1>1, <1>2, Puts DEF Works
  <2>2. /\ d.at = "chmod" /\ d.pass = "mode" /\ d.path = c.path /\ d.deep = c.deep
        /\ d.todo = c.todo
    BY <1>1, <2>1 DEF Placed, Call
  <2>3. Ahead(d, parent') = Ahead(c, parent)
    BY <1>1, <2>2 DEF Ahead, Front, Here, Improves
  <2>4. attr'[Last(c.path)].managed
    BY <1>2 DEF Typed, Attr
  <2> QED
    BY <1>1, <2>2, <2>3, <2>4, RootPath
       DEF WalkOK, GroupAhead, DefaultAhead, OwnedFirst, RootOnly, Improves
<1>3. CASE ~(Resolves(c.path) /\ Goto(w, "chmod")
             /\ attr' = [attr EXCEPT ![Last(c.path)].managed = TRUE])
  <2>1. \/ ~Resolves(c.path) /\ Tolerate(w, Descend(w), {})
        \/ Resolves(c.path) /\ Tolerate(w, Descend(w), {Last(c.path)})
    BY <1>1, <1>3 DEF Chown
  <2> QED
    BY <1>1, <2>1, SkippedOK
<1> QED
  BY <1>2, <1>3

LEMMA ChmodOK ==
  ASSUME NEW w, NEW c, NEW d, Works(w, c, d), Chmod(w) PROVE WalkOK(d)'
<1> USE WorksHas
<1> DEFINE e == Last(c.path)
<1>1. c.at = "chmod" /\ c.pass = "mode" /\ c = call[w]
  BY DEF Chmod, Works, CallOK
<1>2. CASE /\ Resolves(c.path) /\ Goto(w, Descend(w))
           /\ attr' = [attr EXCEPT ![e].setgid = IsDir(e), ![e].grp = TRUE, ![e].oth = c.oth]
  <2>1. d = Placed(c, Onward(c))
    BY <1>1, <1>2, Puts DEF Works
  <2>2. /\ d.at = Onward(c) /\ d.pass = "mode" /\ d.path = c.path /\ d.deep = c.deep
        /\ d.todo = c.todo
    BY <1>1, <2>1 DEF Placed, Call
  <2>3. attr'[e].setgid = IsDir(e) /\ attr'[e].grp = TRUE /\ attr'[e].managed = attr[e].managed
    BY <1>2 DEF Typed, Attr
  <2>4. attr[e].managed => InGroup(e)'
    BY <2>3 DEF InGroup
  <2>5. ASSUME c.deep PROVE Unrepaired' \subseteq Ahead(d, parent')
    <3>1. Unrepaired \subseteq Ahead(c, parent)
      BY <1>1, <2>5 DEF WalkOK, GroupAhead
    <3>2. /\ Ahead(c, parent) \subseteq {e} \cup Ahead(d, parent)
          /\ Below(Ends(c.todo, parent), parent) \subseteq Ahead(d, parent)
      BY <1>1, <2>1, <2>5, OnwardAhead
    <3>3. e \in Unrepaired' => e \in Ahead(d, parent)
      <4>1. e \in Unrepaired' => e \notin touched /\ ~attr[e].managed
        BY <2>4 DEF Unrepaired, Improves
      <4> QED
        BY <1>1, <1>2, <3>2, <4>1 DEF WalkOK, OwnedFirst
    <3> QED
      BY <3>1, <3>2, <3>3 DEF Improves
  <2>6. ASSUME ~c.deep PROVE InGroup(Root)' /\ d.at = "next" /\ c.path = <<Root>> /\ c.todo = {}
    <3>1. c.path = <<Root>> /\ c.todo = {} /\ attr[Root].managed
      BY <1>1, <2>6 DEF WalkOK, RootOnly
    <3> QED
      BY <3>1, <2>2, <2>4, <2>6, RootPath DEF Onward
  <2> QED
    BY <2>2, <2>5, <2>6 DEF WalkOK, GroupAhead, DefaultAhead, OwnedFirst, RootOnly, Onward
<1>3. CASE ~(/\ Resolves(c.path) /\ Goto(w, Descend(w))
             /\ attr' = [attr EXCEPT ![e].setgid = IsDir(e), ![e].grp = TRUE, ![e].oth = c.oth])
  <2>1. \/ ~Resolves(c.path) /\ Tolerate(w, Descend(w), {})
        \/ Resolves(c.path) /\ Tolerate(w, Descend(w), {Last(c.path)})
    BY <1>1, <1>3 DEF Chmod
  <2> QED
    BY <1>1, <2>1, SkippedOK
<1> QED
  BY <1>2, <1>3

LEMMA AclOK ==
  ASSUME NEW w, NEW c, NEW d, Works(w, c, d), Acl(w) PROVE WalkOK(d)'
<1> USE WorksHas
<1> DEFINE e == Last(c.path)
<1>1. /\ c.at = "acl" /\ c.pass # "mode" /\ c = call[w] /\ w \in Walker
      /\ call \in [Walker -> Call] /\ d = call'[w]
  BY DEF Acl, Works, CallOK, Typed
<1>3. CASE /\ Resolves(c.path) /\ Goto(w, Descend(w))
           /\ attr' = IF c.pass = "access" THEN SetFacl(e) ELSE SetDefault(e)
  <2>1. d = Placed(c, Onward(c))
    BY <1>1, <1>3, Puts DEF Works
  <2>2. /\ d.at = Onward(c) /\ d.soft = c.soft /\ d.deep = c.deep /\ d.pass = c.pass
        /\ d.todo = c.todo /\ d.path = c.path
    BY <1>1, <2>1 DEF Placed, Call
  <2>3. ASSUME c.deep, ~c.soft, c.pass = "default"
        PROVE  Undefaulted' \subseteq Ahead(d, parent')
    <3>1. Undefaulted \subseteq Ahead(c, parent)
      BY <2>3 DEF WalkOK, DefaultAhead
    <3>2. Ahead(c, parent) \subseteq {e} \cup Ahead(d, parent)
      BY <1>1, <2>1, <2>3, OnwardAhead
    <3>3. IsDir(e) => attr'[e].dacl
      BY <1>3, <2>3 DEF SetDefault, Typed, Attr
    <3>4. e \notin Undefaulted'
      BY <3>3 DEF Undefaulted, IsDir
    <3> QED
      BY <3>1, <3>2, <3>4 DEF Improves
  <2> QED
    BY <1>1, <2>2, <2>3
       DEF WalkOK, GroupAhead, DefaultAhead, OwnedFirst, RootOnly, Improves, Onward
<1>4. CASE call' = [call EXCEPT ![w].at = "next", ![w].soft = TRUE]
  <2>1. /\ d.at = "next" /\ d.soft = TRUE /\ d.deep = c.deep /\ d.pass = c.pass
        /\ d.todo = c.todo /\ d.path = c.path
    BY <1>1, <1>4 DEF Call
  <2> QED
    BY <1>1, <2>1
       DEF WalkOK, GroupAhead, DefaultAhead, OwnedFirst, RootOnly, Improves
<1> QED
  BY <1>1, <1>3, <1>4 DEF Acl

\* What is cut off lies below one entry of the front.
LEMMA ListOK ==
  ASSUME NEW w, NEW c, NEW d, Works(w, c, d), List(w) PROVE WalkOK(d)'
<1> USE WorksHas
<1> DEFINE e == Last(c.path)
<1>1. /\ c.at = "list" /\ c.deep /\ c = call[w] /\ w \in Walker
      /\ call \in [Walker -> Call] /\ d = call'[w] /\ IsDir(e)
  BY DEF List, At, Works, CallOK, Typed
<1>2. CASE Resolves(c.path) /\ call' = [call EXCEPT ![w].at = "next", ![w].todo = @ \cup Children(c.path)]
  <2>1. /\ d.at = "next" /\ d.todo = c.todo \cup Children(c.path) /\ d.deep = c.deep
        /\ d.pass = c.pass /\ d.soft = c.soft
    <3>1. d = [c EXCEPT !.at = "next", !.todo = @ \cup Children(c.path)]
      BY <1>1, <1>2 DEF Call
    <3> QED
      BY <3>1 DEF Call
  <2>2. KidsIn(e, parent) \subseteq Ends(d.todo, parent)
    <3> SUFFICES ASSUME NEW x \in KidsIn(e, parent) PROVE x \in Ends(d.todo, parent)
      OBVIOUS
    <3>1. x \in Id /\ parent[x] = e
      BY DEF KidsIn
    <3>2. Append(c.path, x) \in d.todo /\ Leads(Append(c.path, x), parent) /\ Last(Append(c.path, x)) = x
      BY <1>2, <2>1, <3>1, PathGrows DEF Children
    <3> QED
      BY <3>2 DEF Ends
  <2>3. Front(c, parent) \subseteq Front(d, parent)
    BY <1>1, <1>2, <2>1, <2>2 DEF Front, Here, Ends
  <2>4. Ahead(c, parent) \subseteq Ahead(d, parent')
    BY <2>3, BelowGrows DEF Ahead, Improves
  <2> QED
    BY <1>1, <2>1, <2>4
       DEF WalkOK, GroupAhead, DefaultAhead, OwnedFirst, RootOnly, Improves
<1>3. CASE /\ c.pass = "mode"
           /\ Tolerate(w, "next", IF Resolves(c.path) THEN Subtree(e) ELSE {})
           /\ ~Becomes(w, Returned(call[w], "error"))
  <2>1. d = Placed(c, "next") /\ (Resolves(c.path) => Subtree(e) \subseteq touched')
    BY <1>1, <1>3, Tolerated DEF Works
  <2>2. d.at = "next" /\ d.todo = c.todo /\ d.deep = c.deep /\ d.pass = "mode"
    BY <1>3, <2>1 DEF Placed, Call
  <2>3. Ahead(c, parent) \subseteq touched' \cup Ahead(d, parent)
    <3>1. Ends(c.todo, parent) \subseteq Front(d, parent)
      BY <2>2 DEF Front
    <3>2. Below(Ends(c.todo, parent), parent) \subseteq Ahead(d, parent)
      BY <3>1, BelowGrows DEF Ahead
    <3>3. CASE ~Resolves(c.path)
      BY <3>2, <3>3 DEF Ahead, Front, Here
    <3>4. CASE Resolves(c.path)
      <4>1. /\ {e} \subseteq Entry /\ Subtree(e) \subseteq Entry
            /\ e \in Subtree(e) /\ Closed(Subtree(e), parent)
        BY BelowIs DEF Subtree
      <4>2. Here(c, parent) \subseteq Subtree(e)
        BY <1>1, <4>1 DEF Here, KidsIn, Closed
      <4>3. Below(Here(c, parent), parent) \subseteq Subtree(e)
        BY <4>1, <4>2, BelowIn
      <4>4. Here(c, parent) \subseteq Entry /\ Ends(c.todo, parent) \subseteq Entry
        BY FrontIn DEF Front
      <4>5. Ahead(c, parent) \subseteq Below(Ends(c.todo, parent), parent)
                                         \cup Below(Here(c, parent), parent)
        BY <4>4, BelowUnion DEF Ahead, Front
      <4> QED
        BY <2>1, <3>2, <3>4, <4>3, <4>5
    <3> QED
      BY <3>3, <3>4
  <2>4. Unrepaired' \subseteq Ahead(d, parent')
    <3>1. Unrepaired \subseteq Ahead(c, parent)
      BY <1>1, <1>3 DEF WalkOK, GroupAhead
    <3> QED
      BY <2>3, <3>1 DEF Improves, Unrepaired
  <2> QED
    BY <1>1, <2>2, <2>4 DEF WalkOK, GroupAhead, DefaultAhead, OwnedFirst, RootOnly
<1>4. CASE Becomes(w, Returned(call[w], "error"))
  <2>1. d = Returned(c, "error")
    BY <1>4 DEF Works
  <2> QED
    BY <2>1, ErrorOK
<1>5. CASE /\ c.pass # "mode" /\ call' = [call EXCEPT ![w].at = "next", ![w].soft = TRUE]
  <2>1. d.at = "next" /\ d.deep = c.deep /\ d.pass = c.pass /\ d.soft = TRUE
    BY <1>1, <1>5 DEF Call
  <2> QED
    BY <1>1, <1>5, <2>1
       DEF WalkOK, GroupAhead, DefaultAhead, OwnedFirst, RootOnly, Improves
<1> QED
  BY <1>1, <1>2, <1>3, <1>4, <1>5 DEF List

LEMMA VisitOK ==
  ASSUME NEW w, NEW c, NEW d, Works(w, c, d), Visit(w) PROVE WalkOK(d)'
<1> USE WorksHas
<1>1. PICK p \in c.todo : Visits(w, p)
  BY VisitVisits DEF Works
<1> DEFINE e == Last(p)
<1>2. c.at = "next" /\ c = call[w] /\ w \in Walker /\ p \in Path /\ Len(p) > 1 /\ e \in Id
  BY VisitVisits, PathEnds DEF Works, Call, CallOK
<1>3. c.deep
  BY <1>2 DEF WalkOK, RootOnly
<1>4. Resolves(p) <=> Leads(p, parent)
  BY DEF Resolves, Leads
<1>5. /\ Front(c, parent) = Ends(c.todo, parent)
      /\ Ends(c.todo, parent) \subseteq Ends(c.todo \ {p}, parent) \cup {e}
      /\ ~Leads(p, parent) => Ends(c.todo, parent) \subseteq Ends(c.todo \ {p}, parent)
  BY <1>2 DEF Front, Here, Ends
<1>6. /\ Ends(c.todo \ {p}, parent) \subseteq Entry /\ {e} \subseteq Entry
      /\ Front(c, parent) \subseteq Entry
  BY <1>2, <1>5, FrontIn DEF Ends, Entry
<1>7. Ahead(c, parent) \subseteq Below(Ends(c.todo \ {p}, parent), parent) \cup Subtree(e)
  <2>1. Ahead(c, parent) \subseteq Below(Ends(c.todo \ {p}, parent) \cup {e}, parent)
    BY <1>5, BelowGrows DEF Ahead
  <2> QED
    BY <1>6, <2>1, BelowUnion DEF Subtree
<1>8. \A x \in Call : x.todo = c.todo \ {p} =>
        Below(Ends(c.todo \ {p}, parent), parent) \subseteq Ahead(x, parent)
  BY BelowGrows DEF Ahead, Front
<1>9. Taken(c, p).todo = c.todo \ {p} /\ Taken(c, p).path = p /\ Taken(c, p).at = "next"
      /\ Taken(c, p).deep = c.deep /\ Taken(c, p).pass = c.pass /\ Taken(c, p).soft = c.soft
  BY <1>2 DEF Taken, Call
<1>10. CASE Resolves(p) /\ Kind[e] # "link" /\ d = Entered(c, p)
  <2>1. /\ d.todo = c.todo \ {p} /\ d.path = p /\ d.deep /\ d.pass = c.pass /\ d.soft = c.soft
        /\ d.at = IF c.pass = "mode" THEN "chown" ELSE "acl"
    BY <1>2, <1>3, <1>10 DEF Entered, Taken, Call
  <2>2. Front(c, parent) \subseteq Front(d, parent)
    BY <1>4, <1>5, <1>10, <2>1 DEF Front, Here
  <2>3. Ahead(c, parent) \subseteq Ahead(d, parent')
    BY <2>2, BelowGrows DEF Ahead, Improves
  <2> QED
    BY <1>2, <1>3, <2>1, <2>3
       DEF WalkOK, GroupAhead, DefaultAhead, OwnedFirst, RootOnly, Improves
<1>11. CASE /\ Kind[e] = "link" \/ (~Resolves(p) /\ c.pass = "mode")
            /\ d = Taken(c, p)
  <2>1. Below(Ends(c.todo \ {p}, parent), parent) \subseteq Ahead(d, parent)
    BY <1>8, <1>9, <1>11
  <2>2. Ahead(c, parent) \subseteq Ahead(d, parent) \cup {x \in Entry : Kind[x] = "link"}
    <3>1. CASE Kind[e] = "link"
      <4>1. KidsIn(e, parent) = {}
        BY <1>2, <3>1, WalkAssumption DEF IsTree, KidsIn, Entry
      <4>2. Subtree(e) = {e}
        BY <1>6, <4>1, Childless DEF Subtree
      <4> QED
        BY <1>6, <1>7, <2>1, <3>1, <4>2
    <3>2. CASE ~Resolves(p)
      <4>1. Front(c, parent) \subseteq Ends(c.todo \ {p}, parent)
        BY <1>4, <1>5, <3>2
      <4> QED
        BY <2>1, <4>1, BelowGrows DEF Ahead
    <3> QED
      BY <1>11, <3>1, <3>2
  <2>3. \A x \in Entry : Kind[x] = "link" => x \notin Unrepaired' /\ x \notin Undefaulted'
    BY DEF Unrepaired, Undefaulted, IsDir
  <2>4. GroupAhead(d)'
    BY <1>2, <1>3, <1>9, <1>11, <2>2, <2>3 DEF WalkOK, GroupAhead, Improves
  <2>5. DefaultAhead(d)'
    BY <1>2, <1>3, <1>9, <1>11, <2>2, <2>3 DEF WalkOK, DefaultAhead, Improves
  <2> QED
    BY <1>3, <1>9, <1>11, <2>4, <2>5 DEF WalkOK, OwnedFirst, RootOnly
<1>12. CASE c.pass # "mode" /\ d = Softened(Taken(c, p))
  <2>1. d.at = "next" /\ d.deep = c.deep /\ d.pass = c.pass /\ d.soft = TRUE
    BY <1>2, <1>12 DEF Softened, Taken, Call
  <2> QED
    BY <1>2, <1>3, <1>12, <2>1
       DEF WalkOK, GroupAhead, DefaultAhead, OwnedFirst, RootOnly, Improves
<1>13. CASE c.pass = "mode" /\ d = Taken(c, p) /\ touched' = touched \cup Subtree(e)
  <2>1. Below(Ends(c.todo \ {p}, parent), parent) \subseteq Ahead(d, parent)
    BY <1>8, <1>9, <1>13
  <2>2. Unrepaired' \subseteq Ahead(d, parent')
    <3>1. Unrepaired \subseteq Ahead(c, parent)
      BY <1>2, <1>3, <1>13 DEF WalkOK, GroupAhead
    <3>2. Unrepaired' \cap Subtree(e) = {}
      BY <1>13 DEF Unrepaired
    <3> QED
      BY <1>7, <2>1, <3>1, <3>2 DEF Improves
  <2> QED
    BY <1>3, <1>9, <1>13, <2>2 DEF WalkOK, GroupAhead, DefaultAhead, OwnedFirst, RootOnly
<1> QED
  BY <1>1, <1>2, <1>10, <1>11, <1>12, <1>13 DEF Visits

LEMMA NextPassOK ==
  ASSUME NEW w, NEW c, NEW d, Works(w, c, d), NextPass(w) PROVE WalkOK(d)'
<1> USE WorksHas
<1>1. c.at = "next" /\ c.todo = {} /\ c = call[w] /\ w \in Walker
  BY DEF NextPass, At, Works
<1>2. Ahead(c, parent) = {}
  BY <1>1, BelowNothing DEF Ahead, Front, Ends, Here
<1>3. c.deep => Unrepaired' = {}
  BY <1>1, <1>2 DEF WalkOK, GroupAhead, Improves
<1>4. ~c.deep => InGroup(Root)'
  BY <1>1 DEF WalkOK, RootOnly, Improves
<1>5. c.deep /\ ~c.soft /\ c.pass = "default" => Undefaulted' = {}
  BY <1>1, <1>2 DEF WalkOK, DefaultAhead, Improves
<1>6. CASE \E p \in {"access", "default"} : Becomes(w, Passing(c, p))
  <2> PICK p \in {"access", "default"} : Becomes(w, Passing(c, p))
    BY <1>6
  <2>1. d = Passing(c, p)
    OBVIOUS
  <2>2. /\ d.at = "acl" /\ d.pass = p /\ d.path = <<Root>> /\ d.todo = {}
        /\ d.deep = c.deep /\ d.soft = c.soft
    BY <1>1, <2>1 DEF Passing, Call
  <2>3. Front(d, parent') = {Root}
    BY <2>2, RootPath DEF Front, Ends, Here
  <2>4. Undefaulted' \subseteq Ahead(d, parent')
    <3>1. Undefaulted \subseteq Below({Root}, parent)
      BY LiveBelow DEF Undefaulted
    <3> QED
      BY <3>1, <2>3 DEF Improves, Ahead
  <2> QED
    BY <1>3, <1>4, <2>2, <2>4 DEF WalkOK, GroupAhead, DefaultAhead, OwnedFirst, RootOnly
<1>7. ASSUME d.at = "ok", d.todo = {}, d.path = <<Root>>, d.deep = c.deep, d.pass = "mode",
             d.soft \/ (c.pass = "default" /\ d.soft = c.soft)
      PROVE  WalkOK(d)'
  BY <1>3, <1>4, <1>5, <1>7 DEF WalkOK, GroupAhead, DefaultAhead, OwnedFirst, RootOnly
<1> QED
  <2>1. \/ \E p \in {"access", "default"} : Becomes(w, Passing(c, p))
        \/ (c.soft \/ c.pass = "default") /\ d = Returned(c, "ok")
        \/ d = [Idle EXCEPT !.at = "ok", !.deep = c.deep, !.soft = TRUE]
    BY <1>1, Puts DEF NextPass, Becomes
  <2>2. CASE (c.soft \/ c.pass = "default") /\ d = Returned(c, "ok")
    <3>1. /\ d.at = "ok" /\ d.todo = {} /\ d.path = <<Root>> /\ d.deep = c.deep
          /\ d.pass = "mode" /\ d.soft = c.soft
      BY <2>2 DEF Returned, Idle
    <3> QED
      BY <1>7, <2>2, <3>1
  <2>3. CASE d = [Idle EXCEPT !.at = "ok", !.deep = c.deep, !.soft = TRUE]
    <3>1. /\ d.at = "ok" /\ d.todo = {} /\ d.path = <<Root>> /\ d.deep = c.deep
          /\ d.pass = "mode" /\ d.soft = TRUE
      BY <2>3 DEF Idle
    <3> QED
      BY <1>7, <3>1
  <2> QED
    BY <1>6, <2>1, <2>2, <2>3

-----------------------------------------------------------------------------
(* Clients *)

LEMMA PathEndsIn ==
  ASSUME NEW p \in Path, NEW tree, Leads(p, tree), Last(p) \in Id
  PROVE  tree[Last(p)] \in Entry
<1>1. Len(p) \in Nat /\ Len(p) >= 1 /\ \A i \in 1 .. Len(p) : p[i] \in Entry
  BY DEF Path
<1>2. p # <<Root>>
  BY RootPath, WalkAssumption
<1>3. Len(p) > 1
  BY <1>2, PathEnds
<1>4. Len(p) - 1 \in 1 .. Len(p) /\ Len(p) \in 2 .. Len(p)
  BY <1>1, <1>3
<1> QED
  BY <1>1, <1>4 DEF Leads, Last

LEMMA CreateOK ==
  ASSUME IInv, NEW w \in Walker, NEW c, c = call[w], Create PROVE WalkOK(c)'
<1>1. PICK d \in Live, e \in Id \ Live, smb \in BOOLEAN :
        /\ IsDir(d) /\ Kind[e] # "link"
        /\ parent' = [parent EXCEPT ![e] = d]
        /\ attr' = [attr EXCEPT ![e] = Created(d, e, smb)]
        /\ touched' = IF d \in touched THEN touched \cup {e} ELSE touched \ {e}
        /\ narrowed' = IF attr'[e].grp THEN narrowed \ {e} ELSE narrowed \cup {e}
  BY DEF Create
<1>2. /\ Typed /\ IsTree(parent) /\ c \in Call /\ CallOK(c) /\ WalkOK(c)
      /\ parent \in Tree /\ attr \in [Entry -> Attr]
  BY DEF IInv, Typed
<1>3. /\ e \in Id /\ e \in Entry /\ d \in Entry /\ d # e /\ e # Root
      /\ parent[e] = Gone /\ parent[e] \notin Entry
  BY WalkAssumption DEF Live, Entry
<1>4. /\ attr'[e] = Created(d, e, smb) /\ \A x \in Entry : x # e => attr'[x] = attr[x]
      /\ \A x : x # e => (x \in narrowed' <=> x \in narrowed) /\ (x \in touched' <=> x \in touched)
      /\ e \notin touched' => d \notin touched
      /\ ~attr'[e].grp => e \in narrowed'
  BY <1>1, <1>2, <1>3
<1>5. Live' = Live \cup {e} /\ Live \subseteq Entry
  BY <1>1, <1>2, <1>3, WalkAssumption DEF Live, Tree, Entry
<1>6. \A x \in Entry : x # e => (InGroup(x)' <=> InGroup(x))
  BY <1>4 DEF InGroup
<1>7. InGroup(d) => InGroup(e)' /\ attr'[e].managed
  <2>1. attr[d] \in Attr /\ smb \in BOOLEAN
    BY <1>2, <1>3
  <2>2. /\ attr'[e].managed = (smb \/ attr[d].setgid)
        /\ attr'[e].setgid = (IsDir(e) /\ attr[d].setgid)
    BY <1>4 DEF Created
  <2> QED
    BY <1>1, <1>4, <2>1, <2>2 DEF InGroup, Attr
<1>8. Unrepaired' \subseteq Unrepaired \cup {e} /\ (e \in Unrepaired' => d \in Unrepaired)
  BY <1>1, <1>3, <1>4, <1>5, <1>6, <1>7 DEF Unrepaired, IsDir
<1>9. Undefaulted' \subseteq Undefaulted \cup {e} /\ (e \in Undefaulted' => d \in Undefaulted)
  <2>1. attr[d].dacl /\ IsDir(e) => attr'[e].dacl
    <3>1. attr[d] \in Attr
      BY <1>2, <1>3
    <3>2. attr'[e].dacl = (IsDir(e) /\ attr[d].dacl)
      BY <1>4 DEF Created
    <3> QED
      BY <3>1, <3>2 DEF Attr
  <2> QED
    BY <1>1, <1>3, <1>4, <1>5, <2>1 DEF Undefaulted, IsDir
<1>10. /\ Ahead(c, parent) \subseteq Ahead(c, parent')
       /\ Below(Ends(c.todo, parent), parent) \subseteq Below(Ends(c.todo, parent'), parent')
  BY <1>1, <1>2, <1>3, FrontAdded
<1>11. \A F \in SUBSET Entry : d \in Below(F, parent') => e \in Below(F, parent')
  <2>1. parent'[e] = d
    BY <1>1, <1>2, <1>3 DEF Tree
  <2> QED
    BY <1>3, <2>1, BelowIs DEF Closed
<1>12. Front(c, parent') \subseteq Entry /\ Ends(c.todo, parent') \subseteq Entry
  BY <1>2, FrontIn
<1>13. d \in Ahead(c, parent) => e \in Ahead(c, parent')
  BY <1>10, <1>11, <1>12 DEF Ahead
<1>14. GroupAhead(c)' /\ DefaultAhead(c)'
  BY <1>2, <1>8, <1>9, <1>10, <1>13 DEF WalkOK, GroupAhead, DefaultAhead
<1>15. OwnedFirst(c)'
  <2> DEFINE l == Last(c.path)
  <2> SUFFICES ASSUME c.at = "chmod", Leads(c.path, parent'), l \notin touched'
               PROVE  attr'[l].managed \/ l \in Below(Ends(c.todo, parent'), parent')
    BY DEF OwnedFirst
  <2>1. c.path \in Path /\ l \in Entry /\ c.pass = "mode"
    BY <1>2, PathEnds DEF Call, CallOK
  <2>2. CASE l = e
    <3>1. ~Leads(c.path, parent)
      BY <1>3, <2>1, <2>2, PathEndsIn
    <3>2. Ahead(c, parent) = Below(Ends(c.todo, parent), parent)
      BY <3>1 DEF Ahead, Front, Here
    <3>3. c.path # <<Root>>
      BY <1>3, <2>2, RootPath
    <3>4. c.deep
      BY <1>2, <3>3 DEF WalkOK, RootOnly
    <3>5. CASE InGroup(d)
      BY <1>7, <2>2, <3>5
    <3>6. CASE ~InGroup(d)
      <4>1. d \in Unrepaired
        BY <1>1, <1>4, <2>2, <3>6 DEF Unrepaired, IsDir
      <4>2. d \in Below(Ends(c.todo, parent), parent)
        BY <1>2, <2>1, <3>2, <3>4, <4>1 DEF WalkOK, GroupAhead
      <4> QED
        BY <1>10, <1>11, <1>12, <2>2, <4>2
    <3> QED
      BY <3>5, <3>6
  <2>3. CASE l # e
    <3>1. KidsIn(e, parent) = {}
      BY <1>2, <1>3, WalkAssumption DEF IsTree, KidsIn, Entry
    <3>2. l \notin Below({e}, parent)
      BY <1>3, <2>3, <3>1, Childless
    <3>3. Leads(c.path, parent)
      BY <1>1, <1>2, <1>3, <2>1, <3>2, PathCut
    <3> QED
      BY <1>2, <1>4, <1>10, <2>1, <2>3, <3>3 DEF WalkOK, OwnedFirst
  <2> QED
    BY <2>2, <2>3
<1>16. RootOnly(c)'
  BY <1>2, <1>3, <1>4, <1>6 DEF WalkOK, RootOnly, Entry
<1> QED
  BY <1>14, <1>15, <1>16 DEF WalkOK

\* An entry is taken away from where it was, by a deletion or a move.
LEMMA UprootedOK ==
  ASSUME IInv, NEW w \in Walker, NEW c, c = call[w], NEW e \in Id, NEW z,
         parent' = [parent EXCEPT ![e] = z],
         Live' \subseteq Live, narrowed \ {e} \subseteq narrowed',
         touched \ {e} \subseteq touched', Subtree(e) \cap Live' \subseteq touched',
         \A x \in Entry : x # e => attr'[x] = attr[x],
         Leads(c.path, parent') => Last(c.path) \in Live'
  PROVE  WalkOK(c)'
<1>1. /\ Typed /\ IsTree(parent) /\ c \in Call /\ CallOK(c) /\ WalkOK(c) /\ parent \in Tree
  BY DEF IInv, Typed
<1>2. e \in Subtree(e) /\ e # Root /\ Live \subseteq Entry
  BY BelowIs, WalkAssumption DEF Subtree, Entry, Live
<1>3. \A x \in Entry : x # e /\ InGroup(x) => InGroup(x)'
  BY DEF InGroup
<1>4. Unrepaired' \subseteq Unrepaired \ Subtree(e) /\ Undefaulted' \subseteq Undefaulted \ Subtree(e)
  BY <1>2, <1>3 DEF Unrepaired, Undefaulted
<1>5. /\ Ahead(c, parent) \subseteq Ahead(c, parent') \cup Subtree(e)
      /\ Below(Ends(c.todo, parent), parent)
           \subseteq Below(Ends(c.todo, parent'), parent') \cup Subtree(e)
  BY <1>1, FrontCut DEF Subtree
<1>6. GroupAhead(c)' /\ DefaultAhead(c)'
  BY <1>1, <1>4, <1>5 DEF WalkOK, GroupAhead, DefaultAhead
<1>7. OwnedFirst(c)'
  <2> DEFINE l == Last(c.path)
  <2> SUFFICES ASSUME c.at = "chmod", Leads(c.path, parent'), l \notin touched'
               PROVE  attr'[l].managed \/ l \in Below(Ends(c.todo, parent'), parent')
    BY DEF OwnedFirst
  <2>1. c.path \in Path /\ l \in Entry
    BY <1>1, PathEnds DEF Call
  <2>2. l \notin Subtree(e) /\ l # e
    BY <1>2
  <2>3. Leads(c.path, parent)
    BY <1>1, <2>1, <2>2, PathCut DEF Subtree
  <2> QED
    BY <1>1, <1>5, <2>1, <2>2, <2>3 DEF WalkOK, OwnedFirst
<1>8. RootOnly(c)'
  BY <1>1, <1>2, <1>3 DEF WalkOK, RootOnly, Entry
<1> QED
  BY <1>6, <1>7, <1>8 DEF WalkOK

LEMMA DeleteOK ==
  ASSUME IInv, NEW w \in Walker, NEW c, c = call[w], Delete PROVE WalkOK(c)'
<1>1. PICK e \in Working :
        /\ e \notin {parent[x] : x \in Id}
        /\ parent' = [parent EXCEPT ![e] = Gone]
        /\ attr' = [attr EXCEPT ![e] = Untouched]
        /\ touched' = touched \ {e} /\ narrowed' = narrowed \ {e}
  BY DEF Delete
<1>2. c \in Call /\ parent \in Tree /\ e \in Id /\ e \in Entry /\ Gone \notin Entry
  BY WalkAssumption DEF IInv, Typed, Working, Live, Entry
<1>3. Subtree(e) = {e}
  BY <1>1, <1>2, Childless DEF Subtree, KidsIn
<1>4. Live' = Live \ {e}
  BY <1>1, <1>2, WalkAssumption DEF Live, Tree
<1>5. \A x \in Entry : x # e => attr'[x] = attr[x]
  BY <1>1, <1>2 DEF IInv, Typed
<1>6. ASSUME Leads(c.path, parent') PROVE Last(c.path) \in Live'
  <2>1. c.path \in Path /\ Last(c.path) \in Entry
    BY <1>2, PathEnds DEF Call
  <2>2. CASE Last(c.path) \in Id
    <3>1. parent'[Last(c.path)] \in Entry
      BY <1>6, <2>1, <2>2, PathEndsIn
    <3> QED
      BY <1>2, <2>2, <3>1 DEF Live
  <2> QED
    BY <2>1, <2>2 DEF Live, Entry
<1> QED
  BY <1>1, <1>2, <1>3, <1>4, <1>5, <1>6, UprootedOK

LEMMA MoveOK ==
  ASSUME IInv, NEW w \in Walker, NEW c, c = call[w], Move PROVE WalkOK(c)'
<1>1. PICK e \in Working, d \in Live :
        /\ parent' = [parent EXCEPT ![e] = d]
        /\ touched' = touched \cup Subtree(e)
        /\ UNCHANGED <<attr, narrowed>>
  BY DEF Move
<1>2. /\ c \in Call /\ parent \in Tree /\ e \in Id /\ parent[e] # Gone /\ d \in Entry
      /\ Gone \notin Entry
  BY WalkAssumption DEF IInv, Typed, Working, Live, Entry
<1>3. Live' = Live
  BY <1>1, <1>2 DEF Live, Tree
<1>4. ASSUME Leads(c.path, parent') PROVE Last(c.path) \in Live'
  <2>1. c.path \in Path /\ Last(c.path) \in Entry
    BY <1>2, PathEnds DEF Call
  <2>2. CASE Last(c.path) \in Id
    <3>1. parent'[Last(c.path)] \in Entry
      BY <1>4, <2>1, <2>2, PathEndsIn
    <3> QED
      BY <1>2, <2>2, <3>1 DEF Live
  <2> QED
    BY <2>1, <2>2 DEF Live, Entry
<1> QED
  BY <1>1, <1>2, <1>3, <1>4, UprootedOK

LEMMA ClientChmodOK ==
  ASSUME IInv, NEW w \in Walker, NEW c, c = call[w], ClientChmod PROVE WalkOK(c)'
<1>1. PICK e \in Working \cup {Root}, open \in BOOLEAN :
        /\ attr' = [attr EXCEPT ![e].grp = open, ![e].oth = open]
        /\ narrowed' = IF open THEN narrowed ELSE narrowed \cup {e}
        /\ UNCHANGED <<parent, touched>>
  BY DEF ClientChmod
<1>2. /\ c \in Call /\ WalkOK(c) /\ attr \in [Entry -> Attr] /\ e \in Entry
      /\ Live' = Live /\ Live \subseteq Entry /\ Root \in Entry
  BY <1>1 DEF IInv, Typed, Working, Live, Entry
<1>3. \A x \in Entry : x # e => attr'[x] = attr[x]
  BY <1>1, <1>2
<1>4. /\ attr'[e].managed = attr[e].managed /\ attr'[e].setgid = attr[e].setgid
      /\ attr'[e].dacl = attr[e].dacl /\ attr'[e].grp = open
  <2>1. attr[e] \in Attr
    BY <1>2
  <2> QED
    BY <1>1, <1>2, <2>1 DEF Attr
<1>5. \A x \in Entry : InGroup(x) => InGroup(x)'
  BY <1>1, <1>3, <1>4 DEF InGroup
<1>6. Unrepaired' \subseteq Unrepaired
  BY <1>1, <1>2, <1>5 DEF Unrepaired
<1>7. Undefaulted' \subseteq Undefaulted
  BY <1>1, <1>2, <1>3, <1>4 DEF Undefaulted, IsDir
<1>8. Improves
  BY <1>1, <1>2, <1>3, <1>4, <1>5, <1>6, <1>7 DEF Improves
<1> QED
  BY <1>2, <1>8, OthersKeep

-----------------------------------------------------------------------------
(* The share at any time *)

LEMMA InitIInv == Init => IInv
<1> SUFFICES ASSUME Init PROVE IInv
  OBVIOUS
<1>1. Idle \in Call /\ CallOK(Idle) /\ WalkOK(Idle)
  BY RootPath DEF Idle, Call, CallOK, WalkOK, GroupAhead, DefaultAhead, OwnedFirst, RootOnly
<1>2. \A e \in Entry : [Untouched EXCEPT !.oth = e \in Open0] \in Attr
  <2> TAKE e \in Entry
  <2>1. (e \in Open0) \in BOOLEAN
    OBVIOUS
  <2> QED
    BY <2>1 DEF Untouched, Attr
<1>3. Typed
  BY <1>1, <1>2, WalkAssumption DEF Init, Typed, Tree
<1>4. IsTree(parent)
  BY WalkAssumption DEF Init
<1> QED
  BY <1>1, <1>3, <1>4 DEF Init, IInv

LEMMA NextIInv == IInv /\ [Next]_vars => IInv'
<1> SUFFICES ASSUME IInv, [Next]_vars PROVE IInv'
  OBVIOUS
<1>1. Typed' /\ IsTree(parent')
  BY NextTyped, NextTree DEF IInv
<1>2. ASSUME NEW q \in Walker, NEW c, c = call[q], NEW d, d = call'[q] PROVE WalkOK(d)'
  <2>1. c \in Call /\ WalkOK(c) /\ Typed
    BY <1>2 DEF IInv, Typed
  <2>2. CASE Create \/ Delete \/ Move \/ ClientChmod
    <3>1. d = c
      BY <1>2, <2>2 DEF Create, Delete, Move, ClientChmod
    <3> QED
      BY <1>2, <2>2, <3>1, CreateOK, DeleteOK, MoveOK, ClientChmodOK
  <2>3. ASSUME NEW w \in Walker, Work(w) PROVE WalkOK(d)'
    <3>1. CASE q = w
      <4>1. Works(w, c, d)
        BY <1>2, <2>3, <3>1 DEF Works
      <4> QED
        BY <2>3, <4>1, BeginOK, ChownOK, ChmodOK, AclOK, ListOK, VisitOK, NextPassOK DEF Work
    <3>2. CASE q # w
      <4>1. \E x : Becomes(w, x)
        BY <2>3, <2>1 DEF Work, Begin, Chown, Chmod, Acl, List, Visit, NextPass, Goto, Return,
           StartPass, Tolerate, Becomes
      <4>2. d = c
        BY <1>2, <2>1, <3>2, <4>1 DEF Becomes, Typed
      <4> QED
        BY <2>1, <2>3, <4>2, WorkImproves, OthersKeep
    <3> QED
      BY <3>1, <3>2
  <2>4. CASE UNCHANGED vars
    BY <1>2, <2>1, <2>4 DEF vars, WalkOK, GroupAhead, DefaultAhead, OwnedFirst, RootOnly,
       Unrepaired, Undefaulted, InGroup, Live
  <2> QED
    BY <2>2, <2>3, <2>4 DEF Next
<1>3. \A q \in Walker : WalkOK(call[q])'
  BY <1>2 DEF WalkOK, GroupAhead, DefaultAhead, OwnedFirst, RootOnly
<1> QED
  BY <1>1, <1>3 DEF IInv

\* IInv is an inductive invariant of a share under repair.
THEOREM WalkInvariant == Spec => []IInv
BY InitIInv, NextIInv, PTL DEF Spec

\* Type correctness: in particular a walk never excuses the root, and its paths
\* never leave the share.
THEOREM WalkTyped == Spec => []TypeOK
<1>1. IInv => TypeOK
  BY TypedTypeOK DEF IInv
<1> QED
  BY <1>1, WalkInvariant, PTL

\* A repair that answers without an error has repaired everything, for shares
\* of every shape, whatever clients do meanwhile and however many walks overlap.
THEOREM WalkRepairs == Spec => []Repaired
<1>1. IInv => Repaired
  <2> SUFFICES ASSUME IInv, NEW w \in Walker, At(w, "ok"),
                      NEW e \in IF call[w].deep THEN Live \ touched ELSE {Root},
                      Kind[e] # "link"
               PROVE  InGroup(e)
    BY DEF Repaired
  <2> DEFINE c == call[w]
  <2>1. c \in Call /\ CallOK(c) /\ GroupAhead(c) /\ RootOnly(c) /\ c.at = "ok"
    BY DEF IInv, Typed, WalkOK, At
  <2>2. Ahead(c, parent) = {}
    BY <2>1, BelowNothing DEF Ahead, Front, Ends, Here, CallOK
  <2>3. CASE c.deep
    BY <2>1, <2>2, <2>3 DEF GroupAhead, Unrepaired
  <2>4. CASE ~c.deep
    BY <2>1, <2>4 DEF RootOnly
  <2> QED
    BY <2>3, <2>4
<1> QED
  BY <1>1, WalkInvariant, PTL

\* With setfacl at work on everything, every directory ends with the default
\* ACL, also those made while the walk went by.
THEOREM WalkDefaults == Spec => []DefaultsEverywhere
<1>1. IInv => DefaultsEverywhere
  <2> SUFFICES ASSUME IInv, NEW w \in Walker, At(w, "ok"), call[w].deep, ~call[w].soft,
                      NEW e \in Live \ touched, IsDir(e)
               PROVE  attr[e].dacl
    BY DEF DefaultsEverywhere
  <2> DEFINE c == call[w]
  <2>1. c \in Call /\ CallOK(c) /\ DefaultAhead(c) /\ c.at = "ok"
    BY DEF IInv, Typed, WalkOK, At
  <2>2. Ahead(c, parent) = {}
    BY <2>1, BelowNothing DEF Ahead, Front, Ends, Here, CallOK
  <2> QED
    BY <2>1, <2>2 DEF DefaultAhead, Undefaulted
<1> QED
  BY <1>1, WalkInvariant, PTL
=============================================================================
