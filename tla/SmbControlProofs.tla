---------------------------- MODULE SmbControlProofs ----------------------------
(***************************************************************************)
(* The control of the handlers: what can follow what in the steps a        *)
(* process has still to do.  From it, that the mutex is held exactly       *)
(* between Lock and Unlock, and that a new file is always followed by the  *)
(* reload it owes, whatever fails and however the handlers interleave.     *)
(***************************************************************************)
EXTENDS SmbServiceProofs

-----------------------------------------------------------------------------
(* The handlers as sequences of steps: where they lock and unlock, that an *)
(* apply goes through its steps in order, and that both survive going on   *)
(* to the next step and putting an inner operation in front.               *)

\* The next step on the mutex is an unlock.
InSection(s) ==
  \E i \in 1 .. Len(s) : s[i] = "unlock" /\ \A k \in 1 .. i : s[k] # "lock"

\* Every lock is followed by its unlock, two unlocks have a lock between them,
\* and what comes after the loop over the grants leaves the mutex alone.
WellBracketed(s) ==
  /\ \A i \in 1 .. Len(s) : s[i] = "lock" =>
       \E j \in i + 1 .. Len(s) : s[j] = "unlock" /\ \A k \in i + 1 .. j : s[k] # "lock"
  /\ \A i, j \in 1 .. Len(s) : i < j /\ s[i] = "unlock" /\ s[j] = "unlock" =>
       \E k \in i + 1 .. j : s[k] = "lock"
  /\ \A i, j \in 1 .. Len(s) : i < j /\ s[i] = "nextGrant" => s[j] \notin {"lock", "unlock"}

Bare(s) == \A i \in 1 .. Len(s) : s[i] \notin {"lock", "unlock", "nextGrant"}

LEMMA TailIndex ==
  ASSUME NEW s \in Seq(Step), s # <<>>
  PROVE  /\ Tail(s) \in Seq(Step) /\ Len(s) \in Nat /\ Len(s) > 0
         /\ Len(Tail(s)) = Len(s) - 1 /\ Head(s) = s[1]
         /\ \A i \in 1 .. Len(s) - 1 : Tail(s)[i] = s[i + 1]
BY HeadTailProperties, EmptySeq

LEMMA ConcatIndex ==
  ASSUME NEW x \in Seq(Step), NEW s \in Seq(Step)
  PROVE  /\ x \o s \in Seq(Step) /\ Len(x) \in Nat /\ Len(s) \in Nat
         /\ Len(x \o s) = Len(x) + Len(s)
         /\ \A i \in 1 .. Len(x) : (x \o s)[i] = x[i]
         /\ \A i \in 1 .. Len(s) : (x \o s)[Len(x) + i] = s[i]
         /\ \A i \in 1 .. Len(x \o s) : i <= Len(x) \/ i - Len(x) \in 1 .. Len(s)
BY ConcatProperties

LEMMA TailBracketed ==
  ASSUME NEW s \in Seq(Step), s # <<>>, WellBracketed(s)
  PROVE  WellBracketed(Tail(s))
<1> DEFINE t == Tail(s)
<1>1. /\ Len(s) \in Nat /\ Len(s) > 0 /\ Len(t) = Len(s) - 1
      /\ \A i \in 1 .. Len(t) : t[i] = s[i + 1]
  BY TailIndex
<1> HIDE DEF t
<1>2. ASSUME NEW i \in 1 .. Len(t), t[i] = "lock"
      PROVE  \E j \in i + 1 .. Len(t) : t[j] = "unlock" /\ \A k \in i + 1 .. j : t[k] # "lock"
  <2>1. PICK j \in i + 2 .. Len(s) : s[j] = "unlock" /\ \A k \in i + 2 .. j : s[k] # "lock"
    BY <1>1, <1>2 DEF WellBracketed
  <2>2. j - 1 \in i + 1 .. Len(t) /\ t[j - 1] = "unlock"
    BY <1>1, <2>1
  <2>3. \A k \in i + 1 .. j - 1 : t[k] # "lock"
    BY <1>1, <2>1
  <2> QED BY <2>2, <2>3
<1>3. ASSUME NEW i \in 1 .. Len(t), NEW j \in 1 .. Len(t), i < j, t[i] = "unlock", t[j] = "unlock"
      PROVE  \E k \in i + 1 .. j : t[k] = "lock"
  <2>1. PICK k \in i + 2 .. j + 1 : s[k] = "lock"
    BY <1>1, <1>3 DEF WellBracketed
  <2>2. k - 1 \in i + 1 .. j /\ t[k - 1] = "lock"
    BY <1>1, <2>1
  <2> QED BY <2>2
<1>4. \A i, j \in 1 .. Len(t) : i < j /\ t[i] = "nextGrant" => t[j] \notin {"lock", "unlock"}
  BY <1>1 DEF WellBracketed
<1> QED BY <1>2, <1>3, <1>4 DEF WellBracketed, t

LEMMA TailSection ==
  ASSUME NEW s \in Seq(Step), s # <<>>, WellBracketed(s)
  PROVE  /\ Head(s) \notin {"lock", "unlock"} => (InSection(Tail(s)) <=> InSection(s))
         /\ Head(s) = "lock" => InSection(Tail(s)) /\ ~InSection(s)
         /\ Head(s) = "unlock" => ~InSection(Tail(s)) /\ InSection(s)
<1> DEFINE t == Tail(s)
<1>1. /\ Len(s) \in Nat /\ Len(s) > 0 /\ Len(t) = Len(s) - 1 /\ Head(s) = s[1]
      /\ \A i \in 1 .. Len(t) : t[i] = s[i + 1]
  BY TailIndex
<1> HIDE DEF t
<1>2. ASSUME s[1] \notin {"lock", "unlock"} PROVE InSection(t) <=> InSection(s)
  <2>1. ASSUME NEW i \in 1 .. Len(t), t[i] = "unlock", \A k \in 1 .. i : t[k] # "lock"
        PROVE  InSection(s)
    <3>1. i + 1 \in 1 .. Len(s) /\ s[i + 1] = "unlock"
      BY <1>1, <2>1
    <3>2. \A k \in 1 .. i + 1 : s[k] # "lock"
      <4> SUFFICES ASSUME NEW k \in 1 .. i + 1 PROVE s[k] # "lock"
        OBVIOUS
      <4>1. CASE k = 1
        BY <4>1, <1>2
      <4>2. CASE k - 1 \in 1 .. i
        <5>1. t[k - 1] = s[k - 1 + 1] /\ t[k - 1] # "lock" /\ k - 1 + 1 = k
          BY <4>2, <1>1, <2>1
        <5> QED BY <5>1
      <4> QED BY <4>1, <4>2
    <3> QED BY <3>1, <3>2 DEF InSection
  <2>2. ASSUME NEW i \in 1 .. Len(s), s[i] = "unlock", \A k \in 1 .. i : s[k] # "lock"
        PROVE  InSection(t)
    <3>1. i - 1 \in 1 .. Len(t) /\ t[i - 1] = "unlock"
      BY <1>1, <1>2, <2>2
    <3>2. \A k \in 1 .. i - 1 : t[k] # "lock"
      BY <1>1, <2>2
    <3> QED BY <3>1, <3>2 DEF InSection
  <2> QED BY <2>1, <2>2 DEF InSection
<1>3. ASSUME s[1] = "lock" PROVE InSection(t) /\ ~InSection(s)
  <2>1. PICK j \in 2 .. Len(s) : s[j] = "unlock" /\ \A k \in 2 .. j : s[k] # "lock"
    BY <1>1, <1>3 DEF WellBracketed
  <2>2. j - 1 \in 1 .. Len(t) /\ t[j - 1] = "unlock" /\ \A k \in 1 .. j - 1 : t[k] # "lock"
    BY <1>1, <2>1
  <2>3. InSection(t)
    BY <2>2 DEF InSection
  <2>4. ~InSection(s)
    BY <1>1, <1>3 DEF InSection
  <2> QED BY <2>3, <2>4
<1>4. ASSUME s[1] = "unlock" PROVE ~InSection(t) /\ InSection(s)
  <2>1. InSection(s)
    BY <1>1, <1>4 DEF InSection
  <2>2. ASSUME NEW i \in 1 .. Len(t), t[i] = "unlock", \A k \in 1 .. i : t[k] # "lock"
        PROVE  FALSE
    <3>1. PICK k \in 2 .. i + 1 : s[k] = "lock"
      BY <1>1, <1>4, <2>2 DEF WellBracketed
    <3>2. k - 1 \in 1 .. i /\ t[k - 1] = "lock"
      BY <1>1, <3>1
    <3> QED BY <2>2, <3>2
  <2> QED BY <2>1, <2>2 DEF InSection
<1> QED BY <1>1, <1>2, <1>3, <1>4 DEF t

\* Steps that leave the mutex alone, in front of any others.
LEMMA BareConcat ==
  ASSUME NEW x \in Seq(Step), NEW s \in Seq(Step), Bare(x), WellBracketed(s)
  PROVE  WellBracketed(x \o s) /\ (InSection(x \o s) <=> InSection(s))
<1> DEFINE t == x \o s
           n == Len(x)
<1>1. /\ n \in Nat /\ Len(s) \in Nat /\ Len(t) = n + Len(s)
      /\ \A i \in 1 .. n : t[i] = x[i]
      /\ \A i \in 1 .. Len(s) : t[n + i] = s[i]
  BY ConcatIndex
<1>2. \A i \in 1 .. n : t[i] \notin {"lock", "unlock", "nextGrant"}
  BY <1>1 DEF Bare
<1> HIDE DEF t, n
<1>0. \A i \in 1 .. Len(t) : i > n => /\ i - n \in 1 .. Len(s)
                                     /\ t[i] = s[i - n]
  <2> SUFFICES ASSUME NEW i \in 1 .. Len(t), i > n
               PROVE  i - n \in 1 .. Len(s) /\ t[i] = s[i - n]
    OBVIOUS
  <2>1. i - n \in 1 .. Len(s) /\ n + (i - n) = i
    BY <1>1
  <2>2. t[n + (i - n)] = s[i - n]
    BY <1>1, <2>1
  <2> QED BY <2>1, <2>2
<1>3. ASSUME NEW i \in 1 .. Len(t), t[i] = "lock"
      PROVE  \E j \in i + 1 .. Len(t) : t[j] = "unlock" /\ \A k \in i + 1 .. j : t[k] # "lock"
  <2>1. i > n /\ i - n \in 1 .. Len(s) /\ s[i - n] = "lock"
    BY <1>0, <1>1, <1>2, <1>3
  <2>2. PICK j \in i - n + 1 .. Len(s) :
          s[j] = "unlock" /\ \A k \in i - n + 1 .. j : s[k] # "lock"
    BY <2>1 DEF WellBracketed
  <2>3. n + j \in i + 1 .. Len(t) /\ t[n + j] = "unlock"
    BY <1>1, <2>1, <2>2
  <2>4. \A k \in i + 1 .. n + j : t[k] # "lock"
    <3> SUFFICES ASSUME NEW k \in i + 1 .. n + j PROVE t[k] # "lock"
      OBVIOUS
    <3>1. k \in 1 .. Len(t) /\ k > n /\ k - n \in i - n + 1 .. j
      BY <1>1, <2>1, <2>3
    <3> QED BY <3>1, <1>0, <2>2
  <2> QED BY <2>3, <2>4
<1>4. ASSUME NEW i \in 1 .. Len(t), NEW j \in 1 .. Len(t), i < j, t[i] = "unlock", t[j] = "unlock"
      PROVE  \E k \in i + 1 .. j : t[k] = "lock"
  <2>1. /\ i - n \in 1 .. Len(s) /\ s[i - n] = "unlock"
        /\ j - n \in 1 .. Len(s) /\ s[j - n] = "unlock" /\ i - n < j - n
    BY <1>0, <1>1, <1>2, <1>4
  <2>2. PICK k \in i - n + 1 .. j - n : s[k] = "lock"
    BY <2>1 DEF WellBracketed
  <2>3. n + k \in i + 1 .. j /\ t[n + k] = "lock"
    BY <1>1, <2>1, <2>2
  <2> QED BY <2>3
<1>5. ASSUME NEW i \in 1 .. Len(t), NEW j \in 1 .. Len(t), i < j, t[i] = "nextGrant"
      PROVE  t[j] \notin {"lock", "unlock"}
  <2>1. /\ i - n \in 1 .. Len(s) /\ s[i - n] = "nextGrant"
        /\ j - n \in 1 .. Len(s) /\ s[j - n] = t[j] /\ i - n < j - n
    BY <1>0, <1>1, <1>2, <1>5
  <2> QED BY <2>1 DEF WellBracketed
<1>6. ASSUME NEW i \in 1 .. Len(t), t[i] = "unlock", \A k \in 1 .. i : t[k] # "lock"
      PROVE  InSection(s)
  <2>1. i - n \in 1 .. Len(s) /\ s[i - n] = "unlock"
    BY <1>0, <1>1, <1>2, <1>6
  <2>2. ASSUME NEW k \in 1 .. i - n PROVE s[k] # "lock"
    <3>1. k \in 1 .. Len(s) /\ n + k \in 1 .. i
      BY <1>1, <2>1, <2>2
    <3> QED BY <3>1, <1>1, <1>6
  <2> QED BY <2>1, <2>2 DEF InSection
<1>7. ASSUME NEW i \in 1 .. Len(s), s[i] = "unlock", \A k \in 1 .. i : s[k] # "lock"
      PROVE  InSection(t)
  <2>1. n + i \in 1 .. Len(t) /\ t[n + i] = "unlock"
    BY <1>1, <1>7
  <2>2. ASSUME NEW k \in 1 .. n + i PROVE t[k] # "lock"
    <3>1. CASE k <= n
      BY <3>1, <1>1, <1>2
    <3>2. CASE k > n
      <4>1. k \in 1 .. Len(t) /\ k - n \in 1 .. i
        BY <1>1, <3>2
      <4> QED BY <4>1, <3>2, <1>0, <1>7
    <3> QED BY <3>1, <3>2, <1>1
  <2> QED BY <2>1, <2>2 DEF InSection
<1> QED BY <1>3, <1>4, <1>5, <1>6, <1>7 DEF WellBracketed, InSection, t

\* Any steps, in front of others that leave the mutex alone.
LEMMA FreeConcat ==
  ASSUME NEW x \in Seq(Step), NEW s \in Seq(Step), WellBracketed(x),
         \A i \in 1 .. Len(s) : s[i] \notin {"lock", "unlock"}
  PROVE  WellBracketed(x \o s) /\ (InSection(x \o s) <=> InSection(x))
<1> DEFINE t == x \o s
           n == Len(x)
<1>1. /\ n \in Nat /\ Len(s) \in Nat /\ Len(t) = n + Len(s)
      /\ \A i \in 1 .. n : t[i] = x[i]
  BY ConcatIndex
<1>2. ASSUME NEW i \in 1 .. Len(t), i > n PROVE t[i] \notin {"lock", "unlock"}
  <2>1. i - n \in 1 .. Len(s) /\ t[n + (i - n)] = s[i - n] /\ n + (i - n) = i
    BY <1>1, <1>2, ConcatIndex
  <2> QED BY <2>1
<1> HIDE DEF t
<1>3. ASSUME NEW i \in 1 .. Len(t), t[i] = "lock"
      PROVE  \E j \in i + 1 .. Len(t) : t[j] = "unlock" /\ \A k \in i + 1 .. j : t[k] # "lock"
  <2>1. i \in 1 .. n /\ x[i] = "lock"
    BY <1>1, <1>2, <1>3
  <2>2. PICK j \in i + 1 .. n : x[j] = "unlock" /\ \A k \in i + 1 .. j : x[k] # "lock"
    BY <2>1 DEF WellBracketed
  <2> QED BY <1>1, <2>1, <2>2
<1>4. ASSUME NEW i \in 1 .. Len(t), NEW j \in 1 .. Len(t), i < j, t[i] = "unlock", t[j] = "unlock"
      PROVE  \E k \in i + 1 .. j : t[k] = "lock"
  <2>1. i \in 1 .. n /\ j \in 1 .. n /\ x[i] = "unlock" /\ x[j] = "unlock"
    BY <1>1, <1>2, <1>4
  <2>2. PICK k \in i + 1 .. j : x[k] = "lock"
    BY <1>4, <2>1 DEF WellBracketed
  <2> QED BY <1>1, <2>1, <2>2
<1>5. ASSUME NEW i \in 1 .. Len(t), NEW j \in 1 .. Len(t), i < j, t[i] = "nextGrant"
      PROVE  t[j] \notin {"lock", "unlock"}
  <2>1. CASE j > n
    BY <2>1, <1>2
  <2>2. CASE j <= n
    BY <2>2, <1>1, <1>5 DEF WellBracketed
  <2> QED BY <2>1, <2>2, <1>1
<1>6. InSection(t) => InSection(x)
  BY <1>1, <1>2 DEF InSection
<1>7. InSection(x) => InSection(t)
  BY <1>1 DEF InSection
<1> QED BY <1>3, <1>4, <1>5, <1>6, <1>7 DEF WellBracketed, t

\* What may stand next to what: an apply is made in its order, and a new file
\* is followed by a reload.
Link(a, b) ==
  /\ b = "readVolumes"  => a = "readSettings"
  /\ b = "readGrants"   => a = "readVolumes"
  /\ b = "ensureShares" => a = "readGrants"
  /\ b = "writeConf"    => a = "ensureShares"
  /\ b = "restart"      => a = "reload"
  /\ b = "reload"      <=> a = "writeConf"

Linked == {"readVolumes", "readGrants", "ensureShares", "writeConf", "reload", "restart"}

Chained(s) ==
  /\ \A i \in 1 .. Len(s) - 1 : Link(s[i], s[i + 1])
  /\ s # <<>> => s[Len(s)] # "writeConf"

LEMMA TailChained ==
  ASSUME NEW s \in Seq(Step), s # <<>>, Chained(s)
  PROVE  Chained(Tail(s)) /\ (Tail(s) # <<>> => Link(s[1], Tail(s)[1]))
<1> DEFINE t == Tail(s)
<1>1. /\ Len(s) \in Nat /\ Len(s) > 0 /\ Len(t) = Len(s) - 1 /\ t \in Seq(Step)
      /\ \A i \in 1 .. Len(t) : t[i] = s[i + 1]
  BY TailIndex
<1>2. t # <<>> => Len(t) > 0
  BY <1>1, EmptySeq
<1> HIDE DEF t
<1>3. \A i \in 1 .. Len(t) - 1 : Link(t[i], t[i + 1])
  BY <1>1 DEF Chained
<1>4. t # <<>> => t[Len(t)] # "writeConf" /\ Link(s[1], t[1])
  BY <1>1, <1>2 DEF Chained
<1> QED BY <1>3, <1>4 DEF Chained, t

LEMMA ChainedConcat ==
  ASSUME NEW x \in Seq(Step), NEW s \in Seq(Step), Chained(x), Chained(s),
         x # <<>> /\ s # <<>> => Link(x[Len(x)], s[1])
  PROVE  Chained(x \o s)
<1> DEFINE t == x \o s
           n == Len(x)
<1>1. /\ n \in Nat /\ Len(s) \in Nat /\ Len(t) = n + Len(s) /\ t \in Seq(Step)
      /\ \A i \in 1 .. n : t[i] = x[i]
      /\ \A i \in 1 .. Len(s) : t[n + i] = s[i]
  BY ConcatIndex
<1>e. /\ x # <<>> <=> n > 0
      /\ s # <<>> <=> Len(s) > 0
      /\ t # <<>> <=> Len(t) > 0
  BY <1>1, EmptySeq
<1>f. n > 0 => Chained(x)
  OBVIOUS
<1> HIDE DEF t, n
<1>2. ASSUME NEW i \in 1 .. Len(t) - 1 PROVE Link(t[i], t[i + 1])
  <2>1. CASE i < n
    <3>1. i \in 1 .. n - 1 /\ t[i] = x[i] /\ t[i + 1] = x[i + 1]
      BY <1>1, <2>1
    <3> QED BY <3>1 DEF Chained, n
  <2>2. CASE i = n
    <3>1. t[i] = x[n] /\ t[i + 1] = s[1] /\ n > 0 /\ Len(s) > 0
      BY <1>1, <2>2
    <3> QED BY <3>1, <1>e DEF n
  <2>3. CASE i > n
    <3>1. /\ i - n \in 1 .. Len(s) - 1 /\ n + (i - n) = i
          /\ i - n + 1 \in 1 .. Len(s) /\ n + (i - n + 1) = i + 1
      BY <1>1, <2>3
    <3>2. t[n + (i - n)] = s[i - n] /\ t[n + (i - n + 1)] = s[i - n + 1]
      BY <1>1, <3>1
    <3>3. Link(s[i - n], s[i - n + 1])
      BY <3>1 DEF Chained
    <3> QED BY <3>1, <3>2, <3>3
  <2> QED BY <2>1, <2>2, <2>3, <1>1
<1>3. ASSUME t # <<>> PROVE t[Len(t)] # "writeConf"
  <2>1. CASE Len(s) > 0
    BY <2>1, <1>1, <1>e DEF Chained
  <2>2. CASE Len(s) = 0
    <3>1. Len(t) = n /\ n > 0 /\ t[Len(t)] = x[n]
      BY <2>2, <1>1, <1>3, <1>e
    <3> QED BY <3>1, <1>e DEF Chained, n
  <2> QED BY <2>1, <2>2, <1>1
<1> QED BY <1>2, <1>3 DEF Chained, t

-----------------------------------------------------------------------------
(* The handlers. *)

\* A piece of a handler that leaves the mutex alone.
Piece(x) == x \in Seq(Step) /\ Bare(x) /\ Chained(x) /\ x # <<>>

\* What a process may still have to do.
Sound(s) == s \in Seq(Step) /\ WellBracketed(s) /\ Chained(s)

\* What a handler may begin with: nothing of the mutex and of an apply done yet.
Startable(s) == Sound(s) /\ ~InSection(s) /\ (s # <<>> => s[1] \notin Linked)

LEMMA NothingStartable == Startable(<<>>)
BY EmptySeq DEF Startable, Sound, WellBracketed, Chained, InSection

LEMMA PieceConcat ==
  ASSUME NEW x, Piece(x), NEW y, Piece(y), Link(x[Len(x)], y[1])
  PROVE  /\ Piece(x \o y) /\ (x \o y)[1] = x[1]
         /\ (x \o y)[Len(x \o y)] = y[Len(y)]
<1>1. Chained(x \o y)
  BY ChainedConcat DEF Piece
<1>2. /\ Len(x) \in Nat /\ Len(y) \in Nat /\ Len(x) > 0 /\ Len(y) > 0
  BY EmptySeq, ConcatIndex DEF Piece
<1>3. Bare(x \o y)
  <2> SUFFICES ASSUME NEW i \in 1 .. Len(x \o y)
               PROVE  (x \o y)[i] \notin {"lock", "unlock", "nextGrant"}
    BY DEF Bare
  <2>1. CASE i <= Len(x)
    BY <2>1, <1>2, ConcatIndex DEF Piece, Bare
  <2>2. CASE i > Len(x)
    <3>1. i - Len(x) \in 1 .. Len(y) /\ Len(x) + (i - Len(x)) = i
      BY <2>2, <1>2, ConcatIndex DEF Piece
    <3>2. (x \o y)[Len(x) + (i - Len(x))] = y[i - Len(x)]
      BY <3>1, ConcatIndex DEF Piece
    <3> QED BY <3>1, <3>2 DEF Piece, Bare
  <2> QED BY <2>1, <2>2, <1>2, ConcatIndex DEF Piece
<1>4. /\ x \o y \in Seq(Step) /\ Len(x \o y) = Len(x) + Len(y) /\ x \o y # <<>>
      /\ (x \o y)[1] = x[1] /\ (x \o y)[Len(x) + Len(y)] = y[Len(y)]
  BY <1>2, ConcatIndex, EmptySeq DEF Piece
<1> QED BY <1>1, <1>3, <1>4 DEF Piece

LEMMA PieceStartable ==
  ASSUME NEW x, Piece(x), x[1] \notin Linked
  PROVE  Startable(x)
BY DEF Piece, Bare, Startable, Sound, WellBracketed, InSection

LEMMA ApplyPiece ==
  /\ Piece(ApplySteps) /\ ApplySteps[1] = "readSettings"
  /\ ApplySteps[Len(ApplySteps)] = "reload"
<1>1. ApplySteps \in Seq(Step)
  BY ApplyStepsTyped, UnnamedSteps
<1> QED BY <1>1 DEF ApplySteps, Piece, Bare, Chained, Link

\* A first piece in front of an apply.
LEMMA BeforeApply ==
  ASSUME NEW x, Piece(x), x[1] \notin Linked,
         x[Len(x)] \notin {"readSettings", "readVolumes", "readGrants", "ensureShares",
                           "writeConf", "reload"}
  PROVE  Startable(x \o ApplySteps) /\ Piece(x \o ApplySteps)
         /\ (x \o ApplySteps)[Len(x \o ApplySteps)] = "reload"
<1>1. Link(x[Len(x)], "readSettings")
  BY DEF Link
<1> QED BY <1>1, ApplyPiece, PieceConcat, PieceStartable

\* From Lock to Unlock, with one piece between them.
LEMMA Bracketed ==
  ASSUME NEW b, Piece(b), b[1] \notin Linked, b[Len(b)] # "writeConf"
  PROVE  LET s == (<<"lock">> \o b) \o <<"unlock">>
         IN  /\ Startable(s) /\ Len(s) = Len(b) + 2 /\ s[Len(s)] = "unlock"
             /\ \A i \in 1 .. Len(s) - 1 : s[i] \notin {"unlock", "nextGrant"}
             /\ s[1] = "lock"
<1> DEFINE u == <<"lock">> \o b
           s == u \o <<"unlock">>
           n == Len(b)
<1>0. /\ <<"lock">> \in Seq(Step) /\ <<"unlock">> \in Seq(Step)
      /\ Len(<<"lock">>) = 1 /\ Len(<<"unlock">>) = 1
      /\ <<"lock">>[1] = "lock" /\ <<"unlock">>[1] = "unlock"
      /\ Chained(<<"lock">>) /\ Chained(<<"unlock">>)
  BY DEF Step, Chained
<1>1. b \in Seq(Step) /\ n \in Nat /\ n > 0
  BY EmptySeq, ConcatIndex DEF Piece
<1>2. /\ u \in Seq(Step) /\ Len(u) = n + 1 /\ u[1] = "lock"
      /\ \A i \in 1 .. n : u[1 + i] = b[i]
  BY <1>0, <1>1, ConcatIndex
<1>3. Chained(u)
  <2>1. Link("lock", b[1])
    BY DEF Link, Linked
  <2> QED BY <2>1, <1>0, <1>1, ChainedConcat DEF Piece
<1>4. /\ s \in Seq(Step) /\ Len(s) = n + 2 /\ s[n + 2] = "unlock"
      /\ \A i \in 1 .. n + 1 : s[i] = u[i]
  BY <1>0, <1>1, <1>2, ConcatIndex
<1>5. Chained(s)
  <2>1. u[Len(u)] = b[n]
    BY <1>1, <1>2
  <2>2. Link(u[Len(u)], "unlock")
    BY <2>1 DEF Link
  <2> QED BY <2>2, <1>0, <1>2, <1>3, ChainedConcat
<1>6. \A i \in 2 .. n + 1 : s[i] \notin {"lock", "unlock", "nextGrant"}
  <2> SUFFICES ASSUME NEW i \in 2 .. n + 1
               PROVE  s[i] \notin {"lock", "unlock", "nextGrant"}
    OBVIOUS
  <2>1. i - 1 \in 1 .. n /\ 1 + (i - 1) = i
    BY <1>1
  <2>2. u[1 + (i - 1)] = b[i - 1]
    BY <2>1, <1>2
  <2>3. s[i] = b[i - 1]
    BY <2>1, <2>2, <1>1, <1>4
  <2> QED BY <2>1, <2>3 DEF Piece, Bare
<1>7. s[1] = "lock"
  BY <1>1, <1>2, <1>4
<1> HIDE DEF s, n
<1>8. WellBracketed(s)
  <2>1. \A i \in 1 .. Len(s) : i = 1 \/ i = n + 2 \/ i \in 2 .. n + 1
    BY <1>1, <1>4
  <2>2. \A i \in 1 .. Len(s) : s[i] = "lock" =>
          \E j \in i + 1 .. Len(s) : s[j] = "unlock" /\ \A k \in i + 1 .. j : s[k] # "lock"
    <3> SUFFICES ASSUME NEW i \in 1 .. Len(s), s[i] = "lock"
                 PROVE  \E j \in i + 1 .. Len(s) :
                          s[j] = "unlock" /\ \A k \in i + 1 .. j : s[k] # "lock"
      OBVIOUS
    <3>1. i = 1
      BY <2>1, <1>4, <1>6
    <3>2. n + 2 \in i + 1 .. Len(s) /\ \A k \in i + 1 .. n + 2 : s[k] # "lock"
      BY <3>1, <1>1, <1>4, <1>6, <2>1
    <3> QED BY <3>2, <1>4
  <2>3. \A i \in 1 .. Len(s) : s[i] = "unlock" => i = n + 2
    BY <2>1, <1>6, <1>7
  <2>4. \A i \in 1 .. Len(s) : s[i] # "nextGrant"
    BY <2>1, <1>4, <1>6, <1>7
  <2> QED BY <2>2, <2>3, <2>4, <1>1 DEF WellBracketed
<1>9. ~InSection(s)
  BY <1>1, <1>4, <1>7 DEF InSection
<1> QED BY <1>1, <1>4, <1>5, <1>6, <1>7, <1>8, <1>9 DEF Startable, Sound, Linked, s, n

LEMMA ShortStartable ==
  /\ Startable(RepairVolumeSteps) /\ Startable(RepairAllSteps)
  /\ Startable(CleanupSteps) /\ Startable(ChangePasswordSteps)
  /\ Startable(<<"nextGrant">>)
<1>1. /\ RepairVolumeSteps \in Seq(Step) /\ RepairAllSteps \in Seq(Step)
      /\ CleanupSteps \in Seq(Step) /\ ChangePasswordSteps \in Seq(Step)
      /\ <<"nextGrant">> \in Seq(Step)
  <2>1. RepairVolumeSteps \in Seq(Step) /\ RepairAllSteps \in Seq(Step)
    BY VolumeStepsTyped, UnnamedSteps
  <2>2. CleanupSteps \in Seq(Step)
    BY OtherStepsTyped, UnnamedSteps
  <2>3. ChangePasswordSteps \in Seq(Step)
    BY UserStepsTyped, UnnamedSteps
  <2>4. <<"nextGrant">> \in Seq(Step)
    BY DEF Step
  <2> QED BY <2>1, <2>2, <2>3, <2>4
<1> USE DEF Startable, Sound, WellBracketed, Chained, Link, Linked, InSection
<1>2. Startable(RepairVolumeSteps)
  BY <1>1 DEF RepairVolumeSteps
<1>3. Startable(RepairAllSteps)
  BY <1>1 DEF RepairAllSteps
<1>4. Startable(CleanupSteps)
  BY <1>1 DEF CleanupSteps
<1>5. Startable(ChangePasswordSteps)
  BY <1>1 DEF ChangePasswordSteps
<1>6. Startable(<<"nextGrant">>)
  BY <1>1
<1> QED BY <1>2, <1>3, <1>4, <1>5, <1>6

LEMMA AppliersStartable ==
  /\ Startable(CreateVolumeSteps) /\ Startable(UpdateVolumeSteps)
  /\ Startable(DeleteVolumeSteps) /\ Startable(CreateUserSteps)
  /\ Startable(UpdateUserSteps) /\ Startable(SetUserEnabledSteps)
  /\ Startable(DeleteUserSteps) /\ Startable(ReloadSteps)
  /\ Startable(RestartSteps) /\ Startable(SettingsSteps)
<1> USE DEF Piece, Bare, Chained, Link, Linked, Step, DbSteps, CmdSteps
<1>1. Startable(CreateVolumeSteps)
  <2>1. Piece(<<"walk", "insertVolume">>)
    OBVIOUS
  <2> QED BY <2>1, BeforeApply DEF CreateVolumeSteps
<1>2. Startable(UpdateVolumeSteps)
  <2>1. Piece(<<"getVolume", "walk", "updateVolume", "reread">>)
    OBVIOUS
  <2> QED BY <2>1, BeforeApply DEF UpdateVolumeSteps
<1>3. Startable(DeleteVolumeSteps)
  <2>1. Piece(<<"deleteVolume">>)
    OBVIOUS
  <2> QED BY <2>1, BeforeApply DEF DeleteVolumeSteps
<1>4. Startable(CreateUserSteps)
  <2>1. Piece(<<"lookup", "group", "password", "insertUser">>)
    OBVIOUS
  <2> QED BY <2>1, BeforeApply DEF CreateUserSteps
<1>5. Startable(UpdateUserSteps)
  <2>1. Piece(<<"getUser", "setEnabled", "reread", "flag">>)
    OBVIOUS
  <2> QED BY <2>1, BeforeApply DEF UpdateUserSteps
<1>6. Startable(SetUserEnabledSteps)
  <2>1. Piece(<<"getUser", "flag", "setEnabled">>)
    OBVIOUS
  <2> QED BY <2>1, BeforeApply DEF SetUserEnabledSteps
<1>7. Startable(SettingsSteps)
  <2>1. Piece(<<"setSettings">>)
    OBVIOUS
  <2> QED BY <2>1, BeforeApply DEF SettingsSteps
<1>8. Startable(DeleteUserSteps)
  <2>1. Piece(<<"getUser", "pdbDelete", "deleteUser">>) /\ Piece(<<"userdel">>)
    OBVIOUS
  <2> DEFINE a == <<"getUser", "pdbDelete", "deleteUser">> \o ApplySteps
  <2>2. Piece(a) /\ a[Len(a)] = "reload" /\ a[1] = "getUser"
    BY <2>1, BeforeApply, ApplyPiece, PieceConcat
  <2> HIDE DEF a
  <2>3. Piece(a \o <<"userdel">>) /\ (a \o <<"userdel">>)[1] = "getUser"
    BY <2>1, <2>2, PieceConcat
  <2> QED BY <2>3, PieceStartable DEF DeleteUserSteps, a
<1>9. Startable(ReloadSteps)
  BY ApplyPiece, PieceStartable DEF ReloadSteps
<1>10. Startable(RestartSteps)
  <2>1. Piece(<<"restart">>)
    OBVIOUS
  <2> HIDE DEF Piece
  <2>2. Piece(ApplySteps \o <<"restart">>) /\ (ApplySteps \o <<"restart">>)[1] = "readSettings"
    BY <2>1, ApplyPiece, PieceConcat
  <2> QED BY <2>2, PieceStartable DEF RestartSteps
<1> QED BY <1>1, <1>2, <1>3, <1>4, <1>5, <1>6, <1>7, <1>8, <1>9, <1>10

\* A grant: from its Lock to its Unlock, and no other unlock.
LEMMA GrantStartable ==
  /\ Startable(SetPermissionSteps) /\ Startable(BulkSteps)
  /\ SetPermissionSteps[Len(SetPermissionSteps)] = "unlock"
  /\ BulkSteps[Len(BulkSteps)] = "unlock"
  /\ \A i \in 1 .. Len(SetPermissionSteps) - 1 : SetPermissionSteps[i] \notin {"unlock", "nextGrant"}
  /\ \A i \in 1 .. Len(BulkSteps) - 1 : BulkSteps[i] \notin {"unlock", "nextGrant"}
  /\ SetPermissionSteps[1] = "lock" /\ BulkSteps[1] = "lock"
  /\ Len(SetPermissionSteps) > 1 /\ Len(BulkSteps) > 1
<1> USE DEF Link, Linked, Step, DbSteps, CmdSteps
<1>1. /\ Piece(<<"permUser", "permVolume", "permRow">>)
      /\ Piece(<<"bulkCheck", "bulkPair">>)
  BY DEF Piece, Bare, Chained
<1> DEFINE b == <<"permUser", "permVolume", "permRow">> \o ApplySteps
           c == <<"bulkCheck", "bulkPair">> \o ApplySteps
<1>2. Piece(b) /\ b[Len(b)] = "reload" /\ b[1] = "permUser"
  BY <1>1, ApplyPiece, PieceConcat
<1>3. Piece(c) /\ c[Len(c)] = "reload" /\ c[1] = "bulkCheck"
  BY <1>1, ApplyPiece, PieceConcat
<1>4. SetPermissionSteps = (<<"lock">> \o b) \o <<"unlock">>
  <2>1. <<"lock", "permUser", "permVolume", "permRow">>
          = <<"lock">> \o <<"permUser", "permVolume", "permRow">>
    OBVIOUS
  <2>2. /\ <<"lock">> \in Seq(Step) /\ ApplySteps \in Seq(Step)
        /\ <<"permUser", "permVolume", "permRow">> \in Seq(Step)
    BY <1>1, ApplyPiece DEF Piece
  <2>3. (<<"lock">> \o <<"permUser", "permVolume", "permRow">>) \o ApplySteps
          = <<"lock">> \o (<<"permUser", "permVolume", "permRow">> \o ApplySteps)
    BY <2>2, ConcatAssociative
  <2>4. SetPermissionSteps = (<<"lock", "permUser", "permVolume", "permRow">> \o ApplySteps)
                               \o <<"unlock">>
    BY DEF SetPermissionSteps
  <2> QED BY <2>1, <2>3, <2>4
<1>5. BulkSteps = (<<"lock">> \o c) \o <<"unlock">>
  <2>1. <<"lock", "bulkCheck", "bulkPair">> = <<"lock">> \o <<"bulkCheck", "bulkPair">>
    OBVIOUS
  <2> QED BY <2>1, ApplyPiece, ConcatAssociative DEF BulkSteps, Piece
<1>6. Len(b) \in Nat /\ Len(c) \in Nat
  BY <1>2, <1>3, ConcatIndex DEF Piece
<1> HIDE DEF b, c
<1>7. /\ Startable(SetPermissionSteps) /\ Len(SetPermissionSteps) = Len(b) + 2
      /\ SetPermissionSteps[Len(SetPermissionSteps)] = "unlock"
      /\ SetPermissionSteps[1] = "lock"
      /\ \A i \in 1 .. Len(SetPermissionSteps) - 1 :
           SetPermissionSteps[i] \notin {"unlock", "nextGrant"}
  BY <1>2, <1>4, Bracketed
<1>8. /\ Startable(BulkSteps) /\ Len(BulkSteps) = Len(c) + 2
      /\ BulkSteps[Len(BulkSteps)] = "unlock" /\ BulkSteps[1] = "lock"
      /\ \A i \in 1 .. Len(BulkSteps) - 1 : BulkSteps[i] \notin {"unlock", "nextGrant"}
  BY <1>3, <1>5, Bracketed
<1> QED BY <1>6, <1>7, <1>8

LEMMA TemporaryStartable ==
  ASSUME NEW g \in BOOLEAN
  PROVE  Startable(CreateTemporaryUserSteps(g))
<1> DEFINE x == <<"lookup", "group", "password", "insertUser">>
<1>1. Piece(x) /\ x[1] = "lookup" /\ x[Len(x)] = "insertUser" /\ Len(x) = 4
  BY DEF Piece, Bare, Chained, Link, Step, DbSteps, CmdSteps
<1> HIDE DEF x
<1>2. CASE g
  <2> DEFINE t == x \o <<"nextGrant">>
  <2>1. Startable(<<"nextGrant">>) /\ Len(<<"nextGrant">>) = 1 /\ <<"nextGrant">>[1] = "nextGrant"
    BY ShortStartable
  <2>2. Link("insertUser", "nextGrant")
    BY DEF Link
  <2>3. WellBracketed(t) /\ ~InSection(t)
    BY <1>1, <2>1, BareConcat DEF Piece, Startable, Sound
  <2>4. Chained(t)
    BY <1>1, <2>1, <2>2, ChainedConcat DEF Piece, Startable, Sound
  <2>5. t \in Seq(Step) /\ t[1] = "lookup"
    BY <1>1, <2>1, ConcatIndex DEF Piece, Startable, Sound
  <2> QED BY <1>2, <2>3, <2>4, <2>5
          DEF Startable, Sound, Linked, CreateTemporaryUserSteps, x
<1>3. CASE ~g
  BY <1>1, <1>3, BeforeApply DEF CreateTemporaryUserSteps, Linked, x
<1> QED BY <1>2, <1>3

-----------------------------------------------------------------------------
(* The handlers at work *)

\* How a step of p changes what p has still to do: on to the next step, give
\* up, or put the steps of an inner operation in front.
Advances(p) ==
  \/ prog[p] # <<>> /\ prog' = [prog EXCEPT ![p] = Tail(prog[p])]
  \/ prog' = [prog EXCEPT ![p] = Unwind(p)]
  \/ /\ job[p].temp /\ mu = p
     /\ prog' = [prog EXCEPT ![p] = Unwind(p) \o <<"nextGrant">>]
  \/ At(p, "lookup") /\ prog' = [prog EXCEPT ![p] = <<"useradd">> \o Tail(prog[p])]
  \/ /\ At(p, "selectExpired")
     /\ prog' = [prog EXCEPT ![p] = (<<"nextExpired">> \o ApplySteps) \o Tail(prog[p])]
  \/ At(p, "nextExpired") /\ prog' = [prog EXCEPT ![p] = ExpiredSteps \o prog[p]]
  \/ At(p, "nextGrant") /\ prog' = [prog EXCEPT ![p] = SetPermissionSteps \o prog[p]]
  \/ At(p, "bulkPair") /\ prog' = [prog EXCEPT ![p] = prog[p]]

\* No handler becomes that of a temporary user on its way.
TempKept == \A q \in Proc : job'[q].temp => job[q].temp

MaybeFails == applied' = applied \/ applied' = "failed"

Elsewhere == Step \ (ApplyStep \cup {"lock", "unlock", "restart"})

\* A step outside applyConfig, off the mutex.
Ordinary(p) ==
  /\ \E s \in Elsewhere : At(p, s)
  /\ Advances(p) /\ TempKept /\ MaybeFails
  /\ UNCHANGED <<smbVars, mu, snap>>

-----------------------------------------------------------------------------
LEMMA GotoTemp ==
  ASSUME ProcInv, NEW p \in Proc, NEW steps, NEW j, Goto(p, steps, j),
         j.temp => job[p].temp
  PROVE  TempKept /\ prog' = [prog EXCEPT ![p] = steps]
BY DEF Goto, TempKept, ProcInv, NoJob

LEMMA DoneAdvances ==
  ASSUME ProcInv, NEW p \in Proc, NEW s, At(p, s), Done(p) \/ Changed(p)
  PROVE  Advances(p) /\ TempKept
<1>1. [job[p] EXCEPT !.changed = TRUE].temp = job[p].temp
  BY DEF ProcInv, SafeJob, Job
<1> QED BY <1>1, GotoTemp DEF Done, Changed, Continue, Advances, At

LEMMA AbortAdvances ==
  ASSUME ProcInv, NEW p \in Proc, Abort(p)
  PROVE  Advances(p) /\ TempKept /\ MaybeFails /\ UNCHANGED <<tableVars, smbVars, mu, snap>>
BY GotoTemp DEF Abort, Advances, MaybeFails

LEMMA ApplyFailedAdvances ==
  ASSUME ProcInv, NEW p \in Proc, ApplyFailed(p)
  PROVE  Advances(p) /\ TempKept /\ applied' = "failed" /\ UNCHANGED <<tableVars, mu>>
<1>1. Unwind(p) \o <<>> = Unwind(p)
  BY UnwindTyped, ConcatEmptySeq
<1> DEFINE rest == Unwind(p) \o (IF job[p].temp /\ mu = p THEN <<"nextGrant">> ELSE <<>>)
<1>2. /\ Goto(p, rest, job[p])
      /\ applied' = "failed" /\ UNCHANGED <<tableVars, mu>>
  BY DEF ApplyFailed
<1>3. TempKept /\ prog' = [prog EXCEPT ![p] = rest]
  BY <1>2, GotoTemp
<1>4. CASE job[p].temp /\ mu = p
  <2>1. rest = Unwind(p) \o <<"nextGrant">>
    BY <1>4
  <2> QED BY <1>2, <1>3, <1>4, <2>1 DEF Advances
<1>5. CASE ~(job[p].temp /\ mu = p)
  <2>1. rest = Unwind(p)
    BY <1>1, <1>5
  <2> QED BY <1>2, <1>3, <2>1 DEF Advances
<1> QED BY <1>4, <1>5

LEMMA CheckingOrdinary ==
  ASSUME ProcInv, NEW p \in Proc,
         \/ GetVolume(p) \/ Walk(p) \/ AddToGroup(p)
         \/ PermUser(p) \/ PermVolume(p) \/ BulkCheck(p)
  PROVE  Ordinary(p)
<1>1. PICK s \in {"getVolume", "walk", "walkAll", "reread", "group", "permUser",
                  "permVolume", "bulkCheck"} : At(p, s)
  BY DEF GetVolume, Walk, AddToGroup, PermUser, PermVolume, BulkCheck
<1>2. s \in Elsewhere
  BY DEF Elsewhere, Step, DbSteps, CmdSteps, ApplyStep
<1>3. Abort(p) \/ (Done(p) /\ Moves)
  BY DEF GetVolume, Walk, AddToGroup, PermUser, PermVolume, BulkCheck
<1> QED BY <1>1, <1>2, <1>3, DoneAdvances, AbortAdvances DEF Ordinary, Moves, MaybeFails

LEMMA WorkOrdinary ==
  ASSUME ProcInv, NEW p \in Proc,
         \/ InsertVolumeStep(p) \/ UpdateVolumeStep(p) \/ DeleteVolumeStep(p)
         \/ SetEnabledStep(p) \/ DeleteUserStep(p) \/ SetSettings(p)
         \/ SetPassword(p) \/ SetFlag(p) \/ PdbDelete(p) \/ UserDel(p) \/ PermRow(p)
  PROVE  Ordinary(p)
<1>1. PICK s \in {"insertVolume", "updateVolume", "deleteVolume", "setEnabled",
                  "deleteUser", "setSettings", "password", "flag", "pdbDelete",
                  "userdel", "permRow"} : At(p, s)
  BY DEF InsertVolumeStep, UpdateVolumeStep, DeleteVolumeStep, SetEnabledStep,
     DeleteUserStep, SetSettings, SetPassword, SetFlag, PdbDelete, UserDel, PermRow
<1>2. s \in Elsewhere
  BY DEF Elsewhere, Step, DbSteps, CmdSteps, ApplyStep
<1>3. Abort(p) \/ ((Done(p) \/ Changed(p)) /\ (OnTables \/ OnSystem))
  BY DEF InsertVolumeStep, UpdateVolumeStep, DeleteVolumeStep, SetEnabledStep,
     DeleteUserStep, SetSettings, SetPassword, SetFlag, PdbDelete, UserDel, PermRow
<1> QED BY <1>1, <1>2, <1>3, DoneAdvances, AbortAdvances
        DEF Ordinary, OnTables, OnSystem, MaybeFails

LEMMA OtherOrdinary ==
  ASSUME ProcInv, NEW p \in Proc,
         \/ GetUser(p) \/ Lookup(p) \/ UserAdd(p) \/ InsertUserStep(p)
         \/ SelectExpired(p) \/ NextExpired(p) \/ BulkPair(p) \/ NextGrant(p)
  PROVE  Ordinary(p)
<1> DEFINE Frame == UNCHANGED <<smbVars, mu, snap>> /\ MaybeFails
<1>0. \A s \in {"getUser", "lookup", "useradd", "insertUser", "selectExpired",
                "nextExpired", "bulkPair", "nextGrant"} : s \in Elsewhere
  BY DEF Elsewhere, Step, DbSteps, CmdSteps, ApplyStep
<1>f. (Moves \/ OnTables \/ OnSystem) => Frame
  BY DEF Moves, OnTables, OnSystem, MaybeFails
<1>j. job[p] \in Job
  BY DEF ProcInv, SafeJob
<1>c. ASSUME NEW s, At(p, s), NEW j, Continue(p, j), j.temp = job[p].temp
      PROVE  Advances(p) /\ TempKept
  BY <1>c, GotoTemp DEF Continue, Advances, At
<1>1. CASE GetUser(p)
  <2>1. ASSUME NEW u \in users,
               Continue(p, [job[p] EXCEPT !.name = u.name, !.created = u.created])
        PROVE  Advances(p) /\ TempKept
    <3>1. [job[p] EXCEPT !.name = u.name, !.created = u.created].temp = job[p].temp
      BY <1>j DEF Job
    <3> QED BY <1>1, <2>1, <3>1, <1>c DEF GetUser
  <2> QED BY <1>1, <2>1, <1>0, <1>f, AbortAdvances DEF GetUser, Ordinary
<1>2. CASE Lookup(p)
  BY <1>2, <1>0, <1>f, DoneAdvances, GotoTemp DEF Lookup, Ordinary, Advances
<1>3. CASE UserAdd(p)
  <2>1. [job[p] EXCEPT !.created = TRUE].temp = job[p].temp
    BY <1>j DEF Job
  <2> QED BY <1>3, <2>1, <1>0, <1>f, <1>c, AbortAdvances DEF UserAdd, Ordinary
<1>4. CASE InsertUserStep(p)
  <2>1. [job[p] EXCEPT !.uid = nextUser, !.changed = TRUE].temp = job[p].temp
    BY <1>j DEF Job
  <2> QED BY <1>4, <2>1, <1>0, <1>f, <1>c, AbortAdvances DEF InsertUserStep, Ordinary
<1>5. CASE SelectExpired(p)
  <2>1. [job[p] EXCEPT !.rows = ExpiredTemporary].temp = job[p].temp
    BY <1>j DEF Job
  <2>2. Tail(prog[p]) \in Seq(Step)
    BY <1>5, HeadTailProperties DEF SelectExpired, At, ProcInv
  <2>3. <<>> \o Tail(prog[p]) = Tail(prog[p])
    BY <2>2, ConcatEmptySeq
  <2> DEFINE x == IF ExpiredTemporary = {} THEN <<>> ELSE <<"nextExpired">> \o ApplySteps
             j == [job[p] EXCEPT !.rows = ExpiredTemporary]
  <2>4. Goto(p, x \o Tail(prog[p]), j) /\ At(p, "selectExpired") /\ (j.temp => job[p].temp)
    BY <1>5, <2>1 DEF SelectExpired
  <2> HIDE DEF j
  <2>5. TempKept /\ prog' = [prog EXCEPT ![p] = x \o Tail(prog[p])]
    BY <2>4, GotoTemp
  <2>6. TempKept /\ Advances(p)
    BY <2>3, <2>4, <2>5 DEF Advances, At
  <2> QED BY <1>5, <2>6, <1>0, <1>f DEF SelectExpired, Ordinary
<1>6. CASE NextExpired(p)
  <2> DEFINE j(u) == [job[p] EXCEPT !.rows = @ \ {u}, !.uid = u.id, !.name = u.name,
                                    !.created = u.created]
  <2>1. \A u \in job[p].rows : j(u).temp = job[p].temp
    BY <1>j DEF Job
  <2>3. At(p, "nextExpired") /\ (Done(p) \/ \E u \in job[p].rows : Goto(p, ExpiredSteps \o prog[p], j(u)))
    BY <1>6 DEF NextExpired
  <2> HIDE DEF j
  <2>4. ASSUME NEW u \in job[p].rows, Goto(p, ExpiredSteps \o prog[p], j(u))
        PROVE  TempKept /\ Advances(p)
    <3>1. TempKept /\ prog' = [prog EXCEPT ![p] = ExpiredSteps \o prog[p]]
      BY <2>1, <2>4, GotoTemp
    <3> QED BY <2>3, <3>1 DEF Advances
  <2>2. TempKept /\ Advances(p)
    BY <2>3, <2>4, DoneAdvances
  <2> QED BY <1>6, <2>2, <1>0, <1>f DEF NextExpired, Ordinary
<1>7. CASE BulkPair(p)
  <2> DEFINE j(t) == [job[p] EXCEPT !.todo = @ \ {t}, !.uid = t[1],
                                    !.changed = @ \/ perms' # perms]
  <2>1. \A t : j(t).temp = job[p].temp
    BY <1>j DEF Job
  <2>2. /\ At(p, "bulkPair")
        /\ \/ Done(p) /\ Moves
           \/ (\E t \in job[p].todo : Goto(p, prog[p], j(t))) /\ OnTables
           \/ Abort(p)
    BY <1>7 DEF BulkPair
  <2> HIDE DEF j
  <2>3. ASSUME NEW t \in job[p].todo, Goto(p, prog[p], j(t))
        PROVE  TempKept /\ Advances(p)
    <3>1. TempKept /\ prog' = [prog EXCEPT ![p] = prog[p]]
      BY <2>1, <2>3, GotoTemp
    <3> QED BY <2>2, <3>1 DEF Advances
  <2> QED BY <2>2, <2>3, <1>0, <1>f, AbortAdvances, DoneAdvances DEF Ordinary
<1>8. CASE NextGrant(p)
  <2> DEFINE j(t) == [job[p] EXCEPT !.todo = @ \ {t}, !.vid = t[2]]
  <2>1. \A t : j(t).temp = job[p].temp
    BY <1>j DEF Job
  <2>3. At(p, "nextGrant") /\ (Done(p) \/ \E t \in job[p].todo : Goto(p, SetPermissionSteps \o prog[p], j(t)))
    BY <1>8 DEF NextGrant
  <2> HIDE DEF j
  <2>4. ASSUME NEW t \in job[p].todo, Goto(p, SetPermissionSteps \o prog[p], j(t))
        PROVE  TempKept /\ Advances(p)
    <3>1. TempKept /\ prog' = [prog EXCEPT ![p] = SetPermissionSteps \o prog[p]]
      BY <2>1, <2>4, GotoTemp
    <3> QED BY <2>3, <3>1 DEF Advances
  <2>2. TempKept /\ Advances(p)
    BY <2>3, <2>4, DoneAdvances
  <2> QED BY <1>8, <2>2, <1>0, <1>f DEF NextGrant, Ordinary
<1> QED BY <1>1, <1>2, <1>3, <1>4, <1>5, <1>6, <1>7, <1>8


LEMMA FailControl ==
  ASSUME ProcInv, NEW p \in Proc, Fail(p)
  PROVE  /\ \E s \in Step \ {"lock", "unlock"} : At(p, s)
         /\ Advances(p) /\ TempKept /\ MaybeFails
         /\ UNCHANGED <<tableVars, smbVars, mu>>
         /\ At(p, "reload") => applied' = "failed"
         /\ snap' = snap \/ snap' = [snap EXCEPT ![p] = NoSnap]
<1>1. \E s \in Step \ {"lock", "unlock"} : At(p, s)
  BY DEF Fail, Step, DbSteps, CmdSteps
<1>2. CASE ApplyFailed(p) /\ UNCHANGED smbVars
  BY <1>1, <1>2, ApplyFailedAdvances DEF MaybeFails, ApplyFailed
<1>3. CASE Abort(p) /\ ~\E s \in ApplyStep : At(p, s)
  BY <1>1, <1>3, AbortAdvances DEF ApplyStep
<1> QED BY <1>2, <1>3 DEF Fail

\* The steps of applyConfig, and the restart of smbd.
Applying(p) ==
  /\ \E s \in ApplyStep \cup {"restart"} : At(p, s)
  /\ Advances(p) /\ TempKept
  /\ UNCHANGED <<tableVars, mu>>

LEMMA ApplyControl ==
  ASSUME ProcInv, NEW p \in Proc,
         \/ ReadTables(p) \/ EnsureShares(p) \/ WriteConf(p) \/ ReloadSmbd(p)
         \/ RestartSmbd(p)
  PROVE  Applying(p)
<1> USE DEF Applying, ApplyStep
<1>1. CASE ReadTables(p)
  BY <1>1, DoneAdvances DEF ReadTables
<1>2. CASE EnsureShares(p)
  BY <1>2, DoneAdvances, ApplyFailedAdvances DEF EnsureShares, Moves
<1>3. CASE WriteConf(p)
  BY <1>3, DoneAdvances DEF WriteConf
<1>4. CASE ReloadSmbd(p)
  BY <1>4, DoneAdvances, ApplyFailedAdvances DEF ReloadSmbd
<1>5. CASE RestartSmbd(p)
  BY <1>5, DoneAdvances DEF RestartSmbd
<1> QED BY <1>1, <1>2, <1>3, <1>4, <1>5

\* Every step of a handler other than Lock and Unlock.
LEMMA RunControl ==
  ASSUME ProcInv, NEW p \in Proc, Run(p), ~Unlock(p)
  PROVE  Ordinary(p) \/ Applying(p) \/ Fail(p)
BY CheckingOrdinary, WorkOrdinary, OtherOrdinary, ApplyControl DEF Run

-----------------------------------------------------------------------------
(* What the control keeps. *)

\* Handlers stay in order, and a process is between its Lock and its Unlock
\* exactly while it owns the mutex.
ControlInv == \A p \in Proc :
  /\ WellBracketed(prog[p]) /\ Chained(prog[p])
  /\ InSection(prog[p]) <=> mu = p

LEMMA UnwindSound ==
  ASSUME NEW p
  PROVE  /\ Sound(Unwind(p)) /\ (InSection(Unwind(p)) <=> mu = p)
         /\ mu = p => /\ Sound(Unwind(p) \o <<"nextGrant">>)
                      /\ InSection(Unwind(p) \o <<"nextGrant">>)
<1> DEFINE u == <<"unlock">>
           g == <<"nextGrant">>
<1>1. /\ u \in Seq(Step) /\ Len(u) = 1 /\ u[1] = "unlock"
      /\ g \in Seq(Step) /\ Len(g) = 1 /\ g[1] = "nextGrant"
  BY DEF Step
<1> HIDE DEF u, g
<1>2. WellBracketed(u) /\ Chained(u) /\ InSection(u)
  BY <1>1 DEF WellBracketed, Chained, InSection
<1>3. Chained(g)
  BY <1>1 DEF Chained
<1>4. WellBracketed(u \o g) /\ InSection(u \o g)
  BY <1>1, <1>2, FreeConcat
<1>5. Chained(u \o g) /\ u \o g \in Seq(Step)
  BY <1>1, <1>2, <1>3, ChainedConcat, ConcatIndex DEF Link
<1> QED BY <1>1, <1>2, <1>4, <1>5, NothingStartable DEF Unwind, Sound, Startable, u, g

\* p goes on with s, and is in its section as before.
GoesOn(p, s) ==
  Sound(s) /\ prog' = [prog EXCEPT ![p] = s] /\ (InSection(s) <=> mu = p)

\* A step off the mutex leaves every handler sound and in its section.
LEMMA AdvancesSound ==
  ASSUME ProcInv, ControlInv, NEW p \in Proc, Advances(p), prog[p] # <<>>,
         Head(prog[p]) \notin {"lock", "unlock"}
  PROVE  \E s : GoesOn(p, s)
<1> USE DEF GoesOn, Sound
<1> DEFINE old == prog[p]
           t == Tail(old)
           Good(s) == Sound(s) /\ (InSection(s) <=> mu = p)
<1>1. old \in Seq(Step) /\ Good(old) /\ old # <<>> /\ Head(old) = old[1]
  BY TailIndex DEF ProcInv, ControlInv
<1>2. Good(t) /\ (t # <<>> => Link(old[1], t[1]))
  BY <1>1, TailBracketed, TailSection, TailChained, TailIndex
<1> HIDE DEF t, old
<1>3. ASSUME NEW x, Piece(x), NEW s, Good(s), s # <<>> => Link(x[Len(x)], s[1])
      PROVE  Good(x \o s)
  BY <1>3, BareConcat, ChainedConcat, ConcatIndex DEF Piece
<1>4. CASE prog' = [prog EXCEPT ![p] = t]
  BY <1>2, <1>4
<1>5. CASE prog' = [prog EXCEPT ![p] = Unwind(p)]
  BY <1>5, UnwindSound DEF Sound
<1>6. CASE mu = p /\ prog' = [prog EXCEPT ![p] = Unwind(p) \o <<"nextGrant">>]
  BY <1>6, UnwindSound DEF Sound
<1>7. CASE At(p, "lookup") /\ prog' = [prog EXCEPT ![p] = <<"useradd">> \o t]
  <2>1. Piece(<<"useradd">>) /\ <<"useradd">>[Len(<<"useradd">>)] = "useradd"
    BY DEF Piece, Bare, Chained, Step, CmdSteps
  <2>2. t # <<>> => Link("useradd", t[1])
    BY <1>1, <1>2, <1>7 DEF At, Link, old
  <2> QED BY <2>1, <2>2, <1>2, <1>3, <1>7
<1>8. CASE /\ At(p, "selectExpired")
           /\ prog' = [prog EXCEPT ![p] = (<<"nextExpired">> \o ApplySteps) \o t]
  <2>1. Piece(<<"nextExpired">>) /\ <<"nextExpired">>[Len(<<"nextExpired">>)] = "nextExpired"
    BY DEF Piece, Bare, Chained, Step
  <2> DEFINE x == <<"nextExpired">> \o ApplySteps
  <2>2. Piece(x) /\ x[Len(x)] = "reload"
    BY <2>1, ApplyPiece, PieceConcat DEF Link
  <2> HIDE DEF x
  <2>3. t # <<>> => Link("reload", t[1])
    BY <1>1, <1>2, <1>8 DEF At, Link, old
  <2> QED BY <2>2, <2>3, <1>2, <1>3, <1>8 DEF x
<1>9. CASE At(p, "nextExpired") /\ prog' = [prog EXCEPT ![p] = ExpiredSteps \o old]
  <2>1. Piece(ExpiredSteps) /\ ExpiredSteps[Len(ExpiredSteps)] = "userdel"
    BY DEF ExpiredSteps, Piece, Bare, Chained, Link, Step, DbSteps, CmdSteps
  <2>2. Link("userdel", old[1])
    BY <1>1, <1>9 DEF At, Link, old
  <2> QED BY <2>1, <2>2, <1>1, <1>3, <1>9
<1>10. CASE At(p, "nextGrant") /\ prog' = [prog EXCEPT ![p] = SetPermissionSteps \o old]
  <2>1. old[1] = "nextGrant"
    BY <1>1, <1>10 DEF At, old
  <2>2. \A i \in 1 .. Len(old) : old[i] \notin {"lock", "unlock"}
    <3>1. \A i \in 1 .. Len(old) : i = 1 \/ (1 < i /\ 1 \in 1 .. Len(old))
      BY <1>1, TailIndex
    <3> QED BY <3>1, <2>1, <1>1 DEF WellBracketed
  <2>3. mu # p
    BY <1>1, <2>2 DEF InSection
  <2>4. Sound(SetPermissionSteps) /\ ~InSection(SetPermissionSteps)
    BY GrantStartable DEF Startable
  <2>5. WellBracketed(SetPermissionSteps \o old) /\ ~InSection(SetPermissionSteps \o old)
    BY <1>1, <2>2, <2>4, FreeConcat DEF Sound
  <2>6. Chained(SetPermissionSteps \o old) /\ SetPermissionSteps \o old \in Seq(Step)
    BY <1>1, <2>1, <2>4, GrantStartable, ChainedConcat, ConcatIndex DEF Sound, Link
  <2> QED BY <2>3, <2>5, <2>6, <1>10
<1>11. CASE prog' = [prog EXCEPT ![p] = old]
  BY <1>1, <1>11
<1> QED BY <1>4, <1>5, <1>6, <1>7, <1>8, <1>9, <1>10, <1>11 DEF Advances, t, old

-----------------------------------------------------------------------------
(* The mutex. *)

LEMMA StartKeepsControl ==
  ASSUME ProcInv, ControlInv, NEW p \in Proc, prog[p] = <<>>, NEW steps, NEW j,
         Startable(steps), Goto(p, steps, j), mu' = mu
  PROVE  ControlInv'
<1>1. mu # p
  BY NothingStartable DEF ControlInv, Startable
<1> QED BY <1>1 DEF ControlInv, ProcInv, Goto, Startable, Sound

LEMMA RequestStarts ==
  ASSUME ProcInv, NEW p \in Proc, Request(p)
  PROVE  \E op, steps, j :
           /\ Startable(steps) /\ Begin(p, op, steps, j)
           /\ Ops \subseteq {"setPermission", "bulk", "repair"} =>
                /\ ~j.temp
                /\ steps \in {SetPermissionSteps, BulkSteps, RepairVolumeSteps}
<1> USE ShortStartable, AppliersStartable, GrantStartable, TemporaryStartable DEF Serve
<1>j. /\ NoJob \in Job /\ ~NoJob.temp
  BY NoJobSafe DEF SafeJob, NoJob
<1>1. CASE CreateVolume(p) \/ UpdateVolume(p) \/ DeleteVolume(p)
  BY <1>1 DEF CreateVolume, UpdateVolume, DeleteVolume, Begin
<1>2. CASE CreateUser(p) \/ UpdateUser(p) \/ SetUserEnabled(p)
  BY <1>2 DEF CreateUser, UpdateUser, SetUserEnabled, Begin
<1>3. CASE ChangeUserPassword(p) \/ DeleteUser(p)
  BY <1>3 DEF ChangeUserPassword, DeleteUser, Begin
<1>4. CASE Reload(p) \/ Restart(p) \/ UpdateSettings(p)
  BY <1>4 DEF Reload, Restart, UpdateSettings, Begin
<1>5. CASE CreateTemporaryUser(p)
  BY <1>5 DEF CreateTemporaryUser, Begin
<1>6. CASE RepairVolumePermissions(p)
  <2>1. \A id : ~[NoJob EXCEPT !.vid = id].temp
    BY <1>j DEF NoJob
  <2> QED BY <1>6, <2>1 DEF RepairVolumePermissions, Begin
<1>7. CASE SetPermission(p)
  <2>1. \A uid, vid, a : ~[NoJob EXCEPT !.uid = uid, !.vid = vid, !.access = a].temp
    BY <1>j DEF NoJob
  <2> QED BY <1>7, <2>1 DEF SetPermission, Begin
<1>8. CASE BulkSetPermissions(p)
  <2>1. \A todo, a : ~[NoJob EXCEPT !.todo = todo, !.access = a].temp
    BY <1>j DEF NoJob
  <2> QED BY <1>8, <2>1 DEF BulkSetPermissions, Begin
<1> QED BY <1>1, <1>2, <1>3, <1>4, <1>5, <1>6, <1>7, <1>8 DEF Request

LEMMA LockKeepsControl ==
  ASSUME ProcInv, ControlInv, NEW p \in Proc, Lock(p)
  PROVE  ControlInv'
<1>1. /\ prog[p] \in Seq(Step) /\ prog[p] # <<>> /\ Head(prog[p]) = "lock"
      /\ prog' = [prog EXCEPT ![p] = Tail(prog[p])] /\ mu' = p /\ mu = NoProc
  BY DEF Lock, At, Done, Continue, Goto, ProcInv
<1>2. /\ WellBracketed(Tail(prog[p])) /\ Chained(Tail(prog[p]))
      /\ InSection(Tail(prog[p]))
  BY <1>1, TailBracketed, TailChained, TailSection DEF ControlInv
<1>3. \A q \in Proc : mu # q
  BY <1>1, ProcAssumption
<1> QED BY <1>1, <1>2, <1>3 DEF ControlInv, ProcInv

LEMMA UnlockKeepsControl ==
  ASSUME ProcInv, ControlInv, NEW p \in Proc, Unlock(p)
  PROVE  ControlInv' /\ mu = p
<1>1. /\ prog[p] \in Seq(Step) /\ prog[p] # <<>> /\ Head(prog[p]) = "unlock"
      /\ prog' = [prog EXCEPT ![p] = Tail(prog[p])] /\ mu' = NoProc
  BY DEF Unlock, At, Done, Continue, Goto, ProcInv
<1>2. /\ WellBracketed(Tail(prog[p])) /\ Chained(Tail(prog[p]))
      /\ ~InSection(Tail(prog[p])) /\ InSection(prog[p])
  BY <1>1, TailBracketed, TailChained, TailSection DEF ControlInv
<1>3. mu = p
  BY <1>2 DEF ControlInv
<1>4. \A q \in Proc : mu' # q /\ (q # p => ~InSection(prog[q]))
  BY <1>1, <1>3, ProcAssumption DEF ControlInv
<1> QED BY <1>1, <1>2, <1>3, <1>4 DEF ControlInv, ProcInv

LEMMA AdvancesKeepsControl ==
  ASSUME ProcInv, ControlInv, NEW p \in Proc, Advances(p), mu' = mu,
         \E s \in Step \ {"lock", "unlock"} : At(p, s)
  PROVE  ControlInv'
<1>1. prog[p] # <<>> /\ Head(prog[p]) \notin {"lock", "unlock"}
  BY DEF At
<1>2. PICK s : GoesOn(p, s)
  BY <1>1, AdvancesSound
<1> QED BY <1>2 DEF GoesOn, Sound, ControlInv, ProcInv

LEMMA RunKeepsControl ==
  ASSUME ProcInv, ControlInv, NEW p \in Proc, Run(p), ~Unlock(p)
  PROVE  ControlInv' /\ mu' = mu
<1>1. CASE Ordinary(p)
  BY <1>1, AdvancesKeepsControl DEF Ordinary, Elsewhere
<1>2. CASE Applying(p)
  BY <1>2, AdvancesKeepsControl DEF Applying, ApplyStep, Step, DbSteps, CmdSteps
<1>3. CASE Fail(p)
  BY <1>3, FailControl, AdvancesKeepsControl
<1> QED BY <1>1, <1>2, <1>3, RunControl

LEMMA InitControl == Init => ControlInv
<1> SUFFICES ASSUME Init PROVE ControlInv
  OBVIOUS
<1>1. \A p \in Proc : Startable(prog[p]) /\ mu # p
  BY ShortStartable, NothingStartable, ProcAssumption DEF Init, AtStart
<1> QED BY <1>1 DEF ControlInv, Startable, Sound

LEMMA NextControl == ProcInv /\ ControlInv /\ [Next]_vars => ControlInv'
<1> SUFFICES ASSUME ProcInv, ControlInv, [Next]_vars PROVE ControlInv'
  OBVIOUS
<1>1. ASSUME NEW p \in Worker, Request(p) PROVE ControlInv'
  <2>1. p \in Proc
    BY DEF Proc
  <2>2. PICK op, steps, j : Startable(steps) /\ Begin(p, op, steps, j)
    BY <1>1, <2>1, RequestStarts
  <2> QED BY <2>1, <2>2, StartKeepsControl DEF Begin
<1>2. ASSUME NEW p \in Janitor, Tick(p) PROVE ControlInv'
  BY <1>2, StartKeepsControl, ShortStartable DEF Tick, Moves, Proc
<1>3. ASSUME NEW p \in Proc, Lock(p) \/ Run(p) PROVE ControlInv'
  BY <1>3, LockKeepsControl, UnlockKeepsControl, RunKeepsControl
<1>4. CASE Crash
  <2>1. \A p \in Proc : Startable(prog'[p]) /\ mu' # p
    BY <1>4, ShortStartable, NothingStartable, ProcAssumption DEF Crash, AtStart
  <2> QED BY <2>1 DEF ControlInv, Startable, Sound
<1>5. CASE LeaseExpires \/ UNCHANGED vars
  BY <1>5 DEF LeaseExpires, vars, ControlInv
<1> QED BY <1>1, <1>2, <1>3, <1>4, <1>5 DEF Next

THEOREM ControlInvariant == Spec => [](ProcInv /\ ControlInv)
<1>1. Init => ControlInv
  BY InitControl
<1>2. IInv => ProcInv
  BY DEF IInv
<1> QED BY <1>1, <1>2, NextControl, ServiceInvariant, PTL DEF Spec

\* Every process is between its Lock and its Unlock exactly while it owns the
\* mutex: inner operations, early returns and crashes neither leave it locked
\* nor run a section without it.
THEOREM ServiceMutexHeld == Spec => []MutexHeld
<1>1. ControlInv => MutexHeld
  BY DEF ControlInv, InSection, MutexHeld
<1> QED BY <1>1, ControlInvariant, PTL

-----------------------------------------------------------------------------
(* The reload that a new file owes. *)

OwedInv == loaded # conf /\ applied = "ok" => \E p \in Proc : At(p, "reload")

LEMMA OthersKeepReload ==
  ASSUME ProcInv, NEW p \in Proc, Advances(p), ~At(p, "reload"),
         \E q \in Proc : At(q, "reload")
  PROVE  (\E q \in Proc : At(q, "reload"))'
<1>1. PICK q \in Proc : At(q, "reload")
  OBVIOUS
<1>2. q # p /\ prog'[q] = prog[q]
  BY <1>1 DEF Advances, ProcInv
<1> QED BY <1>1, <1>2 DEF At

\* A step that neither writes a file nor ends a reload.
LEMMA StillOwed ==
  ASSUME ProcInv, OwedInv, NEW p \in Proc, Advances(p), MaybeFails,
         At(p, "reload") => applied' = "failed", UNCHANGED smbVars
  PROVE  OwedInv'
BY OthersKeepReload DEF OwedInv, MaybeFails, smbVars

LEMMA RunKeepsOwed ==
  ASSUME ProcInv, ControlInv, OwedInv, NEW p \in Proc, Run(p)
  PROVE  OwedInv'
<1>1. CASE Unlock(p)
  <2>1. prog[p] # <<>> /\ Advances(p) /\ ~At(p, "reload")
    BY <1>1 DEF Unlock, Done, Continue, Goto, Advances, At
  <2> QED BY <1>1, <2>1, StillOwed DEF Unlock, MaybeFails
<1>2. CASE Ordinary(p)
  <2>1. ~At(p, "reload")
    BY <1>2 DEF Ordinary, Elsewhere, ApplyStep, At
  <2> QED BY <1>2, <2>1, StillOwed DEF Ordinary
<1>3. CASE ReadTables(p) \/ EnsureShares(p)
  <2>1. Advances(p)
    BY <1>3, ApplyControl DEF Applying
  <2>2. ~At(p, "reload") /\ UNCHANGED smbVars /\ MaybeFails
    BY <1>3 DEF ReadTables, EnsureShares, ApplyFailed, Moves, MaybeFails, At
  <2> QED BY <2>1, <2>2, StillOwed
<1>4. CASE WriteConf(p)
  <2>1. /\ prog[p] \in Seq(Step) /\ prog[p] # <<>> /\ Head(prog[p]) = "writeConf"
        /\ prog' = [prog EXCEPT ![p] = Tail(prog[p])] /\ Chained(prog[p])
    BY <1>4 DEF WriteConf, Done, Continue, Goto, At, ProcInv, ControlInv
  <2>2. Len(prog[p]) \in Nat /\ Len(prog[p]) > 0 /\ prog[p][1] = "writeConf"
    BY <2>1, TailIndex
  <2>3. 1 \in 1 .. Len(prog[p]) - 1
    BY <2>1, <2>2 DEF Chained
  <2>4. Len(Tail(prog[p])) > 0 /\ Tail(prog[p]) \in Seq(Step)
    BY <2>1, <2>3, TailIndex
  <2>5. ASSUME NEW t \in Seq(Step), Len(t) > 0 PROVE t # <<>> /\ Head(t) = t[1]
    BY <2>5, EmptySeq, TailIndex
  <2>6. Head(Tail(prog[p])) = "reload"
    BY <2>1, <2>2, <2>4, <2>5, TailChained DEF Link
  <2>7. At(p, "reload")'
    BY <2>1, <2>4, <2>5, <2>6 DEF At, ProcInv
  <2> QED BY <2>7 DEF OwedInv
<1>5. CASE ReloadSmbd(p) \/ RestartSmbd(p)
  BY <1>5 DEF ReloadSmbd, RestartSmbd, OwedInv
<1>6. CASE Fail(p)
  BY <1>6, FailControl, StillOwed
<1> QED BY <1>1, <1>2, <1>3, <1>4, <1>5, <1>6, CheckingOrdinary, WorkOrdinary, OtherOrdinary
        DEF Run

LEMMA NextOwed == ProcInv /\ ControlInv /\ OwedInv /\ [Next]_vars => OwedInv'
<1> SUFFICES ASSUME ProcInv, ControlInv, OwedInv, [Next]_vars PROVE OwedInv'
  OBVIOUS
<1>1. ASSUME NEW p \in Proc, prog[p] = <<>>, NEW s, prog' = [prog EXCEPT ![p] = s],
             UNCHANGED smbVars, applied' = applied
      PROVE  OwedInv'
  <2>1. \A q \in Proc : At(q, "reload") => At(q, "reload")'
    BY <1>1 DEF At, ProcInv
  <2> QED BY <1>1, <2>1 DEF OwedInv, smbVars
<1>2. ASSUME NEW p \in Worker, Request(p) PROVE OwedInv'
  <2>1. p \in Proc
    BY DEF Proc
  <2>2. PICK op, steps, j : Begin(p, op, steps, j)
    BY <1>2, <2>1, RequestStarts
  <2> QED BY <1>1, <2>1, <2>2 DEF Begin, Goto
<1>3. ASSUME NEW p \in Janitor, Tick(p) PROVE OwedInv'
  BY <1>1, <1>3 DEF Tick, Goto, Moves, Proc
<1>4. ASSUME NEW p \in Proc, Lock(p) PROVE OwedInv'
  <2>1. prog[p] # <<>> /\ Advances(p) /\ ~At(p, "reload")
    BY <1>4 DEF Lock, Done, Continue, Goto, Advances, At
  <2> QED BY <1>4, <2>1, StillOwed DEF Lock, MaybeFails
<1>5. CASE LeaseExpires \/ UNCHANGED vars
  BY <1>5 DEF LeaseExpires, vars, smbVars, OwedInv, At
<1>6. CASE Crash
  BY <1>6 DEF Crash, OwedInv
<1> QED BY <1>2, <1>3, <1>4, <1>5, <1>6, RunKeepsOwed DEF Next

\* Whatever fails and whoever races, a file that smbd does not run with is
\* about to be reloaded, or the last apply is known to have failed.
THEOREM ServiceReloadOwed == Spec => []ReloadOwed
<1>1. Init => OwedInv
  BY DEF Init, OwedInv
<1>2. ProcInv /\ OwedInv => ReloadOwed
  <2> SUFFICES ASSUME ProcInv, OwedInv, loaded # conf, applied = "ok"
               PROVE  \E p \in Proc : Will(p, "reload")
    BY DEF ReloadOwed
  <2>1. PICK p \in Proc : At(p, "reload")
    BY DEF OwedInv
  <2>2. 1 \in 1 .. Len(prog[p]) /\ prog[p][1] = "reload"
    BY <2>1, TailIndex DEF At, ProcInv
  <2> QED BY <2>2 DEF Will
<1> QED BY <1>1, <1>2, NextOwed, ControlInvariant, PTL DEF Spec
=============================================================================
