--------------------------- MODULE SmbAccountsProofs ---------------------------
(***************************************************************************)
(* No SMB user of the tables is left without a Linux account: the          *)
(* deletions of the API and of the cleanup take away only accounts whose   *)
(* rows are gone, and a creation's account is nobody else's to take away.  *)
(* And when nothing fails, Samba's database has each of them, enabled or   *)
(* not as the tables say: the second half of the module, from Watched on.  *)
(***************************************************************************)
EXTENDS SmbEnforcementProofs

\* A step that gives its handler another name, or a set of rows to erase.
Picking == {"getUser", "nextExpired", "selectExpired", "userdel"}
Picks(s) == \E x \in Picking : Has(s, x)

\* A creation inserts its row once, right after the password, and looks up no
\* other user before.
Creates(s) ==
  /\ Has(s, "insertUser") => ~Picks(s)
  /\ \A i \in 1 .. Len(s) - 1 : s[i + 1] = "insertUser" => s[i] = "password"
  /\ \A i, j \in 1 .. Len(s) : s[i] = "insertUser" /\ s[j] = "insertUser" => i = j

\* What precedes a userdel is the rest of an erasure, and an apply on the way
\* to it comes after the row is deleted.
Erasing == {"getUser", "pdbDelete", "deleteUser"} \cup ApplyStep

Erases(s) == \A j \in 1 .. Len(s) : s[j] = "userdel" => \A i \in 1 .. j - 1 :
  /\ s[i] \in Erasing
  /\ s[i + 1] \in ApplyStep \cup {"userdel"} => s[i] \in ApplyStep \cup {"deleteUser"}

\* Only the handlers of requests create users and look users up.
Ordered(p) ==
  /\ Creates(prog[p]) /\ Erases(prog[p])
  /\ p \notin Worker => ~Has(prog[p], "getUser") /\ ~Has(prog[p], "insertUser")

LEMMA TailCreates ==
  ASSUME NEW s \in Seq(Step), s # <<>>, Creates(s)
  PROVE  /\ Creates(Tail(s))
         /\ Has(Tail(s), "insertUser") => Head(s) \notin Picking \cup {"insertUser"}
         /\ Tail(s) # <<>> /\ Head(Tail(s)) = "insertUser" => Head(s) = "password"
<1> DEFINE t == Tail(s)
<1>1. /\ Len(s) \in Nat /\ Len(s) > 0 /\ Len(t) = Len(s) - 1 /\ Head(s) = s[1]
      /\ t \in Seq(Step)
      /\ \A i \in 1 .. Len(s) - 1 : t[i] = s[i + 1]
  BY TailIndex
<1>2. \A x : Has(t, x) => Has(s, x)
  BY TailHas
<1>3. t # <<>> => Head(t) = t[1] /\ Len(t) > 0
  BY <1>1
<1> HIDE DEF t
<1>i. \A i \in 1 .. Len(t) : i + 1 \in 1 .. Len(s) /\ t[i] = s[i + 1]
  BY <1>1
<1>4. Has(t, "insertUser") => ~Picks(t)
  BY <1>2 DEF Creates, Picks
<1>5. \A i \in 1 .. Len(t) - 1 : t[i + 1] = "insertUser" => t[i] = "password"
  <2> SUFFICES ASSUME NEW i \in 1 .. Len(t) - 1, t[i + 1] = "insertUser"
               PROVE  t[i] = "password"
    OBVIOUS
  <2>1. /\ i \in 1 .. Len(t) /\ i + 1 \in 1 .. Len(t) /\ i + 1 \in 1 .. Len(s) - 1
    BY <1>1
  <2>2. t[i] = s[i + 1] /\ t[i + 1] = s[(i + 1) + 1]
    BY <2>1, <1>i
  <2> QED BY <2>1, <2>2 DEF Creates
<1>6. \A i, j \in 1 .. Len(t) : t[i] = "insertUser" /\ t[j] = "insertUser" => i = j
  <2> SUFFICES ASSUME NEW i \in 1 .. Len(t), NEW j \in 1 .. Len(t), t[i] = "insertUser",
                      t[j] = "insertUser"
               PROVE  i = j
    OBVIOUS
  <2>1. i + 1 = j + 1
    BY <1>i DEF Creates
  <2> QED BY <2>1, <1>1
<1>7. Has(t, "insertUser") => Head(s) \notin Picking
  <2>1. Has(s, Head(s))
    BY <1>1 DEF Has
  <2> QED BY <1>2, <2>1 DEF Creates, Picks
<1>8. Has(t, "insertUser") => Head(s) # "insertUser"
  <2> SUFFICES ASSUME NEW i \in 1 .. Len(t), t[i] = "insertUser", s[1] = "insertUser"
               PROVE  FALSE
    BY <1>1 DEF Has
  <2>1. i + 1 \in 1 .. Len(s) /\ s[i + 1] = "insertUser" /\ 1 \in 1 .. Len(s) /\ i + 1 # 1
    BY <1>i, <1>1
  <2> QED BY <2>1 DEF Creates
<1>9. t # <<>> /\ Head(t) = "insertUser" => Head(s) = "password"
  <2> SUFFICES ASSUME t # <<>>, Head(t) = "insertUser" PROVE s[1] = "password"
    BY <1>1
  <2>1. 1 \in 1 .. Len(s) - 1 /\ s[1 + 1] = "insertUser"
    BY <1>1, <1>3
  <2> QED BY <2>1 DEF Creates
<1> QED BY <1>4, <1>5, <1>6, <1>7, <1>8, <1>9 DEF Creates, t

\* A creation next to steps that neither create nor pick.
LEMMA ConcatCreates ==
  ASSUME NEW x \in Seq(Step), NEW s \in Seq(Step), Creates(x), Creates(s),
         Has(x, "insertUser") => ~Has(s, "insertUser") /\ ~Picks(s),
         Has(s, "insertUser") => /\ ~Has(x, "insertUser") /\ ~Picks(x)
                                 /\ Head(s) # "insertUser"
  PROVE  Creates(x \o s)
<1> DEFINE t == x \o s
           n == Len(x)
<1>1. /\ n \in Nat /\ Len(s) \in Nat /\ Len(t) = n + Len(s)
      /\ \A i \in 1 .. n : t[i] = x[i]
      /\ \A i \in 1 .. Len(s) : t[n + i] = s[i]
  BY ConcatIndex
<1>h. Len(s) > 0 => Head(s) = s[1]
  OBVIOUS
<1>0. \A e : Has(t, e) <=> Has(x, e) \/ Has(s, e)
  BY ConcatHas
<1> HIDE DEF t, n
<1>2. \A i \in 1 .. Len(t) : i > n => i - n \in 1 .. Len(s) /\ t[i] = s[i - n]
  <2> SUFFICES ASSUME NEW i \in 1 .. Len(t), i > n
               PROVE  i - n \in 1 .. Len(s) /\ t[i] = s[i - n]
    OBVIOUS
  <2>1. i - n \in 1 .. Len(s) /\ n + (i - n) = i
    BY <1>1
  <2>2. t[n + (i - n)] = s[i - n]
    BY <1>1, <2>1
  <2> QED BY <2>1, <2>2
<1>3. \A i \in 1 .. Len(t) : i <= n => i \in 1 .. n /\ t[i] = x[i]
  BY <1>1
<1>4. Has(t, "insertUser") => ~Picks(t)
  BY <1>0 DEF Picks, Creates
<1>5. ASSUME NEW i \in 1 .. Len(t) - 1, t[i + 1] = "insertUser"
      PROVE  t[i] = "password"
  <2>0. i \in 1 .. Len(t) /\ i + 1 \in 1 .. Len(t)
    BY <1>1
  <2>1. CASE i + 1 <= n
    <3>1. i \in 1 .. Len(x) - 1 /\ t[i] = x[i] /\ t[i + 1] = x[i + 1]
      BY <1>1, <1>3, <2>0, <2>1 DEF n
    <3> QED BY <3>1, <1>5 DEF Creates
  <2>2. CASE i > n
    <3> DEFINE k == i - n
    <3>1. /\ k \in 1 .. Len(s) - 1 /\ t[i] = s[k]
          /\ k + 1 = (i + 1) - n /\ t[i + 1] = s[(i + 1) - n]
      BY <1>1, <1>2, <2>0, <2>2
    <3>2. t[i + 1] = s[k + 1]
      BY <3>1
    <3> HIDE DEF k
    <3> QED BY <3>1, <3>2, <1>5 DEF Creates
  <2>3. CASE i = n
    <3>1. (i + 1) - n = 1 /\ 1 \in 1 .. Len(s) /\ t[i + 1] = s[1]
      BY <1>1, <1>2, <2>0, <2>3
    <3>2. Has(s, "insertUser") /\ Head(s) = "insertUser"
      BY <1>5, <1>h, <3>1 DEF Has
    <3> QED BY <3>2
  <2> QED BY <2>1, <2>2, <2>3, <1>1
<1>6. ASSUME NEW i \in 1 .. Len(t), NEW j \in 1 .. Len(t), t[i] = "insertUser",
             t[j] = "insertUser"
      PROVE  i = j
  <2>1. CASE i <= n /\ j <= n
    BY <1>3, <1>6, <2>1 DEF Creates, n
  <2>2. CASE i > n /\ j > n
    <3>1. i - n = j - n
      BY <1>2, <1>6, <2>2 DEF Creates
    <3> QED BY <3>1, <1>1
  <2>3. CASE i <= n /\ j > n
    BY <1>2, <1>3, <1>6, <2>3 DEF Has, n
  <2>4. CASE i > n /\ j <= n
    BY <1>2, <1>3, <1>6, <2>4 DEF Has, n
  <2> QED BY <2>1, <2>2, <2>3, <2>4, <1>1
<1> QED BY <1>4, <1>5, <1>6 DEF Creates, t

LEMMA TailErases ==
  ASSUME NEW s \in Seq(Step), s # <<>>, Erases(s)
  PROVE  /\ Erases(Tail(s))
         /\ Has(s, "userdel") => Head(s) \in Erasing \cup {"userdel"}
         /\ Has(Tail(s), "userdel") =>
              /\ Tail(s) # <<>> /\ Head(s) \in Erasing
              /\ Head(Tail(s)) \in ApplyStep \cup {"userdel"}
                   => Head(s) \in ApplyStep \cup {"deleteUser"}
<1> DEFINE t == Tail(s)
<1>1. /\ Len(s) \in Nat /\ Len(s) > 0 /\ Len(t) = Len(s) - 1 /\ Head(s) = s[1]
      /\ t \in Seq(Step)
      /\ \A i \in 1 .. Len(s) - 1 : t[i] = s[i + 1]
  BY TailIndex
<1>2. Len(t) > 0 => t # <<>> /\ Head(t) = t[1]
  BY <1>1
<1> HIDE DEF t
<1>i. \A i \in 1 .. Len(t) : i + 1 \in 1 .. Len(s) /\ t[i] = s[i + 1]
  BY <1>1
<1>3. ASSUME NEW j \in 1 .. Len(t), t[j] = "userdel", NEW i \in 1 .. j - 1
      PROVE  /\ t[i] \in Erasing
             /\ t[i + 1] \in ApplyStep \cup {"userdel"} => t[i] \in ApplyStep \cup {"deleteUser"}
  <2>1. /\ j + 1 \in 1 .. Len(s) /\ s[j + 1] = "userdel" /\ i + 1 \in 1 .. (j + 1) - 1
        /\ t[i] = s[i + 1]
    BY <1>1, <1>i, <1>3
  <2>2. i + 1 \in 1 .. Len(t) /\ t[i + 1] = s[(i + 1) + 1]
    BY <1>1, <1>i, <1>3
  <2> QED BY <2>1, <2>2 DEF Erases
<1>4. Erases(t)
  BY <1>3 DEF Erases
<1>5. ASSUME Has(s, "userdel") PROVE s[1] \in Erasing \cup {"userdel"}
  <2>1. PICK j \in 1 .. Len(s) : s[j] = "userdel"
    BY <1>5 DEF Has
  <2>2. j = 1 \/ 1 \in 1 .. j - 1
    BY <2>1
  <2> QED BY <2>1, <2>2 DEF Erases
<1>6. ASSUME Has(t, "userdel")
      PROVE  /\ t # <<>> /\ s[1] \in Erasing
             /\ Head(t) \in ApplyStep \cup {"userdel"} => s[1] \in ApplyStep \cup {"deleteUser"}
  <2>1. PICK j \in 1 .. Len(t) : t[j] = "userdel"
    BY <1>6 DEF Has
  <2>2. /\ j + 1 \in 1 .. Len(s) /\ s[j + 1] = "userdel" /\ 1 \in 1 .. (j + 1) - 1
        /\ Len(t) > 0
    BY <1>1, <1>i, <2>1
  <2>3. /\ s[1] \in Erasing
        /\ s[1 + 1] \in ApplyStep \cup {"userdel"} => s[1] \in ApplyStep \cup {"deleteUser"}
    BY <2>2 DEF Erases
  <2>4. t # <<>> /\ Head(t) = s[1 + 1]
    BY <1>1, <1>2, <2>2
  <2> QED BY <2>3, <2>4
<1> QED BY <1>1, <1>4, <1>5, <1>6 DEF t

LEMMA ConcatErases ==
  ASSUME NEW x \in Seq(Step), NEW s \in Seq(Step), Erases(x), ~Has(s, "userdel")
  PROVE  Erases(x \o s)
<1> DEFINE t == x \o s
           n == Len(x)
<1>1. /\ n \in Nat /\ Len(s) \in Nat /\ Len(t) = n + Len(s)
      /\ \A i \in 1 .. n : t[i] = x[i]
      /\ \A i \in 1 .. Len(s) : t[n + i] = s[i]
  BY ConcatIndex
<1> HIDE DEF t, n
<1>2. ASSUME NEW j \in 1 .. Len(t), t[j] = "userdel", NEW i \in 1 .. j - 1
      PROVE  /\ t[i] \in Erasing
             /\ t[i + 1] \in ApplyStep \cup {"userdel"} => t[i] \in ApplyStep \cup {"deleteUser"}
  <2>1. j <= n
    <3> SUFFICES ASSUME j > n PROVE FALSE
      BY <1>1
    <3>1. j - n \in 1 .. Len(s) /\ n + (j - n) = j
      BY <1>1
    <3>2. s[j - n] = "userdel"
      BY <1>1, <1>2, <3>1
    <3> QED BY <3>1, <3>2 DEF Has
  <2>2. j \in 1 .. n /\ i \in 1 .. n /\ i + 1 \in 1 .. n
    BY <1>1, <1>2, <2>1
  <2>3. t[j] = x[j] /\ t[i] = x[i] /\ t[i + 1] = x[i + 1]
    BY <1>1, <2>2
  <2> QED BY <1>2, <2>2, <2>3 DEF Erases, n
<1> QED BY <1>2 DEF Erases, t

LEMMA DeleteUserIs ==
  /\ DeleteUserSteps \in Seq(Step) /\ Len(DeleteUserSteps) = 10
  /\ DeleteUserSteps[1] = "getUser" /\ DeleteUserSteps[2] = "pdbDelete"
  /\ DeleteUserSteps[3] = "deleteUser" /\ DeleteUserSteps[10] = "userdel"
  /\ \A i \in 4 .. 9 : DeleteUserSteps[i] \in ApplyStep
<1> DEFINE x == <<"getUser", "pdbDelete", "deleteUser">>
           y == x \o ApplySteps
           z == <<"userdel">>
<1>1. /\ x \in Seq(Step) /\ z \in Seq(Step) /\ Len(x) = 3 /\ Len(z) = 1
      /\ x[1] = "getUser" /\ x[2] = "pdbDelete" /\ x[3] = "deleteUser" /\ z[1] = "userdel"
  BY DEF Step, DbSteps, CmdSteps
<1>2. /\ ApplySteps \in Seq(Step) /\ Len(ApplySteps) = 6
      /\ \A i \in 1 .. 6 : ApplySteps[i] \in ApplyStep
  BY ApplyFollows DEF ApplySteps, ApplyStep
<1> HIDE DEF x, z
<1>3. /\ y \in Seq(Step) /\ Len(y) = 9
      /\ \A i \in 1 .. 9 : y[i] = IF i <= 3 THEN x[i] ELSE ApplySteps[i - 3]
  <2>1. /\ y \in Seq(Step) /\ Len(y) = Len(x) + Len(ApplySteps)
        /\ \A i \in 1 .. Len(x) : y[i] = x[i]
        /\ \A i \in 1 .. Len(ApplySteps) : y[Len(x) + i] = ApplySteps[i]
    BY <1>1, <1>2, ConcatIndex
  <2> HIDE DEF y
  <2>2. ASSUME NEW i \in 1 .. 9, ~(i <= 3) PROVE y[i] = ApplySteps[i - 3]
    <3>1. i - 3 \in 1 .. Len(ApplySteps) /\ Len(x) + (i - 3) = i
      BY <1>1, <1>2, <2>2
    <3> QED BY <2>1, <3>1
  <2>3. ASSUME NEW i \in 1 .. 9, i <= 3 PROVE y[i] = x[i]
    BY <1>1, <2>1, <2>3
  <2> QED BY <1>1, <1>2, <2>1, <2>2, <2>3
<1> HIDE DEF y
<1>4. \A i \in 4 .. 9 : y[i] \in ApplyStep
  <2> SUFFICES ASSUME NEW i \in 4 .. 9 PROVE y[i] \in ApplyStep
    OBVIOUS
  <2>1. i - 3 \in 1 .. 6 /\ ~(i <= 3) /\ i \in 1 .. 9
    OBVIOUS
  <2>2. ApplySteps[i - 3] \in ApplyStep
    BY <1>2, <2>1
  <2> QED BY <1>3, <2>1, <2>2
<1> DEFINE d == y \o z
<1>5. /\ d \in Seq(Step) /\ Len(d) = 10 /\ d[10] = z[1]
      /\ \A i \in 1 .. 9 : d[i] = y[i]
  <2>1. /\ d \in Seq(Step) /\ Len(d) = Len(y) + Len(z)
        /\ \A i \in 1 .. Len(y) : d[i] = y[i]
        /\ \A i \in 1 .. Len(z) : d[Len(y) + i] = z[i]
    BY <1>1, <1>3, ConcatIndex
  <2> HIDE DEF d
  <2>2. 1 \in 1 .. Len(z) /\ Len(y) + 1 = 10
    BY <1>1, <1>3
  <2>3. d[10] = z[1]
    BY <2>1, <2>2
  <2> QED BY <1>1, <1>3, <2>1, <2>3
<1>6. DeleteUserSteps = d
  BY DEF DeleteUserSteps, x, y, z
<1> HIDE DEF d
<1>7. \A i \in 4 .. 9 : d[i] \in ApplyStep
  <2> SUFFICES ASSUME NEW i \in 4 .. 9 PROVE d[i] \in ApplyStep
    OBVIOUS
  <2>1. i \in 1 .. 9
    OBVIOUS
  <2>2. d[i] = y[i]
    BY <1>5, <2>1
  <2> QED BY <1>4, <2>2
<1>8. d[1] = "getUser" /\ d[2] = "pdbDelete" /\ d[3] = "deleteUser" /\ d[10] = "userdel"
  BY <1>1, <1>3, <1>5
<1> QED BY <1>5, <1>6, <1>7, <1>8

Neutral(s) == s \in Seq(Step) /\ ~Has(s, "insertUser") /\ ~Has(s, "userdel")

LEMMA NeutralOrdered ==
  /\ \A s : Neutral(s) => s \in Seq(Step) /\ Creates(s) /\ Erases(s)
  /\ \A x, s : Neutral(x) /\ Neutral(s) => Neutral(x \o s)
<1>1. ASSUME NEW s, Neutral(s) PROVE Creates(s) /\ Erases(s)
  <2>1. \A i \in 1 .. Len(s) : s[i] # "insertUser" /\ s[i] # "userdel"
    BY <1>1 DEF Neutral, Has
  <2>2. Len(s) \in Nat
    BY <1>1 DEF Neutral
  <2> QED BY <1>1, <2>1, <2>2 DEF Creates, Erases, Neutral
<1>2. ASSUME NEW x, NEW s, Neutral(x), Neutral(s) PROVE Neutral(x \o s)
  BY <1>2, ConcatHas DEF Neutral
<1> QED BY <1>1, <1>2 DEF Neutral

LEMMA NeutralPieces ==
  /\ \A s \in {<<"walk", "insertVolume">>, <<"getVolume", "walk", "updateVolume", "reread">>,
               <<"deleteVolume">>, <<"getUser", "setEnabled", "reread", "flag">>,
               <<"getUser", "flag", "setEnabled">>, <<"setSettings">>,
               <<"lock", "permUser", "permVolume", "permRow">>,
               <<"lock", "bulkCheck", "bulkPair">>, <<"unlock">>, <<"restart">>,
               <<"nextGrant">>, <<"useradd">>, <<"nextExpired">>, <<>>} : Neutral(s)
  /\ \A s \in {RepairVolumeSteps, ChangePasswordSteps, CleanupSteps, RepairAllSteps,
               ApplySteps} : Neutral(s)
<1> USE DEF Neutral, Has, Step, DbSteps, CmdSteps
<1>1. /\ Neutral(<<"walk", "insertVolume">>)
      /\ Neutral(<<"getVolume", "walk", "updateVolume", "reread">>)
      /\ Neutral(<<"deleteVolume">>) /\ Neutral(<<"setSettings">>)
  OBVIOUS
<1>2. /\ Neutral(<<"getUser", "setEnabled", "reread", "flag">>)
      /\ Neutral(<<"getUser", "flag", "setEnabled">>)
      /\ Neutral(<<"lock", "permUser", "permVolume", "permRow">>)
      /\ Neutral(<<"lock", "bulkCheck", "bulkPair">>)
  OBVIOUS
<1>3. /\ Neutral(<<"unlock">>) /\ Neutral(<<"restart">>) /\ Neutral(<<"nextGrant">>)
      /\ Neutral(<<"useradd">>) /\ Neutral(<<"nextExpired">>) /\ Neutral(<<>>)
  OBVIOUS
<1>4. /\ Neutral(RepairVolumeSteps) /\ Neutral(ChangePasswordSteps)
      /\ Neutral(CleanupSteps) /\ Neutral(RepairAllSteps)
  BY DEF RepairVolumeSteps, ChangePasswordSteps, CleanupSteps, RepairAllSteps
<1>5. Neutral(ApplySteps)
  BY ApplyFollows DEF ApplySteps
<1> QED BY <1>1, <1>2, <1>3, <1>4, <1>5

\* The handlers that neither create a user nor delete one.
NeutralHandlers == {CreateVolumeSteps, UpdateVolumeSteps, DeleteVolumeSteps,
  RepairVolumeSteps, UpdateUserSteps, SetUserEnabledSteps, ChangePasswordSteps,
  SettingsSteps, ReloadSteps, RestartSteps, SetPermissionSteps, BulkSteps}

LEMMA NeutralHandlersAre == \A s \in NeutralHandlers : Neutral(s)
<1>1. /\ Neutral(CreateVolumeSteps) /\ Neutral(UpdateVolumeSteps)
      /\ Neutral(DeleteVolumeSteps) /\ Neutral(RepairVolumeSteps)
  BY NeutralPieces, NeutralOrdered DEF CreateVolumeSteps, UpdateVolumeSteps,
     DeleteVolumeSteps
<1>2. /\ Neutral(UpdateUserSteps) /\ Neutral(SetUserEnabledSteps)
      /\ Neutral(ChangePasswordSteps) /\ Neutral(SettingsSteps)
  BY NeutralPieces, NeutralOrdered DEF UpdateUserSteps, SetUserEnabledSteps, SettingsSteps
<1>3. Neutral(ReloadSteps) /\ Neutral(RestartSteps)
  BY NeutralPieces, NeutralOrdered DEF ReloadSteps, RestartSteps
<1>4. Neutral(SetPermissionSteps)
  <2>1. Neutral(<<"lock", "permUser", "permVolume", "permRow">> \o ApplySteps)
    BY NeutralPieces, NeutralOrdered
  <2> QED BY <2>1, NeutralPieces, NeutralOrdered DEF SetPermissionSteps
<1>5. Neutral(BulkSteps)
  <2>1. Neutral(<<"lock", "bulkCheck", "bulkPair">> \o ApplySteps)
    BY NeutralPieces, NeutralOrdered
  <2> QED BY <2>1, NeutralPieces, NeutralOrdered DEF BulkSteps
<1> QED BY <1>1, <1>2, <1>3, <1>4, <1>5 DEF NeutralHandlers

LEMMA HandlerOrdered ==
  /\ \A op, s : Handler(op, s) => s \in Seq(Step) /\ Creates(s) /\ Erases(s)
  /\ Neutral(SetPermissionSteps)
<1> DEFINE c == <<"lookup", "group", "password", "insertUser">>
<1>6. /\ c \in Seq(Step) /\ Creates(c) /\ Erases(c) /\ ~Has(c, "userdel")
  BY DEF Step, DbSteps, CmdSteps, Creates, Erases, Has, Picks, Picking
<1> HIDE DEF c
<1>7. ASSUME NEW s, Neutral(s), ~Picks(s)
      PROVE  c \o s \in Seq(Step) /\ Creates(c \o s) /\ Erases(c \o s)
  <2>1. s \in Seq(Step) /\ Creates(s) /\ ~Has(s, "insertUser") /\ ~Has(s, "userdel")
    BY <1>7, NeutralOrdered DEF Neutral
  <2> QED BY <1>6, <1>7, <2>1, ConcatCreates, ConcatErases
<1>8. ~Picks(ApplySteps) /\ ~Picks(<<"nextGrant">>)
  BY DEF Picks, Has, Picking, ApplySteps
<1>9. /\ CreateUserSteps = c \o ApplySteps
      /\ \A g \in BOOLEAN : CreateTemporaryUserSteps(g) \in {c \o <<"nextGrant">>, c \o ApplySteps}
  BY DEF CreateUserSteps, CreateTemporaryUserSteps, c
<1>10. /\ CreateUserSteps \in Seq(Step) /\ Creates(CreateUserSteps) /\ Erases(CreateUserSteps)
       /\ \A g \in BOOLEAN : /\ CreateTemporaryUserSteps(g) \in Seq(Step)
                             /\ Creates(CreateTemporaryUserSteps(g))
                             /\ Erases(CreateTemporaryUserSteps(g))
  <2>1. Neutral(ApplySteps) /\ Neutral(<<"nextGrant">>)
    BY NeutralPieces
  <2>2. /\ c \o ApplySteps \in Seq(Step) /\ Creates(c \o ApplySteps) /\ Erases(c \o ApplySteps)
        /\ c \o <<"nextGrant">> \in Seq(Step) /\ Creates(c \o <<"nextGrant">>)
        /\ Erases(c \o <<"nextGrant">>)
    BY <1>7, <1>8, <2>1
  <2> QED BY <1>9, <2>2
<1>11. /\ DeleteUserSteps \in Seq(Step) /\ Creates(DeleteUserSteps)
       /\ Erases(DeleteUserSteps)
  <2> DEFINE d == DeleteUserSteps
  <2>1. /\ d \in Seq(Step) /\ Len(d) = 10 /\ d[1] = "getUser" /\ d[2] = "pdbDelete"
        /\ d[3] = "deleteUser" /\ d[10] = "userdel" /\ \A i \in 4 .. 9 : d[i] \in ApplyStep
    BY DeleteUserIs
  <2> HIDE DEF d
  <2>2. \A i \in 1 .. 10 : d[i] # "insertUser" /\ (d[i] = "userdel" => i = 10)
    <3>1. \A i \in 1 .. 10 : i \in {1, 2, 3, 10} \/ i \in 4 .. 9
      OBVIOUS
    <3> QED BY <2>1, <3>1 DEF ApplyStep
  <2>3. \A i \in 1 .. 9 : d[i] \in Erasing
    <3>1. \A i \in 1 .. 9 : i \in {1, 2, 3} \/ i \in 4 .. 9
      OBVIOUS
    <3> QED BY <2>1, <3>1 DEF Erasing
  <2>4. ASSUME NEW i \in 1 .. 9, d[i + 1] \in ApplyStep \cup {"userdel"}
        PROVE  d[i] \in ApplyStep \cup {"deleteUser"}
    <3>1. i \in {1, 2, 3} \/ i \in 4 .. 9
      OBVIOUS
    <3>2. CASE i = 1
      BY <2>1, <2>4, <3>2 DEF ApplyStep
    <3>3. CASE i = 2
      BY <2>1, <2>4, <3>3 DEF ApplyStep
    <3> QED BY <2>1, <3>1, <3>2, <3>3
  <2>5. Erases(d)
    BY <2>1, <2>2, <2>3, <2>4 DEF Erases
  <2>6. Creates(d)
    BY <2>1, <2>2 DEF Creates, Has
  <2> QED BY <2>1, <2>5, <2>6 DEF d
<1>12. \A s \in NeutralHandlers : s \in Seq(Step) /\ Creates(s) /\ Erases(s)
  BY NeutralHandlersAre, NeutralOrdered
<1>13. Neutral(SetPermissionSteps)
  BY NeutralHandlersAre DEF NeutralHandlers
<1> QED BY <1>10, <1>11, <1>12, <1>13 DEF Handler, NeutralHandlers

-----------------------------------------------------------------------------
(* How a step leaves what is ahead of its handler. *)

\* What p has ahead after a step, and where the step has brought it.
Ahead(p) ==
  /\ Has(prog'[p], "insertUser") =>
       /\ prog[p] # <<>> /\ Has(prog[p], "insertUser")
       /\ Head(prog[p]) \notin Picking \cup {"insertUser"}
       /\ Head(prog'[p]) = "insertUser" => Head(prog[p]) = "password"
  /\ Has(prog'[p], "userdel") =>
       \/ prog[p] # <<>> /\ Head(prog[p]) = "nextExpired" /\ Head(prog'[p]) = "pdbDelete"
       \/ /\ prog[p] # <<>> /\ Has(prog[p], "userdel") /\ Head(prog[p]) \in Erasing
          /\ Head(prog'[p]) \in ApplyStep \cup {"userdel"}
               => Head(prog[p]) \in ApplyStep \cup {"deleteUser"}

LEMMA HeadConcat ==
  ASSUME NEW x \in Seq(Step), x # <<>>, NEW s \in Seq(Step)
  PROVE  Head(x \o s) = Head(x)
<1>1. Len(x) > 0 /\ Head(x) = x[1] /\ 1 \in 1 .. Len(x)
  OBVIOUS
<1>2. /\ x \o s \in Seq(Step) /\ Len(x \o s) > 0 /\ (x \o s)[1] = x[1]
  BY <1>1, ConcatIndex
<1> QED BY <1>1, <1>2

LEMMA AdvancesOrdered ==
  ASSUME ProcInv, NEW p \in Proc, Ordered(p), Advances(p)
  PROVE  Ordered(p)' /\ Ahead(p)
<1> DEFINE old == prog[p]
           t == Tail(old)
           new == prog'[p]
           Fine(s) == /\ Creates(s) /\ Erases(s)
                      /\ p \notin Worker => ~Has(s, "getUser") /\ ~Has(s, "insertUser")
<1>0. old \in Seq(Step) /\ Fine(old)
  BY DEF ProcInv, Ordered
<1>1. old # <<>> =>
        /\ t \in Seq(Step) /\ Fine(t) /\ Has(old, Head(old))
        /\ \A e : Has(t, e) => Has(old, e)
        /\ Has(t, "insertUser") => Head(old) \notin Picking \cup {"insertUser"}
        /\ t # <<>> /\ Head(t) = "insertUser" => Head(old) = "password"
        /\ Has(t, "userdel") =>
             /\ Head(old) \in Erasing
             /\ Head(t) \in ApplyStep \cup {"userdel"}
                  => Head(old) \in ApplyStep \cup {"deleteUser"}
        /\ Has(old, "userdel") => Head(old) \in Erasing \cup {"userdel"}
  <2> SUFFICES ASSUME old # <<>>
               PROVE  /\ t \in Seq(Step) /\ Fine(t) /\ Has(old, Head(old))
                      /\ \A e : Has(t, e) => Has(old, e)
                      /\ Has(t, "insertUser") => Head(old) \notin Picking \cup {"insertUser"}
                      /\ t # <<>> /\ Head(t) = "insertUser" => Head(old) = "password"
                      /\ Has(t, "userdel") =>
                           /\ Head(old) \in Erasing
                           /\ Head(t) \in ApplyStep \cup {"userdel"}
                                => Head(old) \in ApplyStep \cup {"deleteUser"}
                      /\ Has(old, "userdel") => Head(old) \in Erasing \cup {"userdel"}
    OBVIOUS
  <2>1. t \in Seq(Step) /\ \A e : Has(t, e) => Has(old, e)
    BY <1>0, TailIndex, TailHas
  <2>2. Has(old, Head(old))
    BY <1>0, TailIndex DEF Has
  <2>3. Fine(t)
    BY <1>0, <2>1, TailCreates, TailErases
  <2> HIDE DEF Fine
  <2> QED BY <1>0, <2>1, <2>2, <2>3, TailCreates, TailErases DEF Fine
<1>n. ASSUME NEW s, prog' = [prog EXCEPT ![p] = s]
      PROVE  new = s
  BY <1>n DEF ProcInv
<1>e. <<>> # <<"insertUser">> /\ ~Has(<<>>, "insertUser") /\ \A s : Has(s, "insertUser") => s # <<>>
  BY DEF Has
<1>u. ASSUME Fine(new), Ahead(p) PROVE Ordered(p)' /\ Ahead(p)
  BY <1>u DEF Ordered
\* Steps in front of steps that p had ahead.
<1>c. ASSUME NEW x \in Seq(Step), NEW s \in Seq(Step), x # <<>>, new = x \o s, Neutral(x),
             ~Picks(x) \/ ~Has(s, "insertUser"), Fine(s), ~Has(s, "userdel"),
             ~Has(x, "getUser"), Has(s, "insertUser") => Head(s) # "insertUser",
             Has(s, "insertUser") =>
               old # <<>> /\ Has(old, "insertUser") /\ Head(old) \notin Picking \cup {"insertUser"}
      PROVE  Fine(new) /\ Ahead(p)
  <2>1. Creates(x) /\ Erases(x) /\ ~Has(x, "insertUser") /\ ~Has(x, "userdel")
    BY <1>c, NeutralOrdered DEF Neutral
  <2>2. Creates(new) /\ Erases(new)
    BY <1>c, <2>1, ConcatCreates, ConcatErases
  <2>3. \A e : Has(new, e) <=> Has(x, e) \/ Has(s, e)
    BY <1>c, ConcatHas
  <2>4. Head(new) = Head(x) /\ Has(x, Head(x))
    BY <1>c, HeadConcat DEF Has
  <2>5. Head(new) # "insertUser"
    BY <2>1, <2>4
  <2>6. ~Has(new, "userdel")
    BY <1>c, <2>1, <2>3
  <2> HIDE DEF new
  <2>7. Fine(new)
    BY <1>c, <2>1, <2>2, <2>3
  <2>8. Has(new, "insertUser") => Has(s, "insertUser")
    BY <2>1, <2>3
  <2> QED BY <1>c, <2>5, <2>6, <2>7, <2>8 DEF Ahead, new
<1> HIDE DEF t, old, new, Fine
\* What has neither is as good.
<1>m. ASSUME NEW s, new = s, Neutral(s), ~Has(s, "getUser") PROVE Ordered(p)' /\ Ahead(p)
  BY <1>m, <1>u, NeutralOrdered DEF Neutral, Fine, Ahead, new
<1>4. CASE old # <<>> /\ prog' = [prog EXCEPT ![p] = t]
  <2>1. new = t /\ Fine(new)
    BY <1>1, <1>n, <1>4
  <2>2. Ahead(p)
    BY <1>1, <1>4, <1>e, <2>1 DEF Ahead, new, old
  <2> QED BY <1>u, <2>1, <2>2
<1>k. ~Has(<<>>, "getUser") /\ ~Has(<<"unlock">>, "getUser") /\ ~Has(<<"nextGrant">>, "getUser")
  BY DEF Has
<1>5. CASE prog' = [prog EXCEPT ![p] = Unwind(p)]
  <2>1. Unwind(p) \in {<<>>, <<"unlock">>}
    BY DEF Unwind
  <2> QED BY <1>5, <1>k, <1>m, <1>n, <2>1, NeutralPieces
<1>6. CASE mu = p /\ prog' = [prog EXCEPT ![p] = Unwind(p) \o <<"nextGrant">>]
  <2>1. Unwind(p) = <<"unlock">>
    BY <1>6 DEF Unwind
  <2>2. Neutral(<<"unlock">>) /\ Neutral(<<"nextGrant">>)
    BY NeutralPieces
  <2>3. Neutral(<<"unlock">> \o <<"nextGrant">>)
    BY <2>2, NeutralOrdered
  <2>4. ~Has(<<"unlock">> \o <<"nextGrant">>, "getUser")
    BY <1>k, <2>2, ConcatHas DEF Neutral
  <2> QED BY <1>6, <1>m, <1>n, <2>1, <2>3, <2>4
<1>7. CASE At(p, "lookup") /\ prog' = [prog EXCEPT ![p] = <<"useradd">> \o t]
  <2>1. old # <<>> /\ Head(old) = "lookup"
    BY <1>7 DEF At, old
  <2>2. /\ ~Picks(<<"useradd">>) /\ ~Has(<<"useradd">>, "getUser") /\ <<"useradd">> # <<>>
    BY DEF Picks, Has, Picking
  <2>3. Neutral(<<"useradd">>) /\ <<"useradd">> \in Seq(Step)
    BY NeutralPieces DEF Neutral
  <2>4. new = <<"useradd">> \o t
    BY <1>7, <1>n
  <2>5. ~Has(t, "userdel") /\ t \in Seq(Step) /\ Fine(t)
    BY <1>1, <2>1 DEF Erasing, ApplyStep
  <2>6. Has(t, "insertUser") =>
          /\ Has(old, "insertUser") /\ Head(old) \notin Picking \cup {"insertUser"}
          /\ Head(t) # "insertUser"
    BY <1>1, <1>e, <2>1
  <2> QED BY <1>c, <1>u, <2>1, <2>2, <2>3, <2>4, <2>5, <2>6
<1>8. CASE /\ At(p, "selectExpired")
           /\ prog' = [prog EXCEPT ![p] = (<<"nextExpired">> \o ApplySteps) \o t]
  <2> DEFINE x == <<"nextExpired">> \o ApplySteps
  <2>1. old # <<>> /\ Head(old) = "selectExpired"
    BY <1>8 DEF At, old
  <2>2. Neutral(<<"nextExpired">>) /\ Neutral(ApplySteps)
    BY NeutralPieces
  <2>3. Neutral(x) /\ x \in Seq(Step)
    BY <2>2, NeutralOrdered DEF Neutral
  <2>4. ~Has(x, "getUser") /\ x # <<>>
    <3>1. /\ ~Has(<<"nextExpired">>, "getUser") /\ ~Has(ApplySteps, "getUser")
          /\ Has(<<"nextExpired">>, "nextExpired")
      BY DEF Has, ApplySteps
    <3>2. ~Has(x, "getUser") /\ Has(x, "nextExpired")
      BY <2>2, <3>1, ConcatHas DEF Neutral
    <3> QED BY <3>2 DEF Has
  <2>5. new = x \o t
    BY <1>8, <1>n
  <2>6. ~Has(t, "userdel") /\ ~Has(t, "insertUser") /\ t \in Seq(Step) /\ Fine(t)
    BY <1>1, <2>1 DEF Erasing, ApplyStep, Picking
  <2> HIDE DEF x
  <2> QED BY <1>c, <1>u, <2>3, <2>4, <2>5, <2>6
<1>9. CASE At(p, "nextExpired") /\ prog' = [prog EXCEPT ![p] = ExpiredSteps \o old]
  <2>1. old # <<>> /\ Head(old) = "nextExpired"
    BY <1>9 DEF At, old
  <2>2. /\ ExpiredSteps \in Seq(Step) /\ Creates(ExpiredSteps) /\ Erases(ExpiredSteps)
        /\ ~Has(ExpiredSteps, "getUser") /\ ~Has(ExpiredSteps, "insertUser")
        /\ ExpiredSteps # <<>> /\ Head(ExpiredSteps) = "pdbDelete"
    BY DEF ExpiredSteps, Step, DbSteps, CmdSteps, Creates, Erases, Has, Erasing, ApplyStep
  <2>3. ~Has(old, "userdel") /\ ~Has(old, "insertUser")
    BY <1>0, <1>1, <2>1 DEF Erasing, ApplyStep, Picking, Fine, Creates, Picks
  <2>4. new = ExpiredSteps \o old
    BY <1>9, <1>n
  <2>5. Creates(new) /\ Erases(new)
    BY <1>0, <2>2, <2>3, <2>4, ConcatCreates, ConcatErases DEF Fine
  <2>6. \A e : Has(new, e) <=> Has(ExpiredSteps, e) \/ Has(old, e)
    BY <1>0, <2>2, <2>4, ConcatHas
  <2>7. Head(new) = "pdbDelete"
    BY <1>0, <2>2, <2>4, HeadConcat
  <2>8. Fine(new)
    BY <1>0, <2>2, <2>3, <2>5, <2>6 DEF Fine
  <2>9. Ahead(p)
    BY <2>1, <2>2, <2>3, <2>6, <2>7 DEF Ahead, new, old
  <2> QED BY <1>u, <2>8, <2>9
<1>10. CASE At(p, "nextGrant") /\ prog' = [prog EXCEPT ![p] = SetPermissionSteps \o old]
  <2>1. old # <<>> /\ Head(old) = "nextGrant"
    BY <1>10 DEF At, old
  <2>2. /\ Neutral(SetPermissionSteps) /\ SetPermissionSteps \in Seq(Step)
    BY HandlerOrdered DEF Neutral
  <2>3. /\ ~Has(SetPermissionSteps, "getUser") /\ ~Picks(SetPermissionSteps)
        /\ SetPermissionSteps # <<>>
    <3> DEFINE h == <<"lock", "permUser", "permVolume", "permRow">>
               PickFree(s) == s \in Seq(Step) /\ \A e \in Picking : ~Has(s, e)
    <3>1. PickFree(h) /\ PickFree(ApplySteps) /\ PickFree(<<"unlock">>) /\ Has(h, "lock")
      <4>1. h \in Seq(Step) /\ ApplySteps \in Seq(Step) /\ <<"unlock">> \in Seq(Step)
        BY ApplyFollows DEF Step, DbSteps, CmdSteps
      <4>2. /\ \A e \in Picking : ~Has(h, e) /\ ~Has(ApplySteps, e) /\ ~Has(<<"unlock">>, e)
            /\ Has(h, "lock")
        BY DEF Has, Picking, ApplySteps
      <4> QED BY <4>1, <4>2
    <3> HIDE DEF h
    <3>2. h \o ApplySteps \in Seq(Step)
      BY <3>1, ConcatIndex
    <3>3. \A e : Has(SetPermissionSteps, e) <=>
                   Has(h, e) \/ Has(ApplySteps, e) \/ Has(<<"unlock">>, e)
      <4>1. SetPermissionSteps = (h \o ApplySteps) \o <<"unlock">>
        BY DEF SetPermissionSteps, h
      <4>2. \A e : /\ Has(h \o ApplySteps, e) <=> Has(h, e) \/ Has(ApplySteps, e)
                   /\ Has((h \o ApplySteps) \o <<"unlock">>, e)
                        <=> Has(h \o ApplySteps, e) \/ Has(<<"unlock">>, e)
        BY <3>1, <3>2, ConcatHas
      <4> QED BY <4>1, <4>2
    <3>4. ~Picks(SetPermissionSteps) /\ ~Has(SetPermissionSteps, "getUser")
      BY <3>1, <3>3 DEF Picks, Picking
    <3>5. Has(SetPermissionSteps, "lock")
      BY <3>1, <3>3
    <3>6. ~Has(<<>>, "lock")
      BY DEF Has
    <3> QED BY <3>4, <3>5, <3>6
  <2>4. new = SetPermissionSteps \o old
    BY <1>10, <1>n
  <2>5. ~Has(old, "userdel") /\ (Has(old, "insertUser") => Head(old) # "insertUser")
    BY <1>1, <2>1 DEF Erasing, ApplyStep
  <2>6. Has(old, "insertUser") => Head(old) \notin Picking \cup {"insertUser"}
    BY <2>1 DEF Picking
  <2> QED BY <1>0, <1>c, <1>u, <2>1, <2>2, <2>3, <2>4, <2>5, <2>6
<1>11. CASE At(p, "bulkPair") /\ prog' = [prog EXCEPT ![p] = old]
  <2>1. old # <<>> /\ Head(old) = "bulkPair" /\ new = old
    BY <1>11, <1>n DEF At, old
  <2>2. ~Has(old, "userdel")
    BY <1>1, <2>1 DEF Erasing, ApplyStep
  <2>3. Ahead(p)
    BY <2>1, <2>2 DEF Ahead, new, old, Picking
  <2> QED BY <1>0, <1>u, <2>1, <2>3
<1> QED BY <1>4, <1>5, <1>6, <1>7, <1>8, <1>9, <1>10, <1>11 DEF Advances, t, old

-----------------------------------------------------------------------------
(* Whose account a name is. *)

\* One request at a time, next to the cleanup and the repair at start.
OneAdministrator == \A p, q \in Worker : p = q

Bears(n) == \E u \in users : u.name = n

\* A temporary user's name is one that was handed out.
RowNames == \A u \in users :
  /\ u.name \in TempName => u.name \in issued
  /\ u.lease # "permanent" => u.name \in TempName

\* So is one that a handler works on, and the cleanup works on no other; a row
\* it is to erase has not been replaced by a new one of that name.
JobNames(q) ==
  /\ job[q].name \in TempName => job[q].name \in issued
  /\ q \notin Worker => job[q].name \in TempName \cup {NoName}
  /\ \A u \in job[q].rows : /\ u.name \in TempName /\ u.name \in issued
                            /\ \A w \in users : w.name = u.name => w.id = u.id

\* Nobody else works on the name of a user being created, and once the row is
\* next the account is there.
Reserved(q) == Has(prog[q], "insertUser") =>
  /\ job[q].name \in Name
  /\ job[q].temp => job[q].name \in TempName
  /\ job[q].name \in TempName => ~Bears(job[q].name)
  /\ \A r \in Proc : r # q => job[r].name # job[q].name
  /\ \A r \in Proc : \A u \in job[r].rows : u.name # job[q].name
  /\ Head(prog[q]) = "insertUser" => job[q].name \in accounts

\* A handler that is to delete an account has looked up its row, and once that
\* row is deleted none bears the name.
Aimed(q) == \A u \in users : u.name = job[q].name => u.id = job[q].uid

ErasedBy(q) == Has(prog[q], "userdel") =>
  /\ Head(prog[q]) # "getUser" => Aimed(q)
  /\ Head(prog[q]) \in ApplyStep \cup {"userdel"} => ~Bears(job[q].name)

AccountInv ==
  /\ RowNames /\ UsersHaveAccounts
  /\ \A p \in Proc : Ordered(p) /\ JobNames(p) /\ Reserved(p) /\ ErasedBy(p)

-----------------------------------------------------------------------------
(* What the steps do to rows, accounts and names. *)

\* No row appears, and none takes another name or a lease.
FewerRows == \A w \in users' : \E u \in users :
  u.id = w.id /\ u.name = w.name /\ (w.lease # "permanent" => u.lease # "permanent")

Others(p) == \A r \in Proc \ {p} : prog'[r] = prog[r] /\ job'[r] = job[r]

SameName(j, k) == j.name = k.name /\ j.temp = k.temp /\ j.rows = k.rows

KeepsName(p) ==
  \/ prog'[p] = <<>> /\ job'[p] = NoJob
  \/ /\ SameName(job'[p], job[p])
     /\ job'[p].uid = job[p].uid \/ At(p, "bulkPair")

\* A step that leaves the handler's name, and takes no account but at userdel.
Calm(p) ==
  /\ FewerRows /\ issued' = issued /\ KeepsName(p)
  /\ accounts \ accounts' \subseteq {n \in {job[p].name} : At(p, "userdel")}
  /\ At(p, "password") => job[p].name \in accounts \/ Neutral(prog'[p])
  /\ At(p, "deleteUser") => Neutral(prog'[p]) \/ \A u \in users' : u.id # job[p].uid
  /\ At(p, "getUser") \/ At(p, "nextExpired") => ~Has(prog'[p], "userdel")

LEMMA SameRows == users' = users => FewerRows
BY DEF FewerRows

LEMMA CalmKeeps ==
  ASSUME ProcInv, AccountInv, NEW p \in Proc, Others(p), Ordered(p)', Ahead(p), Calm(p)
  PROVE  AccountInv'
<1> USE DEF AccountInv
<1>f. \A w \in users' : \E u \in users :
        u.id = w.id /\ u.name = w.name /\ (w.lease # "permanent" => u.lease # "permanent")
  BY DEF Calm, FewerRows
<1>i. issued' = issued
  BY DEF Calm
<1>b. \A n : ~Bears(n) => \A u \in users' : u.name # n
  BY <1>f DEF Bears
<1>1. RowNames'
  BY <1>f, <1>i DEF RowNames
<1>2. \A n \in accounts \ accounts' : ~Bears(n) /\ \A q \in Proc : Has(prog[q], "insertUser")
                                                      => job[q].name # n
  <2> SUFFICES ASSUME NEW n \in accounts \ accounts'
               PROVE  ~Bears(n) /\ \A q \in Proc : Has(prog[q], "insertUser") => job[q].name # n
    OBVIOUS
  <2>1. n = job[p].name /\ prog[p] # <<>> /\ Head(prog[p]) = "userdel"
    BY DEF Calm, At
  <2>2. Has(prog[p], "userdel")
    BY <2>1, TailIndex DEF Has, ProcInv
  <2>3. ~Bears(n)
    BY <2>1, <2>2 DEF ErasedBy
  <2>4. ~Has(prog[p], "insertUser")
    BY <2>2 DEF Ordered, Creates, Picks, Picking
  <2> QED BY <2>1, <2>3, <2>4 DEF Reserved
<1>3. UsersHaveAccounts'
  BY <1>f, <1>2 DEF UsersHaveAccounts, Bears
<1>n. NoJob.name = NoName /\ NoJob.rows = {} /\ NoName \notin TempName
  BY NameAssumption DEF NoJob
<1>4. ASSUME NEW q \in Proc \ {p} PROVE (Ordered(q) /\ JobNames(q) /\ ErasedBy(q))'
  <2>1. prog'[q] = prog[q] /\ job'[q] = job[q] /\ Ordered(q) /\ JobNames(q) /\ ErasedBy(q)
    BY DEF Others
  <2>2. Ordered(q)'
    BY <2>1 DEF Ordered
  <2>3. JobNames(q)'
    BY <1>f, <1>i, <2>1 DEF JobNames
  <2>4. ErasedBy(q)'
    <3>1. ~Bears(job[q].name) => \A u \in users' : u.name # job'[q].name
      BY <1>b, <2>1
    <3>2. Aimed(q) => Aimed(q)'
      BY <1>f, <2>1 DEF Aimed
    <3> QED BY <2>1, <3>1, <3>2 DEF ErasedBy, Bears
  <2> QED BY <2>2, <2>3, <2>4
<1>5. JobNames(p)'
  <2>1. CASE job'[p] = NoJob
    BY <1>n, <2>1 DEF JobNames
  <2>2. CASE SameName(job'[p], job[p])
    BY <1>f, <1>i, <2>2 DEF JobNames, SameName
  <2> QED BY <2>1, <2>2 DEF Calm, KeepsName
<1>e. ~Has(<<>>, "userdel") /\ ~Has(<<>>, "insertUser")
  BY DEF Has
<1>6. ErasedBy(p)'
  <2> SUFFICES ASSUME Has(prog'[p], "userdel")
               PROVE  /\ Aimed(p)'
                      /\ Head(prog'[p]) \in ApplyStep \cup {"userdel"} =>
                           \A u \in users' : u.name # job'[p].name
    BY DEF ErasedBy, Bears
  <2>1. /\ prog[p] # <<>> /\ Has(prog[p], "userdel") /\ Head(prog[p]) \in Erasing
        /\ Head(prog'[p]) \in ApplyStep \cup {"userdel"}
             => Head(prog[p]) \in ApplyStep \cup {"deleteUser"}
        /\ Head(prog[p]) # "getUser"
    BY DEF Ahead, Calm, At
  <2>2. SameName(job'[p], job[p]) /\ job'[p].uid = job[p].uid
    BY <1>e, <2>1 DEF Calm, KeepsName, At, Erasing, ApplyStep
  <2>3. Aimed(p)
    BY <2>1 DEF ErasedBy
  <2>4. Aimed(p)'
    BY <1>f, <2>2, <2>3 DEF Aimed, SameName
  <2>5. ASSUME Head(prog'[p]) \in ApplyStep \cup {"userdel"}
        PROVE  \A u \in users' : u.name # job'[p].name
    <3>1. CASE Head(prog[p]) \in ApplyStep
      BY <1>b, <2>1, <2>2, <3>1 DEF ErasedBy, SameName
    <3>2. CASE Head(prog[p]) = "deleteUser"
      <4>1. \A u \in users' : u.id # job[p].uid
        BY <2>1, <3>2 DEF Calm, At, Neutral
      <4> QED BY <2>2, <2>4, <4>1 DEF Aimed
    <3> QED BY <2>1, <2>5, <3>1, <3>2
  <2> QED BY <2>4, <2>5
<1>7. ASSUME NEW q \in Proc PROVE Reserved(q)'
  <2> SUFFICES ASSUME Has(prog'[q], "insertUser")
               PROVE  Reserved(q)'
    BY DEF Reserved
  <2>1. Has(prog[q], "insertUser") /\ job'[q].name = job[q].name /\ job'[q].temp = job[q].temp
    BY <1>e DEF Ahead, Calm, KeepsName, Others, SameName
  <2>2. Reserved(q) /\ job[q].name \in Name
    BY <2>1 DEF Reserved
  <2>3. ASSUME NEW r \in Proc, r # q PROVE job'[r].name # job'[q].name
    <3>1. job'[r].name = job[r].name \/ job'[r] = NoJob
      BY DEF Calm, KeepsName, Others, SameName
    <3> QED BY <1>n, <2>1, <2>2, <2>3, <3>1, NameAssumption DEF Reserved
  <2>4. ASSUME NEW r \in Proc, NEW u \in job'[r].rows PROVE u.name # job'[q].name
    <3>1. job'[r].rows = job[r].rows \/ job'[r] = NoJob
      BY DEF Calm, KeepsName, Others, SameName
    <3> QED BY <1>n, <2>1, <2>2, <2>4, <3>1 DEF Reserved
  <2>5. ASSUME Head(prog'[q]) = "insertUser" PROVE job'[q].name \in accounts'
    <3>1. job[q].name \in accounts
      <4>1. CASE q = p
        <5>1. At(p, "password") /\ ~Neutral(prog'[p])
          BY <2>5, <4>1 DEF Ahead, At, Neutral
        <5> QED BY <4>1, <5>1 DEF Calm
      <4>2. CASE q # p
        BY <2>1, <2>2, <2>5, <4>2 DEF Others, Reserved
      <4> QED BY <4>1, <4>2
    <3> QED BY <1>2, <2>1, <3>1
  <2>6. job'[q].name \in TempName => \A u \in users' : u.name # job'[q].name
    BY <1>b, <2>1, <2>2 DEF Reserved
  <2>7. job'[q].name \in Name /\ (job'[q].temp => job'[q].name \in TempName)
    BY <2>1, <2>2 DEF Reserved
  <2> QED BY <2>3, <2>4, <2>5, <2>6, <2>7 DEF Reserved, Bears
<1> QED BY <1>1, <1>3, <1>4, <1>5, <1>6, <1>7

\* The steps that give a handler a name, rows, or its user a row.
Gets(p) ==
  /\ At(p, "getUser")
  /\ UNCHANGED <<users, accounts, issued>>
  /\ \/ prog'[p] = <<>> /\ job'[p] = NoJob
     \/ \E u \in users : /\ u.id = job[p].uid /\ job'[p].uid = u.id /\ job'[p].name = u.name
                         /\ job'[p].temp = job[p].temp /\ job'[p].rows = job[p].rows

Selects(p) ==
  /\ At(p, "selectExpired")
  /\ UNCHANGED <<users, accounts, issued>>
  /\ \/ prog'[p] = <<>> /\ job'[p] = NoJob
     \/ job'[p].name = job[p].name /\ job'[p].rows = ExpiredTemporary

Takes(p) ==
  /\ At(p, "nextExpired")
  /\ UNCHANGED <<users, accounts, issued>>
  /\ \E u \in job[p].rows : /\ job'[p].uid = u.id /\ job'[p].name = u.name
                            /\ job'[p].rows = job[p].rows \ {u}

Inserts(p) ==
  /\ At(p, "insertUser")
  /\ UNCHANGED <<accounts, issued>>
  /\ \E w : /\ users' = users \cup {w} /\ w.name = job[p].name
            /\ w.lease # "permanent" => job[p].temp
  /\ \/ prog'[p] = <<>> /\ job'[p] = NoJob
     \/ SameName(job'[p], job[p])

LEMMA NamesSafe ==
  /\ NoJob.name = NoName /\ NoJob.rows = {} /\ NoName \notin TempName /\ NoName \notin Name
  /\ TempName \subseteq Name
  /\ ~Has(<<>>, "userdel") /\ ~Has(<<>>, "insertUser") /\ ~Has(<<>>, "getUser")
BY NameAssumption DEF NoJob, Has

\* What p does not touch stays as good, and p is at no reserved name.
LEMMA OthersKeep ==
  ASSUME ProcInv, AccountInv, NEW p \in Proc, Others(p), users' = users,
         accounts' = accounts, issued \subseteq issued',
         \A q \in Proc \ {p} : Has(prog[q], "insertUser") =>
           job'[p].name # job[q].name /\ \A u \in job'[p].rows : u.name # job[q].name
  PROVE  /\ RowNames' /\ UsersHaveAccounts'
         /\ \A q \in Proc \ {p} : (Ordered(q) /\ JobNames(q) /\ Reserved(q) /\ ErasedBy(q))'
<1> USE DEF AccountInv
<1>1. RowNames' /\ UsersHaveAccounts'
  BY DEF RowNames, UsersHaveAccounts
<1>2. ASSUME NEW q \in Proc \ {p}
      PROVE  (Ordered(q) /\ JobNames(q) /\ Reserved(q) /\ ErasedBy(q))'
  <2>1. /\ prog'[q] = prog[q] /\ job'[q] = job[q]
        /\ Ordered(q) /\ JobNames(q) /\ Reserved(q) /\ ErasedBy(q)
    BY DEF Others
  <2>2. Ordered(q)' /\ JobNames(q)'
    BY <2>1 DEF Ordered, JobNames
  <2>3. ErasedBy(q)'
    BY <2>1 DEF ErasedBy, Aimed, Bears
  <2>4. Reserved(q)'
    <3> SUFFICES ASSUME Has(prog[q], "insertUser") PROVE Reserved(q)'
      BY <2>1 DEF Reserved
    <3>1. ASSUME NEW r \in Proc
          PROVE  /\ r # q => job'[r].name # job'[q].name
                 /\ \A u \in job'[r].rows : u.name # job'[q].name
      BY <2>1, <3>1 DEF Reserved, Others
    <3> QED BY <2>1, <3>1 DEF Reserved, Bears
  <2> QED BY <2>2, <2>3, <2>4
<1> QED BY <1>1, <1>2

LEMMA GetsKeeps ==
  ASSUME OneAdministrator, ProcInv, StoreInv, AccountInv, NEW p \in Proc, Others(p),
         Ordered(p)', Ahead(p), Gets(p)
  PROVE  AccountInv'
<1> USE DEF AccountInv
<1>0. prog[p] \in Seq(Step) /\ prog[p] # <<>> /\ Head(prog[p]) = "getUser"
  BY DEF Gets, At, ProcInv
<1>1. p \in Worker
  <2>1. Has(prog[p], "getUser")
    BY <1>0, TailIndex DEF Has
  <2> QED BY <2>1 DEF Ordered
<1>2. \A q \in Proc \ {p} : ~Has(prog[q], "insertUser")
  BY <1>1 DEF OneAdministrator, Ordered
<1>3. ~Has(prog'[p], "insertUser")
  BY <1>0 DEF Ahead, Picking
<1>4. JobNames(p)'
  <2>1. CASE job'[p] = NoJob
    BY <2>1, NamesSafe DEF JobNames
  <2>2. CASE job'[p] # NoJob
    <3>1. PICK u \in users : job'[p].name = u.name /\ job'[p].rows = job[p].rows
      BY <2>2 DEF Gets
    <3> QED BY <1>1, <3>1 DEF JobNames, RowNames, Gets
  <2> QED BY <2>1, <2>2
<1>5. ErasedBy(p)'
  <2> SUFFICES ASSUME Has(prog'[p], "userdel") PROVE ErasedBy(p)'
    BY DEF ErasedBy
  <2>1. ~(Head(prog'[p]) \in ApplyStep \cup {"userdel"})
    BY <1>0 DEF Ahead, ApplyStep
  <2>2. Aimed(p)'
    <3>1. PICK u \in users : job'[p].uid = u.id /\ job'[p].name = u.name
      BY NamesSafe DEF Gets
    <3> QED BY <3>1 DEF Aimed, Gets, StoreInv, KeysUnique
  <2> QED BY <2>1, <2>2 DEF ErasedBy
<1>6. Reserved(p)'
  BY <1>3 DEF Reserved
<1> QED BY <1>2, <1>4, <1>5, <1>6, OthersKeep DEF Gets

LEMMA SelectsKeeps ==
  ASSUME ProcInv, StoreInv, AccountInv, NEW p \in Proc, Others(p),
         Ordered(p)', Ahead(p), Selects(p)
  PROVE  AccountInv'
<1> USE DEF AccountInv
<1>0. prog[p] # <<>> /\ Head(prog[p]) = "selectExpired"
  BY DEF Selects, At
<1>1. \A u \in ExpiredTemporary : u \in users /\ u.name \in TempName /\ u.name \in issued
  BY DEF ExpiredTemporary, RowNames
<1>2. ASSUME NEW q \in Proc \ {p}, Has(prog[q], "insertUser")
      PROVE  job'[p].name # job[q].name /\ \A u \in job'[p].rows : u.name # job[q].name
  <2>1. Reserved(q) /\ job[q].name \in Name
    BY <1>2 DEF Reserved
  <2>2. CASE job'[p] = NoJob
    BY <2>1, <2>2, NamesSafe
  <2>3. CASE job'[p] # NoJob
    <3>1. job'[p].name = job[p].name /\ job'[p].rows = ExpiredTemporary
      BY <2>3 DEF Selects
    <3> QED BY <1>1, <1>2, <2>1, <3>1 DEF Reserved, Bears
  <2> QED BY <2>2, <2>3
<1>3. ~Has(prog'[p], "insertUser") /\ ~Has(prog'[p], "userdel")
  BY <1>0 DEF Ahead, Picking, Erasing, ApplyStep
<1>4. JobNames(p)'
  <2>1. CASE job'[p] = NoJob
    BY <2>1, NamesSafe DEF JobNames
  <2>2. CASE job'[p] # NoJob
    <3>1. /\ job'[p].name = job[p].name /\ job'[p].rows = ExpiredTemporary
          /\ users' = users /\ issued' = issued /\ JobNames(p)
      BY <2>2 DEF Selects
    <3>2. \A u \in ExpiredTemporary : \A w \in users : w.name = u.name => w.id = u.id
      BY <1>1 DEF StoreInv, KeysUnique
    <3> QED BY <1>1, <3>1, <3>2 DEF JobNames
  <2> QED BY <2>1, <2>2
<1>5. Reserved(p)' /\ ErasedBy(p)'
  BY <1>3 DEF Reserved, ErasedBy
<1> QED BY <1>2, <1>4, <1>5, OthersKeep DEF Selects

LEMMA TakesKeeps ==
  ASSUME ProcInv, AccountInv, NEW p \in Proc, Others(p), Ordered(p)', Ahead(p), Takes(p)
  PROVE  AccountInv'
<1> USE DEF AccountInv
<1>0. prog[p] # <<>> /\ Head(prog[p]) = "nextExpired"
  BY DEF Takes, At
<1>1. PICK u \in job[p].rows : /\ job'[p].uid = u.id /\ job'[p].name = u.name
                               /\ job'[p].rows = job[p].rows \ {u}
  BY DEF Takes
<1>2. /\ JobNames(p) /\ u.name \in TempName /\ u.name \in issued
      /\ \A w \in users : w.name = u.name => w.id = u.id
  BY DEF JobNames
<1>3. ASSUME NEW q \in Proc \ {p}, Has(prog[q], "insertUser")
      PROVE  job'[p].name # job[q].name /\ \A w \in job'[p].rows : w.name # job[q].name
  BY <1>1, <1>3 DEF Reserved
<1>4. ~Has(prog'[p], "insertUser")
  BY <1>0 DEF Ahead, Picking
<1>5. JobNames(p)'
  BY <1>1, <1>2 DEF JobNames, Takes
<1>6. ErasedBy(p)'
  <2> SUFFICES ASSUME Has(prog'[p], "userdel") PROVE ErasedBy(p)'
    BY DEF ErasedBy
  <2>1. Head(prog'[p]) = "pdbDelete"
    BY <1>0 DEF Ahead, Erasing, ApplyStep
  <2>2. Aimed(p)'
    BY <1>1, <1>2 DEF Aimed, Takes
  <2> QED BY <2>1, <2>2 DEF ErasedBy, ApplyStep
<1>7. Reserved(p)'
  BY <1>4 DEF Reserved
<1> QED BY <1>3, <1>5, <1>6, <1>7, OthersKeep DEF Takes

LEMMA InsertsKeeps ==
  ASSUME OneAdministrator, ProcInv, AccountInv, NEW p \in Proc, Others(p),
         Ordered(p)', Ahead(p), Inserts(p)
  PROVE  AccountInv'
<1> USE DEF AccountInv
<1>0. prog[p] \in Seq(Step) /\ prog[p] # <<>> /\ Head(prog[p]) = "insertUser"
  BY DEF Inserts, At, ProcInv
<1>1. Has(prog[p], "insertUser") /\ p \in Worker
  <2>1. Has(prog[p], "insertUser")
    BY <1>0, TailIndex DEF Has
  <2> QED BY <2>1 DEF Ordered
<1>2. Reserved(p) /\ job[p].name \in Name /\ job[p].name \in accounts
  BY <1>0, <1>1 DEF Reserved
<1>3. PICK w : /\ users' = users \cup {w} /\ w.name = job[p].name
               /\ w.lease # "permanent" => job[p].temp
  BY DEF Inserts
<1>4. /\ accounts' = accounts /\ issued' = issued
      /\ job'[p] = NoJob \/ SameName(job'[p], job[p])
  BY DEF Inserts
<1>5. RowNames'
  BY <1>1, <1>2, <1>3, <1>4 DEF RowNames, Reserved, JobNames
<1>6. UsersHaveAccounts'
  BY <1>2, <1>3, <1>4 DEF UsersHaveAccounts
<1>7. ASSUME NEW q \in Proc \ {p} PROVE (Ordered(q) /\ JobNames(q) /\ Reserved(q) /\ ErasedBy(q))'
  <2>1. /\ prog'[q] = prog[q] /\ job'[q] = job[q]
        /\ Ordered(q) /\ JobNames(q) /\ ErasedBy(q)
    BY DEF Others
  <2>2. job[q].name # job[p].name /\ \A u \in job[q].rows : u.name # job[p].name
    BY <1>1, <1>2 DEF Reserved
  <2>3. JobNames(q)'
    <3>1. \A u \in job[q].rows : \A v \in users' : v.name = u.name => v.id = u.id
      BY <1>3, <2>1, <2>2 DEF JobNames
    <3> QED BY <1>4, <2>1, <3>1 DEF JobNames
  <2>4. ErasedBy(q)'
    BY <1>3, <2>1, <2>2 DEF ErasedBy, Aimed, Bears
  <2>5. ~Has(prog'[q], "insertUser")
    BY <1>1, <2>1 DEF Ordered, OneAdministrator
  <2> QED BY <2>1, <2>3, <2>4, <2>5 DEF Ordered, Reserved
<1>8. JobNames(p)'
  <2>1. CASE job'[p] = NoJob
    BY <2>1, NamesSafe DEF JobNames
  <2>2. CASE SameName(job'[p], job[p])
    <3>1. JobNames(p) /\ \A u \in job[p].rows : u.name # job[p].name
      BY <1>1, <1>2 DEF Reserved
    <3>2. \A u \in job[p].rows : \A v \in users' : v.name = u.name => v.id = u.id
      BY <1>3, <3>1 DEF JobNames
    <3> QED BY <1>4, <2>2, <3>1, <3>2 DEF JobNames, SameName
  <2> QED BY <1>4, <2>1, <2>2
<1>9. Reserved(p)' /\ ErasedBy(p)'
  BY <1>0 DEF Ahead, Reserved, ErasedBy, Erasing, ApplyStep
<1> QED BY <1>5, <1>6, <1>7, <1>8, <1>9

-----------------------------------------------------------------------------
(* Handlers that begin, and those that a crash cuts off. *)

\* What a handler is begun with, on no name or on one that is nobody else's.
Opens(p, s, j) ==
  /\ s \in Seq(Step) /\ Creates(s) /\ Erases(s) /\ j.rows = {}
  /\ Has(s, "userdel") => Head(s) = "getUser"
  /\ p \notin Worker => ~Has(s, "getUser")
  /\ \/ ~Has(s, "insertUser") /\ j.name = NoName
     \/ /\ p \in Worker /\ (Has(s, "insertUser") => Head(s) # "insertUser")
        /\ \/ j.name \in PlainName /\ ~j.temp
           \/ j.name \in TempName /\ j.name \notin issued /\ j.name \in issued'

LEMMA OpensKeeps ==
  ASSUME OneAdministrator, ProcInv, AccountInv, NEW p \in Proc, prog[p] = <<>>,
         NEW s, NEW j, Goto(p, s, j), Opens(p, s, j), users' = users,
         accounts' = accounts, issued \subseteq issued'
  PROVE  AccountInv'
<1> USE DEF AccountInv
<1>1. /\ prog'[p] = s /\ job'[p] = IF s = <<>> THEN NoJob ELSE j
      /\ Others(p)
  BY DEF Goto, ProcInv, Others
<1>2. PlainName \subseteq Name /\ PlainName \cap TempName = {} /\ NoName \notin Name
  BY NameAssumption
<1>j. job'[p].rows = {}
  BY <1>1, NamesSafe DEF Opens
\* The new name is none that others have.
<1>3. ASSUME NEW r \in Proc \ {p}, job'[p].name # NoName, Has(s, "insertUser")
      PROVE  /\ job[r].name # job'[p].name
             /\ \A u \in job[r].rows : u.name # job'[p].name
  <2>1. p \in Worker /\ job'[p].name = j.name
    BY <1>1, <1>3, NamesSafe DEF Opens
  <2>2. r \notin Worker
    BY <2>1 DEF OneAdministrator
  <2>3. JobNames(r)
    OBVIOUS
  <2>4. CASE j.name \in PlainName
    BY <1>2, <2>1, <2>2, <2>3, <2>4 DEF JobNames
  <2>5. CASE j.name \in TempName /\ j.name \notin issued
    BY <2>1, <2>3, <2>5 DEF JobNames
  <2> QED BY <1>3, <2>1, <2>4, <2>5 DEF Opens
<1>4. \A q \in Proc \ {p} : Has(prog[q], "insertUser") =>
        job'[p].name # job[q].name /\ \A u \in job'[p].rows : u.name # job[q].name
  <2> SUFFICES ASSUME NEW q \in Proc \ {p}, Has(prog[q], "insertUser")
               PROVE  job'[p].name # job[q].name
    BY <1>j
  <2>1. q \in Worker /\ job[q].name \in Name
    BY DEF Ordered, Reserved
  <2>2. p \notin Worker
    BY <2>1 DEF OneAdministrator
  <2>3. job'[p].name = NoName
    BY <1>1, <2>2, NamesSafe DEF Opens
  <2> QED BY <1>2, <2>1, <2>3
<1>5. Ordered(p)'
  BY <1>1, NamesSafe DEF Opens, Ordered
<1>6. JobNames(p)'
  BY <1>1, <1>2, <1>j, NamesSafe DEF Opens, JobNames
<1>7. ErasedBy(p)'
  BY <1>1, NamesSafe DEF Opens, ErasedBy, ApplyStep
<1>8. Reserved(p)'
  <2> SUFFICES ASSUME Has(s, "insertUser") PROVE Reserved(p)'
    BY <1>1 DEF Reserved
  <2>1. /\ job'[p].name = j.name /\ job'[p].temp = j.temp /\ Head(s) # "insertUser"
        /\ \/ j.name \in PlainName /\ ~j.temp
           \/ j.name \in TempName /\ j.name \notin issued
    BY <1>1, NamesSafe DEF Opens
  <2>2. j.name \in Name /\ j.name # NoName /\ (j.temp => j.name \in TempName)
    BY <1>2, <2>1, NamesSafe
  <2>3. j.name \in TempName => \A u \in users' : u.name # j.name
    BY <1>2, <2>1 DEF RowNames
  <2>4. \A r \in Proc : /\ r # p => job'[r].name # j.name
                        /\ \A u \in job'[r].rows : u.name # j.name
    BY <1>1, <1>3, <1>j, <2>1, <2>2 DEF Others
  <2> QED BY <1>1, <2>1, <2>2, <2>3, <2>4 DEF Reserved, Bears
<1> QED BY <1>1, <1>4, <1>5, <1>6, <1>7, <1>8, OthersKeep

LEMMA NeutralOpens ==
  ASSUME NEW p, NEW s, NEW j, Neutral(s), j.rows = {}, j.name = NoName,
         p \notin Worker => ~Has(s, "getUser")
  PROVE  Opens(p, s, j)
BY NeutralOrdered DEF Neutral, Opens

LEMMA CreationOpens ==
  \A s \in {CreateUserSteps} \cup {CreateTemporaryUserSteps(g) : g \in BOOLEAN} :
    /\ s \in Seq(Step) /\ Creates(s) /\ Erases(s)
    /\ ~Has(s, "userdel") /\ Head(s) # "insertUser"
<1> DEFINE c == <<"lookup", "group", "password", "insertUser">>
<1>1. c \in Seq(Step) /\ c # <<>> /\ Head(c) = "lookup" /\ ~Has(c, "userdel")
  BY DEF Step, DbSteps, CmdSteps, Has
<1>2. Neutral(ApplySteps) /\ Neutral(<<"nextGrant">>)
  BY NeutralPieces
<1> HIDE DEF c
<1>3. ASSUME NEW t, Neutral(t) PROVE ~Has(c \o t, "userdel") /\ Head(c \o t) = "lookup"
  BY <1>1, <1>3, HeadConcat, ConcatHas DEF Neutral
<1>4. /\ CreateUserSteps = c \o ApplySteps
      /\ \A g \in BOOLEAN : CreateTemporaryUserSteps(g) \in {c \o <<"nextGrant">>, c \o ApplySteps}
  BY DEF CreateUserSteps, CreateTemporaryUserSteps, c
<1>5. /\ Handler("createUser", CreateUserSteps)
      /\ \A g \in BOOLEAN : Handler("createTemporary", CreateTemporaryUserSteps(g))
  BY DEF Handler, Breakable
<1>6. \A s \in {CreateUserSteps} \cup {CreateTemporaryUserSteps(g) : g \in BOOLEAN} :
        s \in Seq(Step) /\ Creates(s) /\ Erases(s)
  BY <1>5, HandlerOrdered
<1>7. /\ ~Has(c \o ApplySteps, "userdel") /\ Head(c \o ApplySteps) = "lookup"
      /\ ~Has(c \o <<"nextGrant">>, "userdel") /\ Head(c \o <<"nextGrant">>) = "lookup"
  BY <1>2, <1>3
<1> QED BY <1>4, <1>6, <1>7

LEMMA RequestOpens ==
  ASSUME NEW p \in Worker, Request(p)
  PROVE  \E op, s, j : /\ Begin(p, op, s, j) /\ Opens(p, s, j)
                       /\ issued \subseteq issued'
<1> DEFINE Begins == \E op, s, j : /\ Begin(p, op, s, j) /\ Opens(p, s, j)
                                   /\ issued \subseteq issued'
           Nameless(j) == j.rows = {} /\ j.name = NoName
<1> SUFFICES Begins
  OBVIOUS
<1> HIDE DEF Begins
<1>1. ASSUME NEW op, NEW s \in NeutralHandlers, NEW j, Serve(p, op, s, j), Nameless(j)
      PROVE  Begins
  <2>1. Opens(p, s, j)
    BY <1>1, NeutralHandlersAre, NeutralOpens
  <2> QED BY <1>1, <2>1 DEF Serve, Begins
<1> HIDE DEF Nameless
<1>2. CASE \/ CreateVolume(p) \/ UpdateVolume(p) \/ DeleteVolume(p)
           \/ RepairVolumePermissions(p)
  <2>1. \A g, on, id : /\ Nameless([NoJob EXCEPT !.guest = g])
                       /\ Nameless([NoJob EXCEPT !.vid = id, !.guest = g, !.on = on])
                       /\ Nameless([NoJob EXCEPT !.vid = id])
    BY DEF NoJob, Nameless
  <2>2. /\ CreateVolumeSteps \in NeutralHandlers /\ UpdateVolumeSteps \in NeutralHandlers
        /\ DeleteVolumeSteps \in NeutralHandlers /\ RepairVolumeSteps \in NeutralHandlers
    BY DEF NeutralHandlers
  <2> QED BY <1>1, <1>2, <2>1, <2>2
          DEF CreateVolume, UpdateVolume, DeleteVolume, RepairVolumePermissions
<1>3. CASE UpdateUser(p) \/ SetUserEnabled(p) \/ ChangeUserPassword(p)
  <2>1. \A on, id : /\ Nameless([NoJob EXCEPT !.uid = id, !.on = on])
                    /\ Nameless([NoJob EXCEPT !.uid = id])
    BY DEF NoJob, Nameless
  <2>2. /\ UpdateUserSteps \in NeutralHandlers /\ SetUserEnabledSteps \in NeutralHandlers
        /\ ChangePasswordSteps \in NeutralHandlers
    BY DEF NeutralHandlers
  <2> QED BY <1>1, <1>3, <2>1, <2>2 DEF UpdateUser, SetUserEnabled, ChangeUserPassword
<1>4. CASE SetPermission(p) \/ BulkSetPermissions(p)
  <2>1. \A uid, vid, a, todo :
          /\ Nameless([NoJob EXCEPT !.uid = uid, !.vid = vid, !.access = a])
          /\ Nameless([NoJob EXCEPT !.todo = todo, !.access = a])
    BY DEF NoJob, Nameless
  <2>2. SetPermissionSteps \in NeutralHandlers /\ BulkSteps \in NeutralHandlers
    BY DEF NeutralHandlers
  <2> QED BY <1>1, <1>4, <2>1, <2>2 DEF SetPermission, BulkSetPermissions
<1>5. CASE Reload(p) \/ Restart(p) \/ UpdateSettings(p)
  <2>1. \A s : Nameless([NoJob EXCEPT !.setting = s]) /\ Nameless(NoJob)
    BY DEF NoJob, Nameless
  <2>2. /\ ReloadSteps \in NeutralHandlers /\ RestartSteps \in NeutralHandlers
        /\ SettingsSteps \in NeutralHandlers
    BY DEF NeutralHandlers
  <2> QED BY <1>1, <1>5, <2>1, <2>2 DEF Reload, Restart, UpdateSettings
<1>6. CASE DeleteUser(p)
  <2>1. PICK id : Serve(p, "deleteUser", DeleteUserSteps, [NoJob EXCEPT !.uid = id])
    BY <1>6 DEF DeleteUser
  <2>2. /\ [NoJob EXCEPT !.uid = id].rows = {} /\ [NoJob EXCEPT !.uid = id].name = NoName
    BY DEF NoJob
  <2>3. /\ DeleteUserSteps \in Seq(Step) /\ Creates(DeleteUserSteps)
        /\ Erases(DeleteUserSteps)
    <3>1. Handler("deleteUser", DeleteUserSteps)
      BY DEF Handler, Breakable
    <3> QED BY <3>1, HandlerOrdered
  <2>4. Head(DeleteUserSteps) = "getUser"
    BY DeleteUserIs
  <2>5. ~Has(DeleteUserSteps, "insertUser")
    <3> DEFINE d == DeleteUserSteps
    <3>1. /\ Len(d) = 10 /\ d[1] = "getUser" /\ d[2] = "pdbDelete"
          /\ d[3] = "deleteUser" /\ d[10] = "userdel" /\ \A i \in 4 .. 9 : d[i] \in ApplyStep
      BY DeleteUserIs
    <3> HIDE DEF d
    <3>2. \A i \in 1 .. 10 : i \in {1, 2, 3, 10} \/ i \in 4 .. 9
      OBVIOUS
    <3>3. \A i \in 1 .. 10 : d[i] # "insertUser"
      BY <3>1, <3>2 DEF ApplyStep
    <3> QED BY <3>1, <3>3 DEF Has, d
  <2>6. Opens(p, DeleteUserSteps, [NoJob EXCEPT !.uid = id])
    BY <2>2, <2>3, <2>4, <2>5 DEF Opens
  <2> QED BY <2>1, <2>6 DEF Serve, Begins
<1>7. CASE CreateUser(p)
  <2>1. PICK n \in PlainName : Serve(p, "createUser", CreateUserSteps, [NoJob EXCEPT !.name = n])
    BY <1>7 DEF CreateUser
  <2> DEFINE j == [NoJob EXCEPT !.name = n]
  <2>2. j.rows = {} /\ j.name = n /\ ~j.temp
    BY DEF NoJob
  <2> HIDE DEF j
  <2>3. Opens(p, CreateUserSteps, j)
    BY <2>2, CreationOpens DEF Opens
  <2> QED BY <2>1, <2>3 DEF Serve, j, Begins
<1>8. CASE CreateTemporaryUser(p)
  <2> DEFINE j(n, a, todo) == [NoJob EXCEPT !.name = n, !.temp = TRUE, !.access = a,
                                            !.todo = todo]
  <2>1. \E n, g, a, todo :
          /\ n \in TempName \ issued /\ g \in BOOLEAN
          /\ Begin(p, "createTemporary", CreateTemporaryUserSteps(g), j(n, a, todo))
          /\ issued' = issued \cup {n}
    BY <1>8 DEF CreateTemporaryUser
  <2>2. PICK n, g, a, todo :
          /\ n \in TempName \ issued /\ g \in BOOLEAN
          /\ Begin(p, "createTemporary", CreateTemporaryUserSteps(g), j(n, a, todo))
          /\ issued' = issued \cup {n}
    BY <2>1
  <2>3. j(n, a, todo).rows = {} /\ j(n, a, todo).name = n
    BY DEF NoJob
  <2> HIDE DEF j
  <2>4. Opens(p, CreateTemporaryUserSteps(g), j(n, a, todo))
    BY <2>2, <2>3, CreationOpens DEF Opens
  <2> QED BY <2>2, <2>4 DEF Begins
<1> QED BY <1>2, <1>3, <1>4, <1>5, <1>6, <1>7, <1>8 DEF Request

-----------------------------------------------------------------------------
(* Every step is one of these. *)

LEMMA GotoKeepsName ==
  ASSUME ProcInv, NEW p \in Proc, NEW s, NEW j, Goto(p, s, j), SameName(j, job[p]),
         j.uid = job[p].uid \/ At(p, "bulkPair")
  PROVE  KeepsName(p) /\ prog'[p] = s
<1>1. prog'[p] = s /\ job'[p] = IF s = <<>> THEN NoJob ELSE j
  BY DEF Goto, ProcInv
<1> QED BY <1>1 DEF KeepsName

LEMMA GiveUpCalm ==
  ASSUME ProcInv, NEW p \in Proc, Abort(p) \/ ApplyFailed(p)
  PROVE  Calm(p)
<1>1. PICK s : Goto(p, s, job[p]) /\ Neutral(s)
  <2>1. Neutral(<<>>) /\ Neutral(<<"unlock">>) /\ Neutral(<<"nextGrant">>)
    BY NeutralPieces
  <2>2. Neutral(Unwind(p))
    BY <2>1 DEF Unwind
  <2>3. Neutral(Unwind(p) \o <<"nextGrant">>) /\ Neutral(Unwind(p) \o <<>>)
    BY <2>1, <2>2, NeutralOrdered
  <2> QED BY <2>2, <2>3 DEF Abort, ApplyFailed
<1>2. KeepsName(p) /\ prog'[p] = s
  BY <1>1, GotoKeepsName DEF SameName
<1>3. users' = users /\ accounts' = accounts /\ issued' = issued
  BY DEF Abort, ApplyFailed, tableVars, osVars, envVars
<1> QED BY <1>1, <1>2, <1>3, SameRows DEF Calm, Neutral

LEMMA StepCalm ==
  ASSUME ProcInv, NEW p \in Proc, NEW s, At(p, s),
         s \notin {"password", "deleteUser", "getUser", "nextExpired"},
         NEW steps, NEW j, Goto(p, steps, j), SameName(j, job[p]),
         j.uid = job[p].uid \/ s = "bulkPair", FewerRows, issued' = issued,
         accounts \subseteq accounts'
           \/ (s = "userdel" /\ accounts \ {job[p].name} \subseteq accounts')
  PROVE  Calm(p)
<1>1. KeepsName(p)
  BY GotoKeepsName
<1> QED BY <1>1 DEF Calm, At

LEMMA DoneCalm ==
  ASSUME ProcInv, NEW p \in Proc, NEW s, At(p, s),
         s \notin {"password", "deleteUser", "getUser", "nextExpired"},
         Done(p) \/ Changed(p), FewerRows, issued' = issued, accounts \subseteq accounts'
  PROVE  Calm(p)
<1>0. job[p] \in Job
  BY DEF ProcInv, SafeJob
<1> DEFINE j == [job[p] EXCEPT !.changed = TRUE]
<1>1. SameName(j, job[p]) /\ j.uid = job[p].uid /\ SameName(job[p], job[p])
  BY <1>0 DEF Job, SameName
<1>2. Goto(p, Tail(prog[p]), job[p]) \/ Goto(p, Tail(prog[p]), j)
  BY DEF Done, Changed, Continue
<1> HIDE DEF j
<1> QED BY <1>1, <1>2, StepCalm

\* Steps that check or work outside the tables.
LEMMA OutsideCalm ==
  ASSUME ProcInv, NEW p \in Proc,
         \/ Unlock(p) \/ GetVolume(p) \/ Walk(p) \/ Lookup(p) \/ UserAdd(p) \/ AddToGroup(p)
         \/ SetFlag(p) \/ PdbDelete(p) \/ UserDel(p) \/ PermUser(p) \/ PermVolume(p)
         \/ BulkCheck(p) \/ NextGrant(p) \/ ReadTables(p) \/ EnsureShares(p)
         \/ WriteConf(p) \/ ReloadSmbd(p) \/ RestartSmbd(p) \/ Fail(p)
  PROVE  Calm(p)
<1> USE DEF tableVars, osVars, envVars, Moves, OnSystem
<1>0. job[p] \in Job
  BY DEF ProcInv, SafeJob
<1>1. CASE Abort(p) \/ ApplyFailed(p)
  BY <1>1, GiveUpCalm
<1>2. ASSUME NEW s, At(p, s), s \notin {"password", "deleteUser", "getUser", "nextExpired"},
             Done(p), users' = users, accounts' = accounts, issued' = issued
      PROVE  Calm(p)
  BY <1>2, DoneCalm, SameRows
<1>3. CASE \/ Unlock(p) \/ GetVolume(p) \/ Walk(p) \/ AddToGroup(p) \/ PermUser(p)
           \/ PermVolume(p) \/ BulkCheck(p) \/ SetFlag(p) \/ PdbDelete(p)
  BY <1>1, <1>2, <1>3 DEF Unlock, GetVolume, Walk, AddToGroup, PermUser, PermVolume,
     BulkCheck, SetFlag, PdbDelete
<1>4. CASE ReadTables(p) \/ EnsureShares(p) \/ WriteConf(p) \/ ReloadSmbd(p)
           \/ RestartSmbd(p) \/ Fail(p)
  BY <1>1, <1>2, <1>4 DEF ReadTables, EnsureShares, WriteConf, ReloadSmbd, RestartSmbd, Fail
<1>5. CASE Lookup(p)
  <2>1. \E s : Goto(p, s, job[p])
    BY <1>5 DEF Lookup, Done, Continue
  <2>2. At(p, "lookup") /\ users' = users /\ accounts' = accounts /\ issued' = issued
    BY <1>5 DEF Lookup
  <2> QED BY <2>1, <2>2, StepCalm, SameRows DEF SameName
<1>6. CASE UserAdd(p) /\ ~Abort(p)
  <2> DEFINE j == [job[p] EXCEPT !.created = TRUE]
  <2>1. SameName(j, job[p]) /\ j.uid = job[p].uid
    BY <1>0 DEF Job, SameName
  <2>2. /\ At(p, "useradd") /\ Goto(p, Tail(prog[p]), j) /\ users' = users
        /\ accounts \subseteq accounts' /\ issued' = issued
    BY <1>6 DEF UserAdd, Continue
  <2> HIDE DEF j
  <2> QED BY <2>1, <2>2, StepCalm, SameRows
<1>7. CASE UserDel(p)
  <2>1. /\ At(p, "userdel") /\ Goto(p, Tail(prog[p]), job[p]) /\ users' = users
        /\ accounts \ {job[p].name} \subseteq accounts' /\ issued' = issued
    BY <1>7 DEF UserDel, Done, Continue
  <2> QED BY <2>1, StepCalm, SameRows DEF SameName
<1>8. CASE NextGrant(p)
  <2> DEFINE j(t) == [job[p] EXCEPT !.todo = @ \ {t}, !.vid = t[2]]
  <2>1. \A t : SameName(j(t), job[p]) /\ j(t).uid = job[p].uid
    BY <1>0 DEF Job, SameName
  <2>2. /\ At(p, "nextGrant") /\ users' = users /\ accounts' = accounts /\ issued' = issued
        /\ Done(p) \/ \E t : Goto(p, SetPermissionSteps \o prog[p], j(t))
    BY <1>8 DEF NextGrant
  <2> HIDE DEF j
  <2> QED BY <1>2, <2>1, <2>2, StepCalm, SameRows
<1> QED BY <1>1, <1>3, <1>4, <1>5, <1>6, <1>7, <1>8

LEMMA TablesCalm ==
  ASSUME ProcInv, NEW p \in Proc,
         \/ InsertVolumeStep(p) \/ UpdateVolumeStep(p) \/ DeleteVolumeStep(p)
         \/ SetEnabledStep(p) \/ DeleteUserStep(p) \/ SetSettings(p) \/ PermRow(p)
         \/ BulkPair(p) \/ SetPassword(p)
  PROVE  Calm(p)
<1> USE DEF osVars, envVars, OnTables
<1>0. job[p] \in Job
  BY DEF ProcInv, SafeJob
<1>1. CASE Abort(p)
  BY <1>1, GiveUpCalm
<1>2. CASE \/ InsertVolumeStep(p) \/ UpdateVolumeStep(p) \/ DeleteVolumeStep(p)
           \/ SetSettings(p) \/ PermRow(p)
  <2>1. CASE ~Abort(p)
    <3>1. /\ \E s \in Changing \ {"deleteUser", "nextExpired"} : At(p, s)
          /\ Changed(p) /\ accounts' = accounts /\ issued' = issued
      BY <1>2, <2>1 DEF InsertVolumeStep, UpdateVolumeStep, DeleteVolumeStep, SetSettings,
         PermRow, Changing
    <3>2. users' = users
      BY <1>2, <2>1 DEF InsertVolumeStep, UpdateVolumeStep, DeleteVolumeStep, SetSettings,
         PermRow, InsertVolume, UpdateVolumeRow, DeleteVolumeRow, UpdateSettingsRows,
         DeletePerm, Upsert
    <3> QED BY <3>1, <3>2, DoneCalm, SameRows DEF Changing
  <2> QED BY <1>1, <2>1
<1>3. CASE SetEnabledStep(p)
  <2>1. FewerRows
    <3> SUFFICES ASSUME NEW w \in users'
                 PROVE  \E u \in users : /\ u.id = w.id /\ u.name = w.name
                                         /\ w.lease # "permanent" => u.lease # "permanent"
      BY DEF FewerRows
    <3>1. PICK u \in users :
            w = IF u.id = job[p].uid THEN [u EXCEPT !.enabled = job[p].on] ELSE u
      BY <1>3 DEF SetEnabledStep, SetEnabled
    <3> QED BY <3>1
  <2> QED BY <1>3, <2>1, DoneCalm DEF SetEnabledStep
<1>4. CASE DeleteUserStep(p)
  <2> DEFINE j == [job[p] EXCEPT !.changed = TRUE]
  <2>1. SameName(j, job[p]) /\ j.uid = job[p].uid
    BY <1>0 DEF Job, SameName
  <2>2. /\ At(p, "deleteUser") /\ Goto(p, Tail(prog[p]), j)
        /\ accounts' = accounts /\ issued' = issued
        /\ users' = {u \in users : u.id # job[p].uid}
    BY <1>4 DEF DeleteUserStep, Changed, Continue, DeleteUserRow
  <2> HIDE DEF j
  <2>3. FewerRows /\ \A u \in users' : u.id # job[p].uid
    BY <2>2 DEF FewerRows
  <2>4. KeepsName(p)
    BY <2>1, <2>2, GotoKeepsName
  <2> QED BY <2>2, <2>3, <2>4 DEF Calm, At
<1>5. CASE SetPassword(p) /\ ~Abort(p)
  <2>1. /\ At(p, "password") /\ Goto(p, Tail(prog[p]), job[p]) /\ job[p].name \in accounts
        /\ users' = users /\ accounts' = accounts /\ issued' = issued
    BY <1>5 DEF SetPassword, Done, Continue, OnSystem, tableVars
  <2>2. KeepsName(p)
    BY <2>1, GotoKeepsName DEF SameName
  <2> QED BY <2>1, <2>2, SameRows DEF Calm, At
<1>6. CASE BulkPair(p) /\ ~Abort(p)
  <2> DEFINE j(t) == [job[p] EXCEPT !.todo = @ \ {t}, !.uid = t[1],
                                    !.changed = @ \/ perms' # perms]
  <2>1. \A t : SameName(j(t), job[p])
    BY <1>0 DEF Job, SameName
  <2>2. /\ At(p, "bulkPair") /\ users' = users /\ accounts' = accounts /\ issued' = issued
        /\ Done(p) \/ \E t : Goto(p, prog[p], j(t))
    BY <1>6 DEF BulkPair, Moves, DeletePerm, Upsert, tableVars
  <2> HIDE DEF j
  <2>3. CASE Done(p)
    BY <2>2, <2>3, DoneCalm, SameRows
  <2> QED BY <2>1, <2>2, <2>3, StepCalm, SameRows
<1> QED BY <1>1, <1>2, <1>3, <1>4, <1>5, <1>6

LEMMA RunKinds ==
  ASSUME ProcInv, NEW p \in Proc, Ordered(p), Run(p)
  PROVE  Calm(p) \/ Gets(p) \/ Selects(p) \/ Takes(p) \/ Inserts(p)
<1> USE DEF tableVars, osVars, envVars, Moves, OnTables
<1>0. job[p] \in Job
  BY DEF ProcInv, SafeJob
<1>1. CASE Abort(p) \/ ApplyFailed(p)
  BY <1>1, GiveUpCalm
<1>2. CASE GetUser(p) /\ ~Abort(p)
  <2> DEFINE j(u) == [job[p] EXCEPT !.name = u.name, !.created = u.created]
  <2>1. \A u : /\ j(u).name = u.name /\ j(u).temp = job[p].temp
               /\ j(u).rows = job[p].rows /\ j(u).uid = job[p].uid
    BY <1>0 DEF Job
  <2>2. /\ At(p, "getUser") /\ UNCHANGED <<users, accounts, issued>>
        /\ \E u \in users : u.id = job[p].uid /\ Goto(p, Tail(prog[p]), j(u))
    BY <1>2 DEF GetUser, Continue
  <2> HIDE DEF j
  <2>3. PICK u \in users : u.id = job[p].uid /\ Goto(p, Tail(prog[p]), j(u))
    BY <2>2
  <2>4. \/ prog'[p] = <<>> /\ job'[p] = NoJob
        \/ job'[p] = j(u)
    BY <2>3 DEF Goto, ProcInv
  <2> QED BY <2>1, <2>2, <2>3, <2>4 DEF Gets
<1>3. CASE SelectExpired(p)
  <2> DEFINE j == [job[p] EXCEPT !.rows = ExpiredTemporary]
  <2>1. j.name = job[p].name /\ j.rows = ExpiredTemporary
    BY <1>0 DEF Job
  <2>2. /\ At(p, "selectExpired") /\ UNCHANGED <<users, accounts, issued>>
        /\ \E s : Goto(p, s, j)
    BY <1>3 DEF SelectExpired
  <2> HIDE DEF j
  <2>3. \/ prog'[p] = <<>> /\ job'[p] = NoJob
        \/ job'[p] = j
    BY <2>2 DEF Goto, ProcInv
  <2> QED BY <2>1, <2>2, <2>3 DEF Selects
<1>4. CASE NextExpired(p) /\ Done(p)
  <2>1. /\ At(p, "nextExpired") /\ users' = users /\ accounts' = accounts /\ issued' = issued
        /\ Goto(p, Tail(prog[p]), job[p])
    BY <1>4 DEF NextExpired, Done, Continue
  <2>2. KeepsName(p) /\ prog'[p] = Tail(prog[p])
    BY <2>1, GotoKeepsName DEF SameName
  <2>3. ~Has(prog'[p], "userdel")
    BY <2>1, <2>2, TailErases DEF At, ProcInv, Ordered, Erasing, ApplyStep
  <2> QED BY <2>1, <2>2, <2>3, SameRows DEF Calm, At
<1>5. CASE NextExpired(p) /\ ~Done(p)
  <2> DEFINE j(u) == [job[p] EXCEPT !.rows = @ \ {u}, !.uid = u.id, !.name = u.name,
                                    !.created = u.created]
  <2>1. \A u : j(u).name = u.name /\ j(u).uid = u.id /\ j(u).rows = job[p].rows \ {u}
    BY <1>0 DEF Job
  <2>2. /\ At(p, "nextExpired") /\ UNCHANGED <<users, accounts, issued>>
        /\ \E u \in job[p].rows : Goto(p, ExpiredSteps \o prog[p], j(u))
    BY <1>5 DEF NextExpired
  <2> HIDE DEF j
  <2>3. PICK u \in job[p].rows : Goto(p, ExpiredSteps \o prog[p], j(u))
    BY <2>2
  <2>4. ExpiredSteps \o prog[p] # <<>>
    <3>1. ExpiredSteps \in Seq(Step) /\ Has(ExpiredSteps, "pdbDelete")
      BY DEF ExpiredSteps, Step, DbSteps, CmdSteps, Has
    <3>2. Has(ExpiredSteps \o prog[p], "pdbDelete")
      BY <3>1, ConcatHas DEF ProcInv
    <3> QED BY <3>2 DEF Has
  <2>5. job'[p] = j(u)
    BY <2>3, <2>4 DEF Goto, ProcInv
  <2> QED BY <2>1, <2>2, <2>5 DEF Takes
<1>6. CASE InsertUserStep(p) /\ ~Abort(p)
  <2> DEFINE j == [job[p] EXCEPT !.uid = nextUser, !.changed = TRUE]
  <2>1. SameName(j, job[p])
    BY <1>0 DEF Job, SameName
  <2>2. /\ At(p, "insertUser") /\ UNCHANGED <<accounts, issued>>
        /\ Goto(p, Tail(prog[p]), j)
        /\ InsertUser(job[p].name, IF job[p].temp THEN "running" ELSE "permanent",
                      job[p].created)
    BY <1>6 DEF InsertUserStep, Continue
  <2> HIDE DEF j
  <2>3. \E w : /\ users' = users \cup {w} /\ w.name = job[p].name
               /\ w.lease # "permanent" => job[p].temp
    <3> DEFINE lease == IF job[p].temp THEN "running" ELSE "permanent"
               w == [id |-> nextUser, name |-> job[p].name, enabled |-> TRUE,
                     lease |-> lease, created |-> job[p].created]
    <3>1. /\ users' = users \cup {w} /\ w.name = job[p].name
          /\ w.lease # "permanent" => job[p].temp
      BY <2>2 DEF InsertUser
    <3> HIDE DEF w
    <3> QED BY <3>1
  <2>4. \/ prog'[p] = <<>> /\ job'[p] = NoJob
        \/ job'[p] = j
    BY <2>2 DEF Goto, ProcInv
  <2> QED BY <2>1, <2>2, <2>3, <2>4 DEF Inserts
<1> QED BY <1>1, <1>2, <1>3, <1>4, <1>5, <1>6, OutsideCalm, TablesCalm DEF Run

-----------------------------------------------------------------------------
(* The invariant. *)

\* A lease that runs out changes nobody's name, and a step that is not the
\* service's nothing at all.
LEMMA StillKeeps ==
  ASSUME AccountInv, FewerRows, UNCHANGED <<prog, job, accounts, issued>>
  PROVE  AccountInv'
<1> USE DEF AccountInv
<1>f. \A w \in users' : \E u \in users :
        u.id = w.id /\ u.name = w.name /\ (w.lease # "permanent" => u.lease # "permanent")
  BY DEF FewerRows
<1>1. RowNames' /\ UsersHaveAccounts'
  BY <1>f DEF RowNames, UsersHaveAccounts
<1>2. ASSUME NEW q \in Proc PROVE (Ordered(q) /\ JobNames(q) /\ Reserved(q) /\ ErasedBy(q))'
  <2>1. Ordered(q)' /\ JobNames(q)'
    BY <1>f DEF Ordered, JobNames
  <2>2. Reserved(q)'
    BY <1>f DEF Reserved, Bears
  <2>3. ErasedBy(q)'
    BY <1>f DEF ErasedBy, Aimed, Bears
  <2> QED BY <2>1, <2>2, <2>3
<1> QED BY <1>1, <1>2

\* A process that starts neither creates a user nor looks one up.
LEMMA AtStartNeutral ==
  \A p \in Proc : Neutral(AtStart[p]) /\ ~Has(AtStart[p], "getUser")
<1>1. ~Has(RepairAllSteps, "getUser")
  BY DEF RepairAllSteps, Has
<1> QED BY <1>1, NeutralPieces, NamesSafe DEF AtStart

LEMMA InitAccounts == Init => AccountInv
<1> SUFFICES ASSUME Init PROVE AccountInv
  OBVIOUS
<1>1. RowNames /\ UsersHaveAccounts
  BY DatabaseAssumption DEF Init, RowNames, UsersHaveAccounts
<1>2. ASSUME NEW p \in Proc
      PROVE  /\ Neutral(prog[p]) /\ ~Has(prog[p], "getUser")
             /\ job[p].name = NoName /\ job[p].rows = {}
  BY AtStartNeutral, NamesSafe DEF Init
<1> QED BY <1>1, <1>2, NeutralOrdered, NamesSafe
        DEF AccountInv, Ordered, JobNames, Reserved, ErasedBy, Neutral

LEMMA CrashAccounts == ASSUME AccountInv, Crash PROVE AccountInv'
<1>1. RowNames' /\ UsersHaveAccounts'
  BY DEF AccountInv, Crash, RowNames, UsersHaveAccounts, tableVars, osVars, envVars
<1>2. ASSUME NEW p \in Proc
      PROVE  /\ Neutral(prog'[p]) /\ ~Has(prog'[p], "getUser")
             /\ job'[p].name = NoName /\ job'[p].rows = {}
  BY AtStartNeutral, NamesSafe DEF Crash
<1> QED BY <1>1, <1>2, NeutralOrdered, NamesSafe
        DEF AccountInv, Ordered, JobNames, Reserved, ErasedBy, Neutral

LEMMA LeaseKeepsRows == ASSUME StoreInv, LeaseExpires PROVE FewerRows
<1>1. PICK u \in users : /\ u.lease = "running"
                         /\ users' = (users \ {u}) \cup {[u EXCEPT !.lease = "expired"]}
  BY DEF LeaseExpires
<1>2. u \in UserRow
  BY DEF StoreInv, StoreTypeOK
<1> DEFINE w == [u EXCEPT !.lease = "expired"]
<1>3. w.id = u.id /\ w.name = u.name
  BY <1>2 DEF UserRow
<1>4. users' = (users \ {u}) \cup {w}
  BY <1>1
<1> HIDE DEF w
<1> QED BY <1>1, <1>3, <1>4 DEF FewerRows

LEMMA NextAccounts ==
  ASSUME OneAdministrator, IInv, AccountInv, [Next]_vars
  PROVE  AccountInv'
<1>0. ProcInv /\ StoreInv
  BY DEF IInv, DataInv
<1>1. ASSUME NEW p \in Proc, NEW s, NEW j, Goto(p, s, j), Advances(p)
      PROVE  Ordered(p)' /\ Ahead(p) /\ Others(p)
  <2>1. Ordered(p)
    BY DEF AccountInv
  <2>2. Others(p)
    BY <1>0, <1>1 DEF Goto, ProcInv, Others
  <2> QED BY <1>0, <1>1, <2>1, <2>2, AdvancesOrdered
<1>2. ASSUME NEW p \in Worker, Request(p) PROVE AccountInv'
  <2>1. PICK op, s, j : /\ Begin(p, op, s, j) /\ Opens(p, s, j)
                        /\ issued \subseteq issued'
    BY <1>2, RequestOpens
  <2>2. /\ p \in Proc /\ prog[p] = <<>> /\ Goto(p, s, j)
        /\ users' = users /\ accounts' = accounts
    BY <2>1 DEF Begin, Proc, tableVars, osVars
  <2> QED BY <1>0, <2>1, <2>2, OpensKeeps
<1>3. ASSUME NEW p \in Janitor, Tick(p) PROVE AccountInv'
  <2>1. /\ p \in Proc /\ prog[p] = <<>> /\ Goto(p, CleanupSteps, NoJob)
        /\ users' = users /\ accounts' = accounts /\ issued \subseteq issued'
    BY <1>3 DEF Tick, Proc, Moves, tableVars, osVars, envVars
  <2>2. ~Has(CleanupSteps, "getUser")
    BY DEF CleanupSteps, Has
  <2>3. Opens(p, CleanupSteps, NoJob)
    BY <2>2, NeutralOpens, NeutralPieces, NamesSafe
  <2> QED BY <1>0, <2>1, <2>3, OpensKeeps
<1>4. ASSUME NEW p \in Proc, Lock(p) PROVE AccountInv'
  <2>1. /\ At(p, "lock") /\ Done(p) /\ Goto(p, Tail(prog[p]), job[p]) /\ prog[p] # <<>>
        /\ users' = users /\ accounts' = accounts /\ issued' = issued
    BY <1>4 DEF Lock, Done, Continue, At, tableVars, osVars, envVars
  <2>2. Advances(p)
    BY <2>1 DEF Advances, Goto
  <2>3. Ordered(p)' /\ Ahead(p) /\ Others(p)
    BY <1>1, <2>1, <2>2
  <2>4. Calm(p)
    BY <1>0, <2>1, DoneCalm, SameRows
  <2> QED BY <1>0, <2>3, <2>4, CalmKeeps
<1>5. ASSUME NEW p \in Proc, Run(p) PROVE AccountInv'
  <2>1. Advances(p)
    <3>1. CASE Unlock(p)
      BY <3>1 DEF Unlock, Done, Continue, Goto, Advances, At
    <3>2. CASE ~Unlock(p)
      BY <1>0, <1>5, <3>2, RunControl, FailControl DEF Ordinary, Applying
    <3> QED BY <3>1, <3>2
  <2>2. PICK s, j : Goto(p, s, j)
    BY <1>5, RunGoes
  <2>3. Ordered(p) /\ Ordered(p)' /\ Ahead(p) /\ Others(p)
    BY <1>1, <2>1, <2>2 DEF AccountInv
  <2>4. Calm(p) \/ Gets(p) \/ Selects(p) \/ Takes(p) \/ Inserts(p)
    BY <1>0, <1>5, <2>3, RunKinds
  <2> QED BY <1>0, <2>3, <2>4, CalmKeeps, GetsKeeps, SelectsKeeps, TakesKeeps, InsertsKeeps
<1>6. CASE LeaseExpires
  <2>1. UNCHANGED <<prog, job, accounts, issued>>
    BY <1>6 DEF LeaseExpires, osVars, envVars
  <2> QED BY <1>0, <1>6, <2>1, LeaseKeepsRows, StillKeeps
<1>7. CASE UNCHANGED vars
  <2>1. FewerRows /\ UNCHANGED <<prog, job, accounts, issued>>
    BY <1>7, SameRows DEF vars, tableVars, osVars, envVars
  <2> QED BY <2>1, StillKeeps
<1>8. CASE Crash
  BY <1>8, CrashAccounts
<1> QED BY <1>2, <1>3, <1>4, <1>5, <1>6, <1>7, <1>8 DEF Next

\* One administrator at a time, any number of cleanups and of repairs at start,
\* any statement or command that fails, and any crash: every SMB user of the
\* database keeps its Linux account.  DeleteUser and the cleanup look a user up
\* and take its account away many steps later; by then its row is gone, and
\* nobody has created a user of that name since.
THEOREM ServiceUsersHaveAccounts ==
  ASSUME OneAdministrator
  PROVE  Spec => []UsersHaveAccounts
<1>1. IInv /\ AccountInv /\ [Next]_vars => AccountInv'
  BY NextAccounts
<1>2. AccountInv => UsersHaveAccounts
  BY DEF AccountInv
<1> QED BY <1>1, <1>2, InitAccounts, ServiceInvariant, PTL DEF Spec

-----------------------------------------------------------------------------
(* Samba's flags.  The steps that change who is enabled, or what Samba     *)
(* knows of it.                                                            *)
Watched == {"pdbDelete", "deleteUser", "nextExpired", "flag", "setEnabled"}

\* What may stand behind a step: a user is looked up first or not at all, and a
\* step that may end its handler has none of the watched ones behind it.
MayFollow(x, y) == y \in Watched \cup {"getUser"} =>
  /\ y # "getUser"
  /\ \/ x \in {"reread", "userdel"} \/ (x = "getUser" /\ y # "nextExpired")
     \/ <<x, y>> \in {<<"pdbDelete", "deleteUser">>, <<"pdbDelete", "nextExpired">>,
                      <<"deleteUser", "nextExpired">>, <<"flag", "setEnabled">>,
                      <<"setEnabled", "flag">>}

Staged(s) == \A i, k \in 1 .. Len(s) : i < k => MayFollow(s[i], s[k])

\* Nothing to do with flags.
Idle(s) == s \in Seq(Step) /\ \A x \in Watched \cup {"getUser"} : ~Has(s, x)

LEMMA TailStaged ==
  ASSUME NEW s \in Seq(Step), s # <<>>, Staged(s)
  PROVE  /\ Staged(Tail(s)) /\ Tail(s) \in Seq(Step) /\ Has(s, Head(s))
         /\ \A x : /\ Has(Tail(s), x) => Has(s, x) /\ MayFollow(Head(s), x)
                   /\ Has(s, x) => x = Head(s) \/ Has(Tail(s), x)
<1> DEFINE t == Tail(s)
<1>1. /\ Len(s) \in Nat /\ Len(s) > 0 /\ Len(t) = Len(s) - 1 /\ Head(s) = s[1]
      /\ t \in Seq(Step)
      /\ \A i \in 1 .. Len(s) - 1 : t[i] = s[i + 1]
  BY TailIndex
<1>2. \A x : (Has(t, x) => Has(s, x)) /\ (Has(s, x) => x = Head(s) \/ Has(t, x))
  BY TailHas
<1> HIDE DEF t
<1>3. \A i \in 1 .. Len(t) : i + 1 \in 1 .. Len(s) /\ t[i] = s[i + 1]
  BY <1>1
<1>4. Staged(t)
  <2> SUFFICES ASSUME NEW i \in 1 .. Len(t), NEW k \in 1 .. Len(t), i < k
               PROVE  MayFollow(t[i], t[k])
    BY DEF Staged
  <2> QED BY <1>1, <1>3 DEF Staged
<1>5. ASSUME NEW x, Has(t, x) PROVE MayFollow(Head(s), x)
  <2>1. PICK i \in 1 .. Len(t) : t[i] = x
    BY <1>5 DEF Has
  <2>2. 1 \in 1 .. Len(s) /\ i + 1 \in 1 .. Len(s) /\ 1 < i + 1 /\ s[i + 1] = x
    BY <1>1, <1>3, <2>1
  <2> QED BY <1>1, <2>2 DEF Staged
<1>6. Has(s, Head(s))
  BY <1>1 DEF Has
<1> QED BY <1>1, <1>2, <1>4, <1>5, <1>6 DEF t

LEMMA ConcatStaged ==
  ASSUME NEW x \in Seq(Step), NEW s \in Seq(Step), Staged(x), Staged(s),
         \A a, b : Has(x, a) /\ Has(s, b) => MayFollow(a, b)
  PROVE  Staged(x \o s)
<1> DEFINE t == x \o s
<1>1. /\ Len(x) \in Nat /\ Len(s) \in Nat /\ Len(t) = Len(x) + Len(s)
      /\ \A i \in 1 .. Len(x) : t[i] = x[i]
      /\ \A i \in 1 .. Len(s) : t[Len(x) + i] = s[i]
  BY ConcatIndex
<1> HIDE DEF t
<1> SUFFICES ASSUME NEW i \in 1 .. Len(t), NEW k \in 1 .. Len(t), i < k
             PROVE  MayFollow(t[i], t[k])
  BY DEF Staged, t
<1>2. CASE k <= Len(x)
  <2>1. i \in 1 .. Len(x) /\ k \in 1 .. Len(x) /\ t[i] = x[i] /\ t[k] = x[k]
    BY <1>1, <1>2
  <2> QED BY <2>1 DEF Staged
<1>3. ASSUME NEW j \in 1 .. Len(t), j > Len(x)
      PROVE  j - Len(x) \in 1 .. Len(s) /\ t[j] = s[j - Len(x)]
  <2>1. j - Len(x) \in 1 .. Len(s) /\ Len(x) + (j - Len(x)) = j
    BY <1>1, <1>3
  <2> QED BY <1>1, <2>1
<1>4. CASE i > Len(x)
  <2>1. i - Len(x) \in 1 .. Len(s) /\ t[i] = s[i - Len(x)]
    BY <1>3, <1>4
  <2>2. k - Len(x) \in 1 .. Len(s) /\ t[k] = s[k - Len(x)]
    BY <1>1, <1>3, <1>4
  <2>3. i - Len(x) < k - Len(x)
    BY <1>1
  <2> QED BY <2>1, <2>2, <2>3 DEF Staged
<1>5. CASE i <= Len(x) /\ k > Len(x)
  <2>1. i \in 1 .. Len(x) /\ t[i] = x[i]
    BY <1>1, <1>5
  <2>2. k - Len(x) \in 1 .. Len(s) /\ t[k] = s[k - Len(x)]
    BY <1>1, <1>3, <1>5
  <2>3. Has(x, t[i]) /\ Has(s, t[k])
    BY <2>1, <2>2 DEF Has
  <2> QED BY <2>3
<1> QED BY <1>1, <1>2, <1>4, <1>5

LEMMA IdleStaged ==
  /\ \A s : Idle(s) => s \in Seq(Step) /\ Staged(s)
  /\ \A x, s : Idle(x) /\ Idle(s) => Idle(x \o s)
  /\ \A x, s : x \in Seq(Step) /\ Staged(x) /\ Idle(s) => Staged(x \o s) /\ x \o s \in Seq(Step)
<1>1. \A a, y : y \notin Watched \cup {"getUser"} => MayFollow(a, y)
  BY DEF MayFollow
<1>2. ASSUME NEW s, Idle(s) PROVE Staged(s)
  <2>1. \A k \in 1 .. Len(s) : s[k] \notin Watched \cup {"getUser"}
    BY <1>2 DEF Idle, Has
  <2> QED BY <1>1, <2>1 DEF Staged
<1>3. ASSUME NEW x, NEW s, Idle(x), Idle(s) PROVE Idle(x \o s)
  BY <1>3, ConcatHas, ConcatIndex DEF Idle
<1>4. ASSUME NEW x \in Seq(Step), NEW s, Staged(x), Idle(s)
      PROVE  Staged(x \o s) /\ x \o s \in Seq(Step)
  <2>1. s \in Seq(Step) /\ Staged(s) /\ \A b : Has(s, b) => b \notin Watched \cup {"getUser"}
    BY <1>2, <1>4 DEF Idle
  <2> QED BY <1>1, <1>4, <2>1, ConcatStaged, ConcatIndex
<1> QED BY <1>2, <1>3, <1>4 DEF Idle

LEMMA IdlePieces ==
  /\ \A s \in {<<"walk", "insertVolume">>, <<"getVolume", "walk", "updateVolume", "reread">>,
               <<"deleteVolume">>, <<"setSettings">>,
               <<"lookup", "group", "password", "insertUser">>,
               <<"lock", "permUser", "permVolume", "permRow">>,
               <<"lock", "bulkCheck", "bulkPair">>, <<"unlock">>, <<"restart">>,
               <<"nextGrant">>, <<"useradd">>, <<"userdel">>, <<>>} : Idle(s)
  /\ \A s \in {RepairVolumeSteps, CleanupSteps, RepairAllSteps, ApplySteps} : Idle(s)
<1> USE DEF Idle, Has, Watched, Step, DbSteps, CmdSteps
<1>1. /\ Idle(<<"walk", "insertVolume">>)
      /\ Idle(<<"getVolume", "walk", "updateVolume", "reread">>)
      /\ Idle(<<"deleteVolume">>) /\ Idle(<<"setSettings">>)
  OBVIOUS
<1>2. /\ Idle(<<"lookup", "group", "password", "insertUser">>)
      /\ Idle(<<"lock", "permUser", "permVolume", "permRow">>)
      /\ Idle(<<"lock", "bulkCheck", "bulkPair">>)
  OBVIOUS
<1>3. /\ Idle(<<"unlock">>) /\ Idle(<<"restart">>) /\ Idle(<<"nextGrant">>)
      /\ Idle(<<"useradd">>) /\ Idle(<<"userdel">>) /\ Idle(<<>>)
  OBVIOUS
<1>4. Idle(RepairVolumeSteps) /\ Idle(CleanupSteps) /\ Idle(RepairAllSteps)
  BY DEF RepairVolumeSteps, CleanupSteps, RepairAllSteps
<1>5. Idle(ApplySteps)
  BY ApplyFollows DEF ApplySteps
<1> QED BY <1>1, <1>2, <1>3, <1>4, <1>5

\* How the watched steps of a handler stand when it begins.
Poised(s) ==
  /\ s \in Seq(Step) /\ Staged(s) /\ ~Has(s, "nextExpired")
  /\ Has(s, "flag") <=> Has(s, "setEnabled")
  /\ Has(s, "pdbDelete") <=> Has(s, "deleteUser")
  /\ \A x \in Watched : Has(s, x) => Has(s, "getUser")

LEMMA PoisedIdle ==
  /\ \A s : Idle(s) => Poised(s)
  /\ \A x, s : Poised(x) /\ Idle(s) => Poised(x \o s)
<1>1. ASSUME NEW s, Idle(s) PROVE Poised(s)
  BY <1>1, IdleStaged DEF Idle, Poised, Watched
<1>2. ASSUME NEW x, NEW s, Poised(x), Idle(s) PROVE Poised(x \o s)
  <2>1. Staged(x \o s) /\ x \o s \in Seq(Step)
    BY <1>2, IdleStaged DEF Poised
  <2>2. \A e \in Watched \cup {"getUser"} : Has(x \o s, e) <=> Has(x, e)
    BY <1>2, ConcatHas DEF Poised, Idle
  <2> QED BY <1>2, <2>1, <2>2 DEF Poised, Watched
<1> QED BY <1>1, <1>2

LEMMA HandlerPoised == \A op, s : Handler(op, s) => Poised(s)
<1>1. Idle(ApplySteps) /\ Idle(<<"unlock">>) /\ Idle(<<"restart">>) /\ Idle(<<"userdel">>)
      /\ Idle(<<"nextGrant">>)
  BY IdlePieces
<1>2. /\ Idle(CreateVolumeSteps) /\ Idle(UpdateVolumeSteps) /\ Idle(DeleteVolumeSteps)
      /\ Idle(RepairVolumeSteps) /\ Idle(ReloadSteps) /\ Idle(RestartSteps)
      /\ Idle(SettingsSteps)
  BY IdlePieces, IdleStaged DEF CreateVolumeSteps, UpdateVolumeSteps, DeleteVolumeSteps,
     ReloadSteps, RestartSteps, SettingsSteps
<1>3. Idle(SetPermissionSteps)
  <2>1. Idle(<<"lock", "permUser", "permVolume", "permRow">> \o ApplySteps)
    BY IdlePieces, IdleStaged
  <2> QED BY <1>1, <2>1, IdleStaged DEF SetPermissionSteps
<1>4. Idle(BulkSteps)
  <2>1. Idle(<<"lock", "bulkCheck", "bulkPair">> \o ApplySteps)
    BY IdlePieces, IdleStaged
  <2> QED BY <1>1, <2>1, IdleStaged DEF BulkSteps
<1>5. Idle(CreateUserSteps) /\ \A g \in BOOLEAN : Idle(CreateTemporaryUserSteps(g))
  <2> DEFINE c == <<"lookup", "group", "password", "insertUser">>
  <2>1. Idle(c)
    BY IdlePieces
  <2>2. /\ CreateUserSteps = c \o ApplySteps
        /\ \A g \in BOOLEAN :
             CreateTemporaryUserSteps(g) \in {c \o <<"nextGrant">>, c \o ApplySteps}
    BY DEF CreateUserSteps, CreateTemporaryUserSteps
  <2> HIDE DEF c
  <2>3. Idle(c \o ApplySteps) /\ Idle(c \o <<"nextGrant">>)
    BY <1>1, <2>1, IdleStaged
  <2> QED BY <2>2, <2>3
<1> DEFINE u == <<"getUser", "setEnabled", "reread", "flag">>
           e == <<"getUser", "flag", "setEnabled">>
           d == <<"getUser", "pdbDelete", "deleteUser">>
<1>6. Poised(u) /\ Poised(e) /\ Poised(d) /\ Poised(ChangePasswordSteps)
  <2> USE DEF Step, DbSteps, CmdSteps, Has, Watched
  <2>1. /\ u \in Seq(Step) /\ e \in Seq(Step) /\ d \in Seq(Step)
        /\ ChangePasswordSteps \in Seq(Step)
    BY DEF ChangePasswordSteps
  <2>2. /\ Has(u, "getUser") /\ Has(u, "flag") /\ Has(u, "setEnabled")
        /\ ~Has(u, "nextExpired") /\ ~Has(u, "pdbDelete") /\ ~Has(u, "deleteUser")
    OBVIOUS
  <2>3. /\ Has(e, "getUser") /\ Has(e, "flag") /\ Has(e, "setEnabled")
        /\ ~Has(e, "nextExpired") /\ ~Has(e, "pdbDelete") /\ ~Has(e, "deleteUser")
    OBVIOUS
  <2>4. /\ Has(d, "getUser") /\ Has(d, "pdbDelete") /\ Has(d, "deleteUser")
        /\ ~Has(d, "nextExpired") /\ ~Has(d, "flag") /\ ~Has(d, "setEnabled")
    OBVIOUS
  <2>5. \A x \in Watched : ~Has(ChangePasswordSteps, x)
    BY DEF ChangePasswordSteps
  <2>6. Staged(u) /\ Staged(e) /\ Staged(d) /\ Staged(ChangePasswordSteps)
    BY DEF Staged, MayFollow, ChangePasswordSteps
  <2> HIDE DEF Has, u, e, d
  <2> QED BY <2>1, <2>2, <2>3, <2>4, <2>5, <2>6 DEF Poised
<1>7. /\ UpdateUserSteps = u \o ApplySteps /\ SetUserEnabledSteps = e \o ApplySteps
      /\ DeleteUserSteps = (d \o ApplySteps) \o <<"userdel">>
  BY DEF UpdateUserSteps, SetUserEnabledSteps, DeleteUserSteps
<1> HIDE DEF u, e, d
<1>8. Poised(u \o ApplySteps) /\ Poised(e \o ApplySteps) /\ Poised(d \o ApplySteps)
  BY <1>1, <1>6, PoisedIdle
<1>9. Poised((d \o ApplySteps) \o <<"userdel">>)
  BY <1>1, <1>8, PoisedIdle
<1>10. Poised(UpdateUserSteps) /\ Poised(SetUserEnabledSteps) /\ Poised(DeleteUserSteps)
       /\ Poised(ChangePasswordSteps)
  BY <1>6, <1>7, <1>8, <1>9
<1> QED BY <1>2, <1>3, <1>4, <1>5, <1>10, PoisedIdle DEF Handler

\* Handlers stay so, and only the cleanup takes on more than it had to do.
LEMMA AdvancesStaged ==
  ASSUME ProcInv, NEW p \in Proc, Staged(prog[p]), Advances(p)
  PROVE  /\ Staged(prog'[p]) /\ ~Has(prog'[p], "getUser")
         /\ \A x \in Watched : Has(prog'[p], x) =>
              \/ Has(prog[p], x)
              \/ At(p, "selectExpired") /\ x = "nextExpired"
              \/ At(p, "nextExpired") /\ x \in {"pdbDelete", "deleteUser"}
<1> DEFINE old == prog[p]
           t == Tail(old)
           new == prog'[p]
           Goes == /\ Staged(new) /\ ~Has(new, "getUser")
                   /\ \A x \in Watched : Has(new, x) =>
                        \/ Has(old, x)
                        \/ At(p, "selectExpired") /\ x = "nextExpired"
                        \/ At(p, "nextExpired") /\ x \in {"pdbDelete", "deleteUser"}
<1>0. old \in Seq(Step) /\ Staged(old)
  BY DEF ProcInv
<1>1. old # <<>> =>
        /\ Staged(t) /\ t \in Seq(Step)
        /\ \A x : /\ Has(t, x) => Has(old, x) /\ MayFollow(Head(old), x)
                  /\ Has(old, x) => x = Head(old) \/ Has(t, x)
  BY <1>0, TailStaged
<1>2. old # <<>> => ~Has(t, "getUser")
  BY <1>1 DEF MayFollow
<1>n. ASSUME NEW s, prog' = [prog EXCEPT ![p] = s]
      PROVE  new = s
  BY <1>n DEF ProcInv
<1> SUFFICES Goes
  OBVIOUS
<1>i. ASSUME NEW s, new = s, Idle(s) PROVE Goes
  BY <1>i, IdleStaged DEF Idle
\* Idle steps in front of what is left.
<1>c. ASSUME NEW x, NEW s, new = x \o s, Idle(x), s \in Seq(Step), Staged(s),
             \A e \in Watched \cup {"getUser"} : ~Has(s, e)
      PROVE  Goes
  <2>1. Idle(s)
    BY <1>c DEF Idle
  <2> QED BY <1>c, <1>i, <2>1, IdleStaged
<1> HIDE DEF Goes, t, old, new
\* A step before which nothing is watched.
<1>b. ASSUME NEW h, At(p, h), h \notin {"getUser", "reread", "userdel"} \cup Watched
      PROVE  /\ old # <<>>
             /\ \A e \in Watched \cup {"getUser"} : ~Has(old, e) /\ ~Has(t, e)
  <2>1. old # <<>> /\ Head(old) = h
    BY <1>b DEF At, old
  <2>2. ASSUME NEW e \in Watched \cup {"getUser"}, Has(t, e) PROVE FALSE
    <3>1. MayFollow(h, e)
      BY <1>1, <2>1, <2>2
    <3> QED BY <1>b, <3>1 DEF MayFollow, Watched
  <2> QED BY <1>1, <1>b, <2>1, <2>2
<1>4. CASE old # <<>> /\ prog' = [prog EXCEPT ![p] = t]
  <2>1. new = t
    BY <1>4, <1>n
  <2> QED BY <1>1, <1>2, <1>4, <2>1 DEF Goes
<1>5. CASE prog' = [prog EXCEPT ![p] = Unwind(p)]
  <2>1. Idle(Unwind(p))
    BY IdlePieces DEF Unwind
  <2> QED BY <1>5, <1>i, <1>n, <2>1
<1>6. CASE mu = p /\ prog' = [prog EXCEPT ![p] = Unwind(p) \o <<"nextGrant">>]
  <2>1. Idle(Unwind(p)) /\ Idle(<<"nextGrant">>)
    BY IdlePieces DEF Unwind
  <2> QED BY <1>6, <1>i, <1>n, <2>1, IdleStaged
<1>7. CASE At(p, "lookup") /\ prog' = [prog EXCEPT ![p] = <<"useradd">> \o t]
  <2>1. old # <<>> /\ \A e \in Watched \cup {"getUser"} : ~Has(t, e)
    BY <1>7, <1>b DEF Watched
  <2>2. Idle(<<"useradd">>) /\ new = <<"useradd">> \o t
    BY <1>7, <1>n, IdlePieces
  <2> QED BY <1>1, <1>c, <2>1, <2>2
<1>8. CASE /\ At(p, "selectExpired")
           /\ prog' = [prog EXCEPT ![p] = (<<"nextExpired">> \o ApplySteps) \o t]
  <2>1. old # <<>> /\ \A e \in Watched \cup {"getUser"} : ~Has(t, e)
    BY <1>8, <1>b DEF Watched
  <2> DEFINE n == <<"nextExpired">>
             x == n \o ApplySteps
  <2>2. n \in Seq(Step) /\ Staged(n) /\ \A e : Has(n, e) => e = "nextExpired"
    BY DEF Step, Staged, Has
  <2>3. Idle(t) /\ Idle(ApplySteps)
    BY <1>1, <2>1, IdlePieces DEF Idle
  <2> HIDE DEF n
  <2>4. /\ x \in Seq(Step) /\ Staged(x)
        /\ \A e \in Watched \cup {"getUser"} : Has(x, e) => e = "nextExpired"
    BY <2>2, <2>3, IdleStaged, ConcatHas DEF Idle
  <2> HIDE DEF x
  <2>5. /\ Staged(x \o t)
        /\ \A e \in Watched \cup {"getUser"} : Has(x \o t, e) => e = "nextExpired"
    BY <2>3, <2>4, IdleStaged, ConcatHas DEF Idle
  <2>6. new = x \o t
    BY <1>8, <1>n DEF x, n
  <2> QED BY <1>8, <2>5, <2>6 DEF Goes
<1>9. CASE At(p, "nextExpired") /\ prog' = [prog EXCEPT ![p] = ExpiredSteps \o old]
  <2>1. old # <<>> /\ Head(old) = "nextExpired"
    BY <1>9 DEF At, old
  <2>2. \A b : Has(old, b) /\ b \in Watched \cup {"getUser"} => b = "nextExpired"
    BY <1>1, <2>1 DEF MayFollow
  <2>3. ExpiredSteps \in Seq(Step) /\ Staged(ExpiredSteps)
    BY DEF ExpiredSteps, Step, DbSteps, CmdSteps, Staged, MayFollow, Watched
  <2>4. \A a : Has(ExpiredSteps, a) => a \in {"pdbDelete", "deleteUser", "userdel"}
    BY DEF ExpiredSteps, Has
  <2>5. ASSUME NEW a, NEW b, Has(ExpiredSteps, a), Has(old, b) PROVE MayFollow(a, b)
    BY <2>2, <2>4, <2>5 DEF MayFollow
  <2>6. Staged(ExpiredSteps \o old)
    BY <1>0, <2>3, <2>5, ConcatStaged
  <2>7. \A e \in Watched \cup {"getUser"} : Has(ExpiredSteps \o old, e) =>
          e # "getUser" /\ (Has(old, e) \/ e \in {"pdbDelete", "deleteUser"})
    BY <1>0, <2>2, <2>3, <2>4, ConcatHas DEF Watched
  <2>8. new = ExpiredSteps \o old
    BY <1>9, <1>n
  <2> QED BY <1>9, <2>6, <2>7, <2>8 DEF Goes
<1>10. CASE At(p, "nextGrant") /\ prog' = [prog EXCEPT ![p] = SetPermissionSteps \o old]
  <2>1. \A e \in Watched \cup {"getUser"} : ~Has(old, e)
    BY <1>10, <1>b DEF Watched
  <2>2. Idle(SetPermissionSteps)
    <3>1. Idle(<<"lock", "permUser", "permVolume", "permRow">> \o ApplySteps)
      BY IdlePieces, IdleStaged
    <3> QED BY <3>1, IdlePieces, IdleStaged DEF SetPermissionSteps
  <2>3. new = SetPermissionSteps \o old
    BY <1>10, <1>n
  <2> QED BY <1>0, <1>c, <2>1, <2>2, <2>3
<1>11. CASE At(p, "bulkPair") /\ prog' = [prog EXCEPT ![p] = old]
  <2>1. \A e \in Watched \cup {"getUser"} : ~Has(old, e)
    BY <1>11, <1>b DEF Watched
  <2>2. new = old
    BY <1>11, <1>n
  <2> QED BY <1>0, <2>1, <2>2 DEF Goes
<1> QED BY <1>4, <1>5, <1>6, <1>7, <1>8, <1>9, <1>10, <1>11 DEF Advances, t, old

LEMMA AtStaged ==
  ASSUME ProcInv, NEW p \in Proc, Staged(prog[p]), NEW h, At(p, h)
  PROVE  /\ Has(prog[p], h) /\ (h # "getUser" => ~Has(prog[p], "getUser"))
         /\ \A x \in Watched : Has(prog[p], x) => x = h \/ MayFollow(h, x)
         /\ h \notin Watched \cup {"getUser", "reread", "userdel"} =>
              \A x \in Watched : ~Has(prog[p], x)
         /\ prog'[p] = Tail(prog[p]) =>
              \A x \in Watched : Has(prog'[p], x) <=> Has(prog[p], x) /\ x # h
<1>1. prog[p] \in Seq(Step) /\ prog[p] # <<>> /\ Head(prog[p]) = h
  BY DEF ProcInv, At
<1>2. /\ Has(prog[p], h)
      /\ \A x : /\ Has(Tail(prog[p]), x) => Has(prog[p], x) /\ MayFollow(h, x)
                /\ Has(prog[p], x) => x = h \/ Has(Tail(prog[p]), x)
  BY <1>1, TailStaged
<1>3. ~MayFollow(h, "getUser") /\ (h \in Watched => ~MayFollow(h, h))
  BY DEF MayFollow, Watched
<1>4. ASSUME NEW x \in Watched, h \notin Watched \cup {"getUser", "reread", "userdel"}
      PROVE  ~MayFollow(h, x) /\ x # h
  BY <1>4 DEF MayFollow, Watched
<1> QED BY <1>2, <1>3, <1>4

-----------------------------------------------------------------------------
(* Whose flag disagrees with the row. *)

\* Somebody is to delete the row, whatever becomes of its flag until then.
Dooms(q, u) ==
  \/ Has(prog[q], "deleteUser") /\ job[q].uid = u.id
  \/ Has(prog[q], "nextExpired") /\ \E r \in job[q].rows : r.id = u.id

Doomed(u) == \E q \in Proc : Dooms(q, u)

\* Of the row and the flag, q has changed one and is to change the other.
Due(q, u) ==
  /\ job[q].uid = u.id
  /\ ~(Has(prog[q], "flag") <=> Has(prog[q], "setEnabled"))

Flag(on) == IF on THEN "on" ELSE "off"

\* The flag agrees with the row, but for what somebody is about to do.
Agrees(u) ==
  \/ Doomed(u)
  \/ /\ passdb[u.name] # "none"
     /\ \A q \in Proc : Due(q, u) =>
          IF Has(prog[q], "flag") THEN u.enabled = job[q].on
                                  ELSE passdb[u.name] = Flag(job[q].on)
     /\ (\A q \in Proc : ~Due(q, u)) => passdb[u.name] = Flag(u.enabled)

\* A flag outlives its row under a name that is never used again, or not at all.
NotOff == \A n \in Name :
  passdb[n] = "off" /\ ~Bears(n) => n \in TempName /\ n \in issued

\* A handler that is to change a user has found its name.
Found(q) ==
  /\ \E x \in Watched \ {"nextExpired"} : Has(prog[q], x)
  /\ ~Has(prog[q], "getUser")
  => /\ job[q].uid < nextUser
     /\ \A u \in users : u.id = job[q].uid <=> u.name = job[q].name
     /\ Has(prog[q], "flag") /\ job[q].name \in PlainName => Bears(job[q].name)

\* One that is to delete a row deletes the flag before.
Cleared(q) ==
  /\ Has(prog[q], "pdbDelete") => Has(prog[q], "deleteUser")
  /\ Has(prog[q], "deleteUser") /\ ~Has(prog[q], "pdbDelete") =>
       /\ ~Has(prog[q], "getUser")
       /\ job[q].name \in PlainName => passdb[job[q].name] # "off"

Rowed(q) == Has(prog[q], "nextExpired") => \A r \in job[q].rows :
  r.id < nextUser /\ \A u \in users : u.id = r.id => u.name = r.name

\* A row to come finds its flag on.
Awaited(q) == Has(prog[q], "insertUser") =>
  /\ \A x \in Watched : ~Has(prog[q], x)
  /\ passdb[job[q].name] # "off" \/ Bears(job[q].name)
  /\ Head(prog[q]) = "insertUser" => passdb[job[q].name] # "none"

Local(q) ==
  /\ Staged(prog[q]) /\ Found(q) /\ Cleared(q) /\ Rowed(q) /\ Awaited(q)
  /\ q \notin Worker => ~Has(prog[q], "flag") /\ ~Has(prog[q], "setEnabled")

FlagInv == NotOff /\ (\A u \in users : Agrees(u)) /\ \A q \in Proc : Local(q)

-----------------------------------------------------------------------------
(* What a step of p leaves to the others. *)

\* A step changes the row and the flag of its own user only, those of a user
\* with a plain name only for a request.
Mild(p) ==
  /\ nextUser' \in {nextUser, nextUser + 1}
  /\ \A w \in users' :
       \/ \E u \in users : u.id = w.id /\ u.name = w.name
       \/ w.id = nextUser /\ w.name = job[p].name /\ Has(prog[p], "insertUser")
  /\ \A n \in Name :
       /\ passdb'[n] = "off" => passdb[n] = "off" \/ (n = job[p].name /\ p \in Worker)
       /\ passdb'[n] = "none" => passdb[n] = "none" \/ n = job[p].name
  /\ \A n : Bears(n) => \/ \E u \in users' : u.name = n
                        \/ n = job[p].name /\ (p \in Worker \/ n \in TempName)

LEMMA LocalOthers ==
  ASSUME OneAdministrator, IInv, AccountInv, NEW p \in Proc, Others(p), Mild(p),
         NEW q \in Proc \ {p}, Local(q)
  PROVE  Local(q)'
<1>1. /\ prog'[q] = prog[q] /\ job'[q] = job[q]
      /\ p \in Worker => q \notin Worker
  BY DEF Others, OneAdministrator
<1>2. /\ nextUser \in Nat /\ nextUser' \in {nextUser, nextUser + 1}
      /\ job[q].uid \in Nat /\ \A r \in job[q].rows : r.id \in Nat
  BY DEF IInv, DataInv, StoreInv, StoreTypeOK, ProcInv, SafeJob, Job, UserRow, UserId, Mild
<1>3. /\ PlainName \subseteq Name /\ PlainName \cap TempName = {} /\ NoName \notin PlainName
  BY NameAssumption
<1>4. JobNames(q) /\ Reserved(q) /\ Reserved(p)
  BY DEF AccountInv
<1>5. Found(q)'
  <2> SUFFICES ASSUME /\ \E x \in Watched \ {"nextExpired"} : Has(prog[q], x)
                      /\ ~Has(prog[q], "getUser")
               PROVE  /\ job[q].uid < nextUser'
                      /\ \A u \in users' : u.id = job[q].uid <=> u.name = job[q].name
                      /\ Has(prog[q], "flag") /\ job[q].name \in PlainName
                           => \E u \in users' : u.name = job[q].name
    BY <1>1 DEF Found, Bears
  <2>1. /\ job[q].uid < nextUser
        /\ \A u \in users : u.id = job[q].uid <=> u.name = job[q].name
        /\ Has(prog[q], "flag") /\ job[q].name \in PlainName => Bears(job[q].name)
    BY DEF Local, Found
  <2>2. job[q].uid < nextUser' /\ job[q].uid # nextUser
    BY <1>2, <2>1
  <2>3. \A u \in users' : u.id = job[q].uid <=> u.name = job[q].name
    BY <1>4, <2>1, <2>2 DEF Mild, Reserved
  <2>4. ASSUME Has(prog[q], "flag"), job[q].name \in PlainName
        PROVE  \E u \in users' : u.name = job[q].name
    <3>1. q \in Worker /\ p \notin Worker
      BY <1>1, <2>4 DEF Local
    <3> QED BY <1>3, <2>1, <2>4, <3>1 DEF Mild
  <2> QED BY <2>2, <2>3, <2>4
<1>6. Cleared(q)'
  <2>1. ASSUME job[q].name \in PlainName, passdb[job[q].name] # "off"
        PROVE  passdb'[job[q].name] # "off"
    BY <1>1, <1>3, <1>4, <2>1 DEF Mild, JobNames
  <2> QED BY <1>1, <2>1 DEF Local, Cleared
<1>7. Rowed(q)'
  <2> SUFFICES ASSUME Has(prog[q], "nextExpired"), NEW r \in job[q].rows
               PROVE  r.id < nextUser' /\ \A u \in users' : u.id = r.id => u.name = r.name
    BY <1>1 DEF Rowed
  <2>1. r.id < nextUser /\ \A u \in users : u.id = r.id => u.name = r.name
    BY DEF Local, Rowed
  <2>2. r.id < nextUser' /\ r.id # nextUser
    BY <1>2, <2>1
  <2> QED BY <2>1, <2>2 DEF Mild
<1>8. Awaited(q)'
  <2> SUFFICES ASSUME Has(prog[q], "insertUser")
               PROVE  /\ \A x \in Watched : ~Has(prog[q], x)
                      /\ \/ passdb'[job[q].name] # "off"
                         \/ \E u \in users' : u.name = job[q].name
                      /\ Head(prog[q]) = "insertUser" => passdb'[job[q].name] # "none"
    BY <1>1 DEF Awaited, Bears
  <2>1. job[q].name \in Name /\ job[q].name # job[p].name
    BY <1>4 DEF Reserved
  <2>2. /\ \A x \in Watched : ~Has(prog[q], x)
        /\ passdb[job[q].name] # "off" \/ Bears(job[q].name)
        /\ Head(prog[q]) = "insertUser" => passdb[job[q].name] # "none"
    BY DEF Local, Awaited
  <2> QED BY <2>1, <2>2 DEF Mild
<1> QED BY <1>1, <1>5, <1>6, <1>7, <1>8 DEF Local

\* p owes u what it owed before.
SameDuty(p, u) ==
  /\ Dooms(p, u) => Dooms(p, u)'
  /\ Due(p, u)' <=> Due(p, u)
  /\ Due(p, u) => /\ job'[p].on = job[p].on
                  /\ Has(prog'[p], "flag") <=> Has(prog[p], "flag")

LEMMA AgreesKept ==
  ASSUME NEW p \in Proc, Others(p), NEW u, Agrees(u), SameDuty(p, u),
         NEW w, w.id = u.id, w.name = u.name, w.enabled = u.enabled,
         \/ passdb'[u.name] = passdb[u.name]
         \/ passdb[u.name] = "none" /\ passdb'[u.name] # "none"
  PROVE  Agrees(w)'
<1>1. ASSUME Doomed(u) PROVE Doomed(w)'
  <2>1. PICK q \in Proc : Dooms(q, u)
    BY <1>1 DEF Doomed
  <2>2. Dooms(q, u)'
    BY <2>1 DEF SameDuty, Others, Dooms
  <2> QED BY <2>2 DEF Doomed, Dooms
<1>2. ASSUME NEW q \in Proc
      PROVE  /\ Due(q, w)' <=> Due(q, u)
             /\ Due(q, u) => /\ job'[q].on = job[q].on
                             /\ Has(prog'[q], "flag") <=> Has(prog[q], "flag")
  <2>1. CASE q = p
    BY <2>1 DEF SameDuty, Due
  <2>2. CASE q # p
    BY <2>2 DEF Others, Due
  <2> QED BY <2>1, <2>2
<1> HIDE DEF Due
<1>3. CASE ~Doomed(u)
  <2>1. /\ passdb[u.name] # "none"
        /\ \A q \in Proc : Due(q, u) =>
             IF Has(prog[q], "flag") THEN u.enabled = job[q].on
                                     ELSE passdb[u.name] = Flag(job[q].on)
        /\ (\A q \in Proc : ~Due(q, u)) => passdb[u.name] = Flag(u.enabled)
    BY <1>3 DEF Agrees
  <2>2. passdb'[w.name] = passdb[u.name] /\ passdb'[w.name] # "none"
    BY <2>1
  <2>3. ASSUME NEW q \in Proc, Due(q, w)'
        PROVE  IF Has(prog'[q], "flag") THEN w.enabled = job'[q].on
                                        ELSE passdb'[w.name] = Flag(job'[q].on)
    BY <1>2, <2>1, <2>2, <2>3
  <2>4. (\A q \in Proc : ~Due(q, w)') => passdb'[w.name] = Flag(w.enabled)
    BY <1>2, <2>1, <2>2
  <2> QED BY <2>2, <2>3, <2>4 DEF Agrees, Flag
<1> QED BY <1>1, <1>3 DEF Agrees

LEMMA StillFlags ==
  ASSUME OneAdministrator, IInv, AccountInv, FlagInv, NEW p \in Proc, Others(p),
         users' = users, nextUser' = nextUser, issued \subseteq issued',
         \A n \in Name : \/ passdb'[n] = passdb[n]
                         \/ passdb[n] = "none" /\ passdb'[n] = "on",
         \A u \in users : SameDuty(p, u) \/ Agrees(u)', Local(p)'
  PROVE  FlagInv'
<1>1. Mild(p)
  BY DEF Mild, Bears
<1>2. \A q \in Proc : Local(q)'
  BY <1>1, LocalOthers DEF FlagInv
<1>3. NotOff'
  BY DEF FlagInv, NotOff, Bears
<1>4. ASSUME NEW u \in users, SameDuty(p, u) PROVE Agrees(u)'
  <2>1. Agrees(u) /\ u.name \in Name
    BY DEF FlagInv, IInv, DataInv, StoreInv, StoreTypeOK, UserRow
  <2>2. passdb'[u.name] = passdb[u.name] \/ (passdb[u.name] = "none" /\ passdb'[u.name] # "none")
    BY <2>1
  <2> QED BY <1>4, <2>1, <2>2, AgreesKept
<1> QED BY <1>2, <1>3, <1>4 DEF FlagInv

\* How p's handler stands after a step.
Turn(p) ==
  /\ Others(p) /\ Ahead(p) /\ Staged(prog'[p]) /\ ~Has(prog'[p], "getUser")
  /\ \A x \in Watched : Has(prog'[p], x) =>
       \/ Has(prog[p], x)
       \/ At(p, "selectExpired") /\ x = "nextExpired"
       \/ At(p, "nextExpired") /\ x \in {"pdbDelete", "deleteUser"}

LEMMA TurnKeeps ==
  ASSUME NEW p \in Proc, Turn(p), Local(p)
  PROVE  /\ Has(prog'[p], "insertUser") =>
              /\ Has(prog[p], "insertUser") /\ Head(prog[p]) # "insertUser"
              /\ \A x \in Watched : ~Has(prog[p], x) /\ ~Has(prog'[p], x)
         /\ p \notin Worker => ~Has(prog'[p], "flag") /\ ~Has(prog'[p], "setEnabled")
<1>1. ASSUME Has(prog'[p], "insertUser")
      PROVE  /\ Has(prog[p], "insertUser") /\ Head(prog[p]) # "insertUser"
             /\ \A x \in Watched : ~Has(prog[p], x)
             /\ ~At(p, "selectExpired") /\ ~At(p, "nextExpired")
  BY <1>1 DEF Turn, Ahead, Picking, At, Local, Awaited
<1> QED BY <1>1 DEF Turn, Local, Watched

\* A step that does nothing about users and flags, or adds a flag that is on.
Rests(p) ==
  /\ users' = users /\ nextUser' = nextUser
  /\ \A n \in Name : \/ passdb'[n] = passdb[n]
                     \/ passdb[n] = "none" /\ passdb'[n] = "on"
  /\ At(p, "password") /\ job[p].name \in Name =>
       passdb'[job[p].name] # "none" \/ Neutral(prog'[p])
  /\ \E h \in Step \ (Watched \cup {"getUser", "selectExpired"}) :
       At(p, h) /\ (h \in {"reread", "userdel"} => Done(p))

LEMMA RestsKeeps ==
  ASSUME OneAdministrator, IInv, AccountInv, FlagInv, NEW p \in Proc, Turn(p), Rests(p),
         Calm(p) \/ At(p, "insertUser"), issued' = issued
  PROVE  FlagInv'
<1>0. Local(p) /\ ProcInv
  BY DEF FlagInv, IInv
<1>1. PICK h \in Step \ (Watched \cup {"getUser", "selectExpired"}) :
        At(p, h) /\ (h \in {"reread", "userdel"} => Done(p))
  BY DEF Rests
<1>2. prog[p] # <<>> /\ Head(prog[p]) = h /\ Staged(prog[p]) /\ ~Has(prog[p], "getUser")
  BY <1>0, <1>1, AtStaged DEF At, Local
<1>3. \/ \A x \in Watched : ~Has(prog[p], x) /\ ~Has(prog'[p], x)
      \/ /\ \A x \in Watched : Has(prog'[p], x) <=> Has(prog[p], x)
         /\ job'[p] = job[p]
  <2>1. CASE h \notin {"reread", "userdel"}
    <3>1. ~At(p, "selectExpired") /\ ~At(p, "nextExpired")
      BY <1>1, <1>2 DEF At, Watched
    <3>2. \A x \in Watched : ~Has(prog[p], x)
      BY <1>0, <1>1, <1>2, <2>1, AtStaged
    <3> QED BY <3>1, <3>2 DEF Turn
  <2>2. CASE h \in {"reread", "userdel"}
    <3>1. /\ prog'[p] = Tail(prog[p])
          /\ job'[p] = IF Tail(prog[p]) = <<>> THEN NoJob ELSE job[p]
      BY <1>0, <1>1, <2>2 DEF Done, Continue, Goto, ProcInv
    <3>2. \A x \in Watched : Has(prog'[p], x) <=> Has(prog[p], x)
      BY <1>0, <1>1, <1>2, <3>1, AtStaged
    <3>3. ~\E x : Has(<<>>, x)
      BY DEF Has
    <3> QED BY <3>1, <3>2, <3>3
  <2> QED BY <2>1, <2>2
<1>4. \A u \in users : SameDuty(p, u)
  BY <1>3 DEF SameDuty, Dooms, Due, Watched
<1>5. Found(p)' /\ Rowed(p)'
  BY <1>0, <1>2, <1>3 DEF Rests, Found, Rowed, Local, Watched, Bears
<1>6. Cleared(p)'
  <2>1. CASE \A x \in Watched : ~Has(prog'[p], x)
    BY <2>1 DEF Cleared, Watched
  <2>2. CASE /\ \A x \in Watched : Has(prog'[p], x) <=> Has(prog[p], x)
             /\ job'[p] = job[p]
    <3>1. PlainName \subseteq Name
      BY NameAssumption
    <3> QED BY <1>0, <2>2, <3>1 DEF Cleared, Local, Watched, Rests, Turn
  <2> QED BY <1>3, <2>1, <2>2
<1>7. Awaited(p)'
  <2> SUFFICES ASSUME Has(prog'[p], "insertUser")
               PROVE  /\ \/ passdb'[job'[p].name] # "off"
                         \/ \E u \in users' : u.name = job'[p].name
                      /\ Head(prog'[p]) = "insertUser" => passdb'[job'[p].name] # "none"
    BY <1>0, TurnKeeps DEF Awaited, Bears
  <2>1. Has(prog[p], "insertUser") /\ h # "insertUser"
    BY <1>0, <1>2, TurnKeeps
  <2>2. /\ passdb[job[p].name] # "off" \/ Bears(job[p].name)
        /\ job[p].name \in Name
    BY <1>0, <2>1 DEF Local, Awaited, AccountInv, Reserved
  <2>3. job'[p].name = job[p].name
    <3>1. KeepsName(p) /\ prog'[p] # <<>>
      BY <1>1, <1>2, <2>1 DEF Calm, At, Has
    <3> QED BY <3>1 DEF KeepsName, SameName
  <2>4. Head(prog'[p]) = "insertUser" => At(p, "password") /\ ~Neutral(prog'[p])
    BY <1>2 DEF Turn, Ahead, At, Neutral
  <2> QED BY <2>2, <2>3, <2>4 DEF Rests, Bears
<1>8. Local(p)'
  BY <1>0, <1>5, <1>6, <1>7, TurnKeeps DEF Local, Turn
<1> QED BY <1>4, <1>8, StillFlags DEF Rests, Turn

LEMMA NotAwaited ==
  ASSUME NEW p \in Proc, Turn(p), Local(p), NEW h \in Picking \cup Watched \cup {"insertUser"},
         At(p, h), ProcInv
  PROVE  ~Has(prog'[p], "insertUser") /\ Awaited(p)'
<1>1. Has(prog[p], h) /\ Head(prog[p]) = h
  BY AtStaged DEF Local, At
<1>2. h \in Picking \cup {"insertUser"} => ~Has(prog'[p], "insertUser")
  BY <1>1 DEF Turn, Ahead
<1>3. h \in Watched => ~Has(prog[p], "insertUser")
  BY <1>1 DEF Local, Awaited
<1>4. ~Has(prog'[p], "insertUser")
  BY <1>2, <1>3, TurnKeeps
<1> QED BY <1>4 DEF Awaited

\* A user is looked up: a request that finds none is over.
FlagGets(p) ==
  /\ At(p, "getUser") /\ UNCHANGED <<users, nextUser, passdb, issued>>
  /\ \/ /\ \A x \in Watched : ~Has(prog'[p], x)
        /\ \A u \in users : u.id # job[p].uid
     \/ /\ prog'[p] = Tail(prog[p])
        /\ \/ prog'[p] = <<>>
           \/ /\ job'[p].uid = job[p].uid /\ job'[p].on = job[p].on /\ job'[p].rows = job[p].rows
              /\ \E u \in users : u.id = job[p].uid /\ u.name = job'[p].name

LEMMA FlagGetsKeeps ==
  ASSUME OneAdministrator, IInv, AccountInv, FlagInv, NEW p \in Proc, Turn(p), FlagGets(p)
  PROVE  FlagInv'
<1>0. Local(p) /\ ProcInv /\ StoreInv
  BY DEF FlagInv, IInv, DataInv
<1>1. At(p, "getUser") /\ UNCHANGED <<users, nextUser, passdb, issued>>
  BY DEF FlagGets
<1>2. Has(prog[p], "getUser") /\ ~Has(prog[p], "nextExpired")
  BY <1>0, <1>1, AtStaged DEF Local, MayFollow, Watched
<1>e. ~\E x : Has(<<>>, x)
  BY DEF Has
<1>3. Awaited(p)'
  BY <1>0, <1>1, NotAwaited DEF Picking
<1>4. CASE \A x \in Watched : ~Has(prog'[p], x)
  <2>1. \A u \in users : u.id # job[p].uid \/ \A x \in Watched : ~Has(prog[p], x)
    <3>1. CASE \A u \in users : u.id # job[p].uid
      BY <3>1
    <3>2. CASE prog'[p] = Tail(prog[p])
      <4>1. \A x \in Watched : Has(prog'[p], x) <=> Has(prog[p], x) /\ x # "getUser"
        BY <1>0, <1>1, <3>2, AtStaged DEF Local
      <4> QED BY <1>4, <4>1 DEF Watched
    <3> QED BY <3>1, <3>2 DEF FlagGets
  <2>2. \A u \in users : SameDuty(p, u)
    BY <1>2, <1>4, <2>1 DEF SameDuty, Dooms, Due, Watched
  <2>3. Found(p)' /\ Cleared(p)' /\ Rowed(p)'
    BY <1>4 DEF Found, Cleared, Rowed, Watched
  <2>4. Local(p)'
    BY <1>0, <1>3, <2>3, TurnKeeps DEF Local, Turn
  <2> QED BY <1>1, <2>2, <2>4, StillFlags DEF Turn
<1>5. CASE /\ prog'[p] = Tail(prog[p])
           /\ job'[p].uid = job[p].uid /\ job'[p].on = job[p].on /\ job'[p].rows = job[p].rows
           /\ \E u \in users : u.id = job[p].uid /\ u.name = job'[p].name
  <2>1. \A x \in Watched : Has(prog'[p], x) <=> Has(prog[p], x)
    <3>1. \A x \in Watched : Has(prog'[p], x) <=> Has(prog[p], x) /\ x # "getUser"
      BY <1>0, <1>1, <1>5, AtStaged DEF Local
    <3> QED BY <3>1 DEF Watched
  <2>2. \A u \in users : SameDuty(p, u)
    BY <1>5, <2>1 DEF SameDuty, Dooms, Due, Watched
  <2>3. Rowed(p)' /\ Cleared(p)'
    BY <1>0, <1>1, <1>2, <2>1 DEF Local, Rowed, Cleared, Watched
  <2>4. Found(p)'
    <3>1. PICK u \in users : u.id = job[p].uid /\ u.name = job'[p].name
      BY <1>5
    <3>2. /\ u.id < nextUser
          /\ \A w \in users : w.id = u.id <=> w.name = u.name
      BY <1>0 DEF StoreInv, KeysUnique
    <3> QED BY <1>1, <1>5, <3>1, <3>2 DEF Found, Bears
  <2>5. Local(p)'
    BY <1>0, <1>3, <2>3, <2>4, TurnKeeps DEF Local, Turn
  <2> QED BY <1>1, <2>2, <2>5, StillFlags DEF Turn
<1> QED BY <1>4, <1>5, <1>e DEF FlagGets

\* The cleanup looks up the users whose time is out, and takes one of them.
FlagSelects(p) ==
  /\ At(p, "selectExpired") /\ UNCHANGED <<users, nextUser, passdb, issued>>
  /\ job'[p].rows \subseteq users \/ prog'[p] = <<>>

FlagTakes(p) ==
  /\ At(p, "nextExpired") /\ UNCHANGED <<users, nextUser, passdb, issued>>
  /\ \/ prog'[p] = Tail(prog[p]) /\ job[p].rows = {}
     \/ /\ prog'[p] = ExpiredSteps \o prog[p]
        /\ \E r \in job[p].rows : /\ job'[p].uid = r.id /\ job'[p].name = r.name
                                  /\ job'[p].rows = job[p].rows \ {r}

LEMMA FlagSelectsKeeps ==
  ASSUME OneAdministrator, IInv, AccountInv, FlagInv, NEW p \in Proc, Turn(p), FlagSelects(p)
  PROVE  FlagInv'
<1>0. Local(p) /\ ProcInv /\ StoreInv
  BY DEF FlagInv, IInv, DataInv
<1>1. At(p, "selectExpired") /\ UNCHANGED <<users, nextUser, passdb, issued>>
  BY DEF FlagSelects
<1>2. \A x \in Watched : ~Has(prog[p], x)
  BY <1>0, <1>1, AtStaged DEF Local, Watched
<1>3. \A x \in Watched : Has(prog'[p], x) => x = "nextExpired"
  BY <1>1, <1>2 DEF Turn, At
<1>4. \A u \in users : SameDuty(p, u)
  BY <1>2, <1>3 DEF SameDuty, Dooms, Due, Watched
<1>5. Found(p)' /\ Cleared(p)'
  BY <1>3 DEF Found, Cleared, Watched
<1>6. Rowed(p)'
  <2>1. ~Has(<<>>, "nextExpired")
    BY DEF Has
  <2>2. job'[p].rows \subseteq users => Rowed(p)'
    BY <1>0, <1>1 DEF Rowed, StoreInv, KeysUnique
  <2> QED BY <2>1, <2>2 DEF FlagSelects, Rowed
<1>7. Awaited(p)'
  BY <1>0, <1>1, NotAwaited DEF Picking
<1>8. Local(p)'
  BY <1>0, <1>5, <1>6, <1>7, TurnKeeps DEF Local, Turn
<1> QED BY <1>1, <1>4, <1>8, StillFlags DEF Turn

LEMMA FlagTakesKeeps ==
  ASSUME OneAdministrator, IInv, AccountInv, FlagInv, NEW p \in Proc, Turn(p), FlagTakes(p)
  PROVE  FlagInv'
<1>0. Local(p) /\ ProcInv /\ StoreInv
  BY DEF FlagInv, IInv, DataInv
<1>1. At(p, "nextExpired") /\ UNCHANGED <<users, nextUser, passdb, issued>>
  BY DEF FlagTakes
<1>2. /\ Has(prog[p], "nextExpired")
      /\ \A x \in Watched : Has(prog[p], x) => x = "nextExpired"
  BY <1>0, <1>1, AtStaged DEF Local, MayFollow, Watched
<1>3. Awaited(p)'
  BY <1>0, <1>1, NotAwaited DEF Picking
<1>4. CASE prog'[p] = Tail(prog[p]) /\ job[p].rows = {}
  <2>1. \A x \in Watched : ~Has(prog'[p], x)
    BY <1>0, <1>1, <1>2, <1>4, AtStaged DEF Local
  <2>2. \A u \in users : SameDuty(p, u)
    BY <1>2, <1>4, <2>1 DEF SameDuty, Dooms, Due, Watched
  <2>3. Found(p)' /\ Cleared(p)' /\ Rowed(p)'
    BY <2>1 DEF Found, Cleared, Rowed, Watched
  <2>4. Local(p)'
    BY <1>0, <1>3, <2>3, TurnKeeps DEF Local, Turn
  <2> QED BY <1>1, <2>2, <2>4, StillFlags DEF Turn
<1>5. CASE prog'[p] = ExpiredSteps \o prog[p]
  <2>1. PICK r \in job[p].rows : /\ job'[p].uid = r.id /\ job'[p].name = r.name
                                 /\ job'[p].rows = job[p].rows \ {r}
    <3>1. prog'[p] # Tail(prog[p])
      <4>1. Has(prog'[p], "pdbDelete")
        <5>1. ExpiredSteps \in Seq(Step) /\ Has(ExpiredSteps, "pdbDelete")
          BY DEF ExpiredSteps, Step, DbSteps, CmdSteps, Has
        <5> QED BY <1>0, <1>5, <5>1, ConcatHas DEF ProcInv
      <4>2. ~Has(Tail(prog[p]), "pdbDelete")
        BY <1>0, <1>1, <1>2, TailStaged DEF Local, ProcInv, At, Watched
      <4> QED BY <4>1, <4>2
    <3> QED BY <3>1 DEF FlagTakes
  <2>2. /\ Has(prog'[p], "pdbDelete") /\ Has(prog'[p], "deleteUser")
        /\ Has(prog'[p], "nextExpired")
    <3>1. /\ ExpiredSteps \in Seq(Step) /\ Has(ExpiredSteps, "pdbDelete")
          /\ Has(ExpiredSteps, "deleteUser")
      BY DEF ExpiredSteps, Step, DbSteps, CmdSteps, Has
    <3> QED BY <1>0, <1>2, <1>5, <3>1, ConcatHas DEF ProcInv
  <2>3. ~Has(prog'[p], "flag") /\ ~Has(prog'[p], "setEnabled")
    BY <1>1, <1>2 DEF Turn, At, Watched
  <2>4. \A u \in users : SameDuty(p, u)
    BY <1>2, <2>1, <2>2, <2>3 DEF SameDuty, Dooms, Due, Watched
  <2>5. Cleared(p)' /\ Rowed(p)'
    BY <1>0, <1>1, <1>2, <2>1, <2>2 DEF Cleared, Rowed, Local
  <2>6. Found(p)'
    <3>1. r.id < nextUser /\ \A u \in users : u.id = r.id => u.name = r.name
      BY <1>0, <1>2 DEF Local, Rowed
    <3>2. \A u \in users : u.name = r.name => u.id = r.id
      BY DEF AccountInv, JobNames
    <3> QED BY <1>1, <2>1, <2>3, <3>1, <3>2 DEF Found
  <2>7. Local(p)'
    BY <1>0, <1>3, <2>5, <2>6, TurnKeeps DEF Local, Turn
  <2> QED BY <1>1, <2>4, <2>7, StillFlags DEF Turn
<1> QED BY <1>4, <1>5 DEF FlagTakes

-----------------------------------------------------------------------------
(* The steps on rows and flags. *)

\* The handler goes on and forgets nothing unless it is over.
Advance(p) ==
  /\ prog'[p] = Tail(prog[p])
  /\ \/ prog'[p] = <<>>
     \/ /\ job'[p].uid = job[p].uid /\ job'[p].name = job[p].name
        /\ job'[p].on = job[p].on /\ job'[p].rows = job[p].rows

FlagSets(p) ==
  /\ At(p, "flag") /\ UNCHANGED <<users, nextUser, issued>>
  /\ \/ /\ passdb[job[p].name] = "none" /\ passdb' = passdb
        /\ \A x \in Watched : ~Has(prog'[p], x)
     \/ /\ passdb[job[p].name] # "none" /\ Advance(p)
        /\ passdb' = [passdb EXCEPT ![job[p].name] = Flag(job[p].on)]

\* A step on the row or the flag of p's own user, whom it has found.
LEMMA AtWork ==
  ASSUME IInv, AccountInv, FlagInv, NEW p \in Proc,
         NEW h \in {"flag", "setEnabled", "pdbDelete", "deleteUser"}, At(p, h)
  PROVE  /\ Has(prog[p], h) /\ ~Has(prog[p], "getUser")
         /\ job[p].uid < nextUser
         /\ \A u \in users : u.id = job[p].uid <=> u.name = job[p].name
         /\ \A u \in users : u.name \in Name /\ Agrees(u)
         /\ job[p].name \in TempName => job[p].name \in issued
         /\ \A x \in Watched : Has(prog[p], x) => x = h \/ MayFollow(h, x)
         /\ Turn(p) => Awaited(p)'
         /\ Advance(p) => \A x \in Watched :
              /\ Has(prog'[p], x) <=> Has(prog[p], x) /\ x # h
              /\ Has(prog'[p], x) => /\ job'[p].uid = job[p].uid /\ job'[p].name = job[p].name
                                     /\ job'[p].on = job[p].on /\ job'[p].rows = job[p].rows
<1>1. ProcInv /\ Local(p) /\ Staged(prog[p]) /\ h \in Watched \ {"nextExpired"} /\ h # "getUser"
  BY DEF FlagInv, Local, IInv, Watched
<1>2. /\ Has(prog[p], h) /\ ~Has(prog[p], "getUser")
      /\ \A x \in Watched : Has(prog[p], x) => x = h \/ MayFollow(h, x)
  BY <1>1, AtStaged
<1>3. /\ job[p].uid < nextUser
      /\ \A u \in users : u.id = job[p].uid <=> u.name = job[p].name
  BY <1>1, <1>2 DEF Local, Found
<1>4. \A u \in users : u.name \in Name /\ Agrees(u)
  BY DEF FlagInv, IInv, DataInv, StoreInv, StoreTypeOK, UserRow
<1>5. job[p].name \in TempName => job[p].name \in issued
  BY DEF AccountInv, JobNames
<1>6. Turn(p) => Awaited(p)'
  BY <1>1, NotAwaited
<1>7. ASSUME Advance(p), NEW x \in Watched
      PROVE  /\ Has(prog'[p], x) <=> Has(prog[p], x) /\ x # h
             /\ Has(prog'[p], x) => /\ job'[p].uid = job[p].uid /\ job'[p].name = job[p].name
                                    /\ job'[p].on = job[p].on /\ job'[p].rows = job[p].rows
  <2>1. ~Has(<<>>, x)
    BY DEF Has
  <2> QED BY <1>1, <1>7, <2>1, AtStaged DEF Advance
<1> QED BY <1>2, <1>3, <1>4, <1>5, <1>6, <1>7

LEMMA DoomedByOther ==
  ASSUME NEW p \in Proc, Others(p), NEW u, Doomed(u), ~Dooms(p, u), NEW w, w.id = u.id
  PROVE  Doomed(w)'
<1>1. PICK q \in Proc \ {p} : Dooms(q, u)
  BY DEF Doomed
<1>2. Dooms(q, w)'
  BY <1>1 DEF Others, Dooms
<1> QED BY <1>2 DEF Doomed

LEMMA FlagSetsKeeps ==
  ASSUME OneAdministrator, IInv, AccountInv, FlagInv, NEW p \in Proc, Turn(p), FlagSets(p)
  PROVE  FlagInv'
<1> DEFINE n == job[p].name
<1>1. /\ At(p, "flag") /\ UNCHANGED <<users, nextUser, issued>> /\ Others(p) /\ Local(p)
      /\ passdb \in [Name -> {"none", "on", "off"}]
  BY DEF FlagSets, Turn, FlagInv, IInv, SystemInv
<1>2. /\ Has(prog[p], "flag") /\ ~Has(prog[p], "getUser") /\ job[p].uid < nextUser
      /\ \A u \in users : u.id = job[p].uid <=> u.name = n
      /\ \A u \in users : u.name \in Name /\ Agrees(u)
      /\ n \in TempName => n \in issued
      /\ \A x \in Watched : Has(prog[p], x) => x = "flag" \/ MayFollow("flag", x)
      /\ Awaited(p)'
  BY <1>1, AtWork
<1>3. \A x \in Watched : Has(prog[p], x) => x \in {"flag", "setEnabled"}
  BY <1>2 DEF MayFollow, Watched
<1>4. \A u : ~Dooms(p, u)
  BY <1>3 DEF Dooms, Watched
<1>5. p \in Worker /\ \A q \in Proc \ {p} : q \notin Worker
  BY <1>1, <1>2 DEF Local, OneAdministrator
<1>6. \A q \in Proc \ {p} : \A u : ~Due(q, u) /\ ~Due(q, u)'
  BY <1>1, <1>5 DEF FlagInv, Local, Due, Others
<1>7. CASE /\ passdb[n] = "none" /\ passdb' = passdb
           /\ \A x \in Watched : ~Has(prog'[p], x)
  <2>1. ASSUME NEW u \in users PROVE SameDuty(p, u) \/ Agrees(u)'
    <3>1. CASE u.id = job[p].uid
      <4>1. Doomed(u)
        BY <1>2, <1>7, <3>1 DEF Agrees
      <4>2. Doomed(u)'
        BY <1>1, <1>4, <4>1, DoomedByOther
      <4> QED BY <4>2 DEF Agrees
    <3>2. CASE u.id # job[p].uid
      BY <1>4, <1>7, <3>2 DEF SameDuty, Due, Watched
    <3> QED BY <3>1, <3>2
  <2>2. Found(p)' /\ Cleared(p)' /\ Rowed(p)'
    BY <1>7 DEF Found, Cleared, Rowed, Watched
  <2>3. Local(p)'
    BY <1>1, <1>2, <2>2, TurnKeeps DEF Local, Turn
  <2> QED BY <1>1, <1>7, <2>1, <2>3, StillFlags
<1>8. CASE Advance(p) /\ passdb' = [passdb EXCEPT ![n] = Flag(job[p].on)]
  <2>1. \A x \in Watched :
          /\ Has(prog'[p], x) <=> Has(prog[p], x) /\ x # "flag"
          /\ Has(prog'[p], x) => /\ job'[p].uid = job[p].uid /\ job'[p].name = n
                                 /\ job'[p].on = job[p].on /\ job'[p].rows = job[p].rows
    BY <1>1, <1>8, AtWork
  <2>2. \A m \in Name : passdb'[m] = IF m = n THEN Flag(job[p].on) ELSE passdb[m]
    BY <1>1, <1>8
  <2>3. Flag(job[p].on) # "none"
    BY DEF Flag
  <2>4. ASSUME NEW u \in users PROVE Agrees(u)'
    <3>1. CASE u.id # job[p].uid
      <4>1. SameDuty(p, u)
        BY <1>3, <1>4, <2>1, <3>1 DEF SameDuty, Due, Watched
      <4> QED BY <1>1, <1>2, <2>2, <3>1, <4>1, AgreesKept
    <3>2. CASE u.id = job[p].uid /\ Doomed(u)
      BY <1>1, <1>4, <3>2, DoomedByOther DEF Agrees
    <3>3. CASE u.id = job[p].uid /\ ~Doomed(u)
      <4>1. u.name = n /\ passdb'[u.name] = Flag(job[p].on) /\ passdb'[u.name] # "none"
        BY <1>2, <2>2, <2>3, <3>3
      <4>2. CASE Has(prog[p], "setEnabled")
        <5>1. /\ Has(prog'[p], "setEnabled") /\ ~Has(prog'[p], "flag")
              /\ job'[p].uid = u.id /\ job'[p].on = job[p].on
          BY <2>1, <3>3, <4>2 DEF Watched
        <5>2. Due(p, u)'
          BY <5>1 DEF Due
        <5> HIDE DEF Due
        <5>3. \A q \in Proc : Due(q, u)' => q = p
          BY <1>6
        <5> QED BY <4>1, <5>1, <5>2, <5>3 DEF Agrees, Flag
      <4>3. CASE ~Has(prog[p], "setEnabled")
        <5>1. Due(p, u)
          BY <1>2, <3>3, <4>3 DEF Due
        <5>2. u.enabled = job[p].on
          BY <1>2, <3>3, <5>1 DEF Agrees
        <5>3. ~Due(p, u)'
          BY <2>1, <4>3 DEF Due, Watched
        <5> HIDE DEF Due
        <5>4. \A q \in Proc : ~Due(q, u)'
          BY <1>6, <5>3
        <5> QED BY <4>1, <5>2, <5>4 DEF Agrees, Flag
      <4> QED BY <4>2, <4>3
    <3> QED BY <3>1, <3>2, <3>3
  <2>5. Mild(p)
    BY <1>1, <1>5, <2>2, <2>3 DEF Mild, Bears
  <2>6. NotOff'
    <3>1. n \in PlainName => Bears(n)
      BY <1>1, <1>2 DEF Local, Found, Watched
    <3>2. n \in Name => n \in PlainName \/ n \in TempName
      BY NameAssumption
    <3>3. \A m \in Name : passdb'[m] = "off" => m = n \/ passdb[m] = "off"
      BY <2>2
    <3> QED BY <1>1, <1>2, <3>1, <3>2, <3>3 DEF FlagInv, NotOff, Bears
  <2>7. Found(p)' /\ Cleared(p)' /\ Rowed(p)'
    BY <1>1, <1>2, <1>3, <2>1 DEF Found, Cleared, Rowed, Watched
  <2>8. Local(p)'
    BY <1>1, <1>2, <2>7, TurnKeeps DEF Local, Turn
  <2>9. \A q \in Proc \ {p} : Local(q)'
    BY <1>1, <2>5, LocalOthers DEF FlagInv
  <2> QED BY <1>1, <2>4, <2>6, <2>8, <2>9 DEF FlagInv
<1> QED BY <1>7, <1>8 DEF FlagSets

FlagEnables(p) ==
  /\ At(p, "setEnabled") /\ UNCHANGED <<passdb, nextUser, issued>> /\ Advance(p)
  /\ \A w \in users' : \E u \in users :
       /\ w.id = u.id /\ w.name = u.name
       /\ w.enabled = IF u.id = job[p].uid THEN job[p].on ELSE u.enabled
  /\ \A u \in users : \E w \in users' : w.name = u.name

FlagDrops(p) ==
  /\ At(p, "pdbDelete") /\ UNCHANGED <<users, nextUser, issued>> /\ Advance(p)
  /\ passdb' = [passdb EXCEPT ![job[p].name] = "none"]

FlagDeletes(p) ==
  /\ At(p, "deleteUser") /\ UNCHANGED <<passdb, nextUser, issued>> /\ Advance(p)
  /\ users' = {u \in users : u.id # job[p].uid}

LEMMA FlagEnablesKeeps ==
  ASSUME OneAdministrator, IInv, AccountInv, FlagInv, NEW p \in Proc, Turn(p), FlagEnables(p)
  PROVE  FlagInv'
<1>1. /\ At(p, "setEnabled") /\ UNCHANGED <<passdb, nextUser, issued>> /\ Advance(p)
      /\ Others(p) /\ Local(p)
  BY DEF FlagEnables, Turn, FlagInv
<1>2. /\ Has(prog[p], "setEnabled") /\ ~Has(prog[p], "getUser") /\ job[p].uid < nextUser
      /\ \A u \in users : u.id = job[p].uid <=> u.name = job[p].name
      /\ \A u \in users : u.name \in Name /\ Agrees(u)
      /\ \A x \in Watched : Has(prog[p], x) => x = "setEnabled" \/ MayFollow("setEnabled", x)
      /\ Awaited(p)'
      /\ \A x \in Watched :
           /\ Has(prog'[p], x) <=> Has(prog[p], x) /\ x # "setEnabled"
           /\ Has(prog'[p], x) => /\ job'[p].uid = job[p].uid /\ job'[p].name = job[p].name
                                  /\ job'[p].on = job[p].on /\ job'[p].rows = job[p].rows
  BY <1>1, AtWork
<1>3. \A x \in Watched : Has(prog[p], x) => x \in {"flag", "setEnabled"}
  BY <1>2 DEF MayFollow, Watched
<1>4. \A u : ~Dooms(p, u)
  BY <1>3 DEF Dooms, Watched
<1>5. p \in Worker /\ \A q \in Proc \ {p} : q \notin Worker
  BY <1>1, <1>2 DEF Local, OneAdministrator
<1>6. \A q \in Proc \ {p} : \A u : ~Due(q, u) /\ ~Due(q, u)'
  BY <1>1, <1>5 DEF FlagInv, Local, Due, Others
<1>7. ASSUME NEW w \in users' PROVE Agrees(w)'
  <2>1. PICK u \in users :
          /\ w.id = u.id /\ w.name = u.name
          /\ w.enabled = IF u.id = job[p].uid THEN job[p].on ELSE u.enabled
    BY DEF FlagEnables
  <2>2. CASE u.id # job[p].uid
    <3>1. SameDuty(p, u)
      BY <1>2, <1>3, <1>4, <2>2 DEF SameDuty, Due, Watched
    <3>2. passdb'[u.name] = passdb[u.name] /\ w.enabled = u.enabled
      BY <1>1, <2>1, <2>2
    <3> QED BY <1>1, <1>2, <2>1, <3>1, <3>2, AgreesKept
  <2>3. CASE Doomed(u)
    BY <1>1, <1>4, <2>1, <2>3, DoomedByOther DEF Agrees
  <2>4. CASE u.id = job[p].uid /\ ~Doomed(u)
    <3>1. w.enabled = job[p].on /\ w.id = job[p].uid /\ passdb'[w.name] = passdb[u.name]
          /\ passdb'[w.name] # "none"
      BY <1>1, <1>2, <2>1, <2>4 DEF Agrees
    <3>2. CASE Has(prog[p], "flag")
      <4>1. /\ Has(prog'[p], "flag") /\ ~Has(prog'[p], "setEnabled")
            /\ job'[p].uid = job[p].uid /\ job'[p].on = job[p].on
        BY <1>2, <3>2 DEF Watched
      <4>2. Due(p, w)'
        BY <3>1, <4>1 DEF Due
      <4> HIDE DEF Due
      <4>3. \A q \in Proc : Due(q, w)' => q = p
        BY <1>6
      <4> QED BY <3>1, <4>1, <4>2, <4>3 DEF Agrees
    <3>3. CASE ~Has(prog[p], "flag")
      <4>1. Due(p, u)
        BY <1>2, <2>4, <3>3 DEF Due
      <4>2. passdb[u.name] = Flag(job[p].on)
        BY <1>2, <2>4, <3>3, <4>1 DEF Agrees
      <4>3. ~Due(p, w)'
        BY <1>2, <3>3 DEF Due, Watched
      <4> HIDE DEF Due
      <4>4. \A q \in Proc : ~Due(q, w)'
        BY <1>6, <4>3
      <4> QED BY <3>1, <4>2, <4>4 DEF Agrees, Flag
    <3> QED BY <3>2, <3>3
  <2> QED BY <2>2, <2>3, <2>4
<1>8. /\ \A w \in users' : \E u \in users : u.id = w.id /\ u.name = w.name
      /\ \A n : Bears(n) => \E w \in users' : w.name = n
  BY DEF FlagEnables, Bears
<1>9. Mild(p) /\ NotOff'
  BY <1>1, <1>8 DEF Mild, FlagInv, NotOff, Bears
<1>10. Found(p)'
  <2> SUFFICES ASSUME NEW x \in Watched \ {"nextExpired"}, Has(prog'[p], x)
               PROVE  /\ job'[p].uid < nextUser'
                      /\ \A w \in users' : w.id = job'[p].uid <=> w.name = job'[p].name
                      /\ job'[p].name \in PlainName =>
                           \E w \in users' : w.name = job'[p].name
    BY DEF Found, Bears
  <2>1. Has(prog[p], "flag") /\ job'[p].uid = job[p].uid /\ job'[p].name = job[p].name
    BY <1>2, <1>3 DEF Watched
  <2>2. job[p].name \in PlainName => Bears(job[p].name)
    BY <1>1, <1>2, <2>1 DEF Local, Found, Watched
  <2> QED BY <1>1, <1>2, <1>8, <2>1, <2>2
<1>11. Cleared(p)' /\ Rowed(p)'
  BY <1>2, <1>3 DEF Cleared, Rowed, Watched
<1>12. Local(p)'
  BY <1>1, <1>2, <1>10, <1>11, TurnKeeps DEF Local, Turn
<1>13. \A q \in Proc \ {p} : Local(q)'
  BY <1>1, <1>9, LocalOthers DEF FlagInv
<1> QED BY <1>7, <1>9, <1>12, <1>13 DEF FlagInv

LEMMA FlagDropsKeeps ==
  ASSUME OneAdministrator, IInv, AccountInv, FlagInv, NEW p \in Proc, Turn(p), FlagDrops(p)
  PROVE  FlagInv'
<1> DEFINE n == job[p].name
<1>1. /\ At(p, "pdbDelete") /\ UNCHANGED <<users, nextUser, issued>> /\ Advance(p)
      /\ Others(p) /\ Local(p) /\ passdb \in [Name -> {"none", "on", "off"}]
      /\ passdb' = [passdb EXCEPT ![n] = "none"]
  BY DEF FlagDrops, Turn, FlagInv, IInv, SystemInv
<1>2. /\ Has(prog[p], "pdbDelete") /\ ~Has(prog[p], "getUser") /\ job[p].uid < nextUser
      /\ \A u \in users : u.id = job[p].uid <=> u.name = n
      /\ \A u \in users : u.name \in Name /\ Agrees(u)
      /\ \A x \in Watched : Has(prog[p], x) => x = "pdbDelete" \/ MayFollow("pdbDelete", x)
      /\ Awaited(p)'
      /\ \A x \in Watched :
           /\ Has(prog'[p], x) <=> Has(prog[p], x) /\ x # "pdbDelete"
           /\ Has(prog'[p], x) => /\ job'[p].uid = job[p].uid /\ job'[p].name = n
                                  /\ job'[p].on = job[p].on /\ job'[p].rows = job[p].rows
  BY <1>1, AtWork
<1>3. \A x \in Watched : Has(prog[p], x) => x \in {"pdbDelete", "deleteUser", "nextExpired"}
  BY <1>2 DEF MayFollow, Watched
<1>4. /\ Has(prog'[p], "deleteUser") /\ job'[p].uid = job[p].uid /\ job'[p].name = n
      /\ job'[p].rows = job[p].rows
  BY <1>1, <1>2 DEF Local, Cleared, Watched
<1>5. \A m \in Name : passdb'[m] = IF m = n THEN "none" ELSE passdb[m]
  BY <1>1
<1>6. ASSUME NEW u \in users PROVE Agrees(u)'
  <2>1. CASE u.id = job[p].uid
    <3>1. Dooms(p, u)'
      BY <1>4, <2>1 DEF Dooms
    <3> QED BY <3>1 DEF Agrees, Doomed
  <2>2. CASE u.id # job[p].uid
    <3>1. SameDuty(p, u)
      BY <1>2, <1>3, <1>4, <2>2 DEF SameDuty, Dooms, Due, Watched
    <3> QED BY <1>1, <1>2, <1>5, <2>2, <3>1, AgreesKept
  <2> QED BY <2>1, <2>2
<1>7. Mild(p) /\ NotOff'
  BY <1>1, <1>5 DEF Mild, FlagInv, NotOff, Bears
<1>8. Found(p)' /\ Rowed(p)'
  BY <1>1, <1>2, <1>3, <1>4 DEF Local, Found, Rowed, Watched
<1>9. Cleared(p)'
  <2>1. n \in PlainName => passdb'[n] = "none"
    BY <1>5, NameAssumption
  <2> QED BY <1>2, <1>4, <2>1 DEF Cleared, Watched, Turn
<1>10. Local(p)'
  BY <1>1, <1>2, <1>8, <1>9, TurnKeeps DEF Local, Turn
<1>11. \A q \in Proc \ {p} : Local(q)'
  BY <1>1, <1>7, LocalOthers DEF FlagInv
<1> QED BY <1>1, <1>6, <1>7, <1>10, <1>11 DEF FlagInv

LEMMA FlagDeletesKeeps ==
  ASSUME OneAdministrator, IInv, AccountInv, FlagInv, NEW p \in Proc, Turn(p), FlagDeletes(p)
  PROVE  FlagInv'
<1> DEFINE n == job[p].name
<1>1. /\ At(p, "deleteUser") /\ UNCHANGED <<passdb, nextUser, issued>> /\ Advance(p)
      /\ Others(p) /\ Local(p) /\ users' = {u \in users : u.id # job[p].uid}
  BY DEF FlagDeletes, Turn, FlagInv
<1>2. /\ Has(prog[p], "deleteUser") /\ ~Has(prog[p], "getUser")
      /\ \A u \in users : u.id = job[p].uid <=> u.name = n
      /\ \A u \in users : u.name \in Name /\ Agrees(u)
      /\ n \in TempName => n \in issued
      /\ \A x \in Watched : Has(prog[p], x) => x = "deleteUser" \/ MayFollow("deleteUser", x)
      /\ Awaited(p)'
      /\ \A x \in Watched :
           /\ Has(prog'[p], x) <=> Has(prog[p], x) /\ x # "deleteUser"
           /\ Has(prog'[p], x) => /\ job'[p].uid = job[p].uid /\ job'[p].name = n
                                  /\ job'[p].on = job[p].on /\ job'[p].rows = job[p].rows
  BY <1>1, AtWork
<1>3. \A x \in Watched : Has(prog[p], x) => x \in {"deleteUser", "nextExpired"}
  BY <1>2 DEF MayFollow, Watched
<1>4. ASSUME NEW u \in users' PROVE Agrees(u)'
  <2>1. u \in users /\ u.id # job[p].uid
    BY <1>1
  <2>2. SameDuty(p, u)
    BY <1>2, <1>3, <2>1 DEF SameDuty, Dooms, Due, Watched
  <2>3. passdb'[u.name] = passdb[u.name]
    BY <1>1
  <2> QED BY <1>1, <1>2, <2>1, <2>2, <2>3, AgreesKept
<1>5. ASSUME NEW m, Bears(m)
      PROVE  (\E u \in users' : u.name = m) \/ (m = n /\ (p \in Worker \/ m \in TempName))
  <2>1. PICK u \in users : u.name = m
    BY <1>5 DEF Bears
  <2>2. p \in Worker \/ n \in TempName \cup {NoName}
    BY DEF AccountInv, JobNames
  <2>3. NoName \notin Name
    BY NameAssumption
  <2> QED BY <1>1, <1>2, <2>1, <2>2, <2>3
<1>6. Mild(p)
  BY <1>1, <1>5 DEF Mild
<1>7. NotOff'
  <2> SUFFICES ASSUME NEW m \in Name, passdb[m] = "off", \A u \in users' : u.name # m
               PROVE  m \in TempName /\ m \in issued
    BY <1>1 DEF NotOff, Bears
  <2>1. CASE ~Bears(m)
    BY <2>1 DEF FlagInv, NotOff
  <2>2. CASE m = n
    <3>1. n \notin PlainName
      BY <1>1, <1>2, <1>3, <2>2 DEF Local, Cleared, Watched
    <3> QED BY <1>2, <2>2, <3>1, NameAssumption
  <2> QED BY <1>5, <2>1, <2>2
<1>8. Found(p)' /\ Cleared(p)' /\ Rowed(p)'
  BY <1>1, <1>2, <1>3 DEF Local, Found, Cleared, Rowed, Watched
<1>9. Local(p)'
  BY <1>1, <1>2, <1>8, TurnKeeps DEF Local, Turn
<1>10. \A q \in Proc \ {p} : Local(q)'
  BY <1>1, <1>6, LocalOthers DEF FlagInv
<1> QED BY <1>4, <1>7, <1>9, <1>10 DEF FlagInv

FlagInserts(p) ==
  /\ At(p, "insertUser") /\ UNCHANGED <<passdb, issued>> /\ nextUser' = nextUser + 1
  /\ ~Bears(job[p].name)
  /\ \E w : /\ users' = users \cup {w} /\ w.id = nextUser /\ w.name = job[p].name
            /\ w.enabled = TRUE

LEMMA FlagInsertsKeeps ==
  ASSUME OneAdministrator, IInv, AccountInv, FlagInv, NEW p \in Proc, Turn(p), FlagInserts(p)
  PROVE  FlagInv'
<1> DEFINE n == job[p].name
<1>1. /\ At(p, "insertUser") /\ UNCHANGED <<passdb, issued>> /\ nextUser' = nextUser + 1
      /\ ~Bears(n) /\ Others(p) /\ Local(p) /\ ProcInv
      /\ passdb \in [Name -> {"none", "on", "off"}]
  BY DEF FlagInserts, Turn, FlagInv, IInv, SystemInv
<1>2. PICK w : users' = users \cup {w} /\ w.id = nextUser /\ w.name = n /\ w.enabled = TRUE
  BY DEF FlagInserts
<1>3. Has(prog[p], "insertUser") /\ Head(prog[p]) = "insertUser"
  BY <1>1, AtStaged DEF Local, At
<1>4. /\ \A x \in Watched : ~Has(prog[p], x) /\ ~Has(prog'[p], x)
      /\ n \in Name /\ passdb[n] = "on" /\ p \in Worker
  <2>1. \A x \in Watched : ~Has(prog[p], x)
    BY <1>1, <1>3 DEF Local, Awaited
  <2>2. \A x \in Watched : ~Has(prog'[p], x)
    BY <1>1, <1>3, <2>1 DEF Turn, At
  <2>3. n \in Name /\ p \in Worker
    BY <1>3 DEF AccountInv, Reserved, Ordered
  <2>4. passdb[n] # "off" /\ passdb[n] # "none"
    BY <1>1, <1>3 DEF Local, Awaited
  <2> QED BY <1>1, <2>1, <2>2, <2>3, <2>4
<1>5. ASSUME NEW u \in users PROVE Agrees(u)'
  <2>1. SameDuty(p, u)
    BY <1>4 DEF SameDuty, Dooms, Due, Watched
  <2>2. Agrees(u) /\ passdb'[u.name] = passdb[u.name]
    BY <1>1 DEF FlagInv
  <2> QED BY <1>1, <2>1, <2>2, AgreesKept
<1>6. Agrees(w)'
  <2>1. ASSUME NEW q \in Proc PROVE ~Due(q, w)'
    <3>1. CASE q = p
      BY <1>4, <3>1 DEF Due, Watched
    <3>2. CASE q # p
      <4>1. q \notin Worker
        BY <1>4, <3>2 DEF OneAdministrator
      <4> QED BY <1>1, <3>2, <4>1 DEF FlagInv, Local, Due, Others
    <3> QED BY <3>1, <3>2
  <2> HIDE DEF Due
  <2> QED BY <1>1, <1>2, <1>4, <2>1 DEF Agrees, Flag
<1>7. Mild(p) /\ NotOff'
  BY <1>1, <1>2, <1>3 DEF Mild, FlagInv, NotOff, Bears
<1>8. Found(p)' /\ Cleared(p)' /\ Rowed(p)'
  BY <1>4 DEF Found, Cleared, Rowed, Watched
<1>9. Local(p)'
  BY <1>1, <1>8, TurnKeeps, NotAwaited DEF Local, Turn
<1>10. \A q \in Proc \ {p} : Local(q)'
  BY <1>1, <1>7, LocalOthers DEF FlagInv
<1> QED BY <1>2, <1>5, <1>6, <1>7, <1>9, <1>10 DEF FlagInv

\* A handler begins.
LEMMA FlagOpens ==
  ASSUME OneAdministrator, IInv, AccountInv, FlagInv, NEW p \in Proc, prog[p] = <<>>,
         NEW s, NEW j, Goto(p, s, j), Opens(p, s, j), Poised(s),
         UNCHANGED <<users, nextUser, passdb>>, issued \subseteq issued'
  PROVE  FlagInv'
<1>1. /\ prog'[p] = s /\ (s = <<>> \/ job'[p] = j) /\ Others(p) /\ \A x : ~Has(prog[p], x)
  BY DEF Goto, IInv, ProcInv, Others, Has
<1>2. \A u \in users : SameDuty(p, u)
  BY <1>1 DEF SameDuty, Dooms, Due, Poised
<1>3. Found(p)' /\ Cleared(p)' /\ Rowed(p)'
  BY <1>1 DEF Found, Cleared, Rowed, Poised, Watched
<1>4. Awaited(p)'
  <2> SUFFICES ASSUME Has(s, "insertUser")
               PROVE  /\ \A x \in Watched : ~Has(s, x)
                      /\ \/ passdb[job'[p].name] # "off"
                         \/ \E u \in users : u.name = job'[p].name
                      /\ Head(s) # "insertUser"
    BY <1>1 DEF Awaited, Bears
  <2>1. \A x \in Watched : ~Has(s, x)
    BY DEF Opens, Creates, Picks, Picking, Poised
  <2>2. job'[p] = j
    BY <1>1 DEF Has
  <2>3. /\ Head(s) # "insertUser"
        /\ j.name \in PlainName \/ (j.name \in TempName /\ j.name \notin issued)
    BY DEF Opens
  <2>4. j.name \in Name /\ ~(j.name \in TempName /\ j.name \in issued)
    BY <2>3, NameAssumption
  <2> QED BY <2>1, <2>2, <2>3, <2>4 DEF FlagInv, NotOff, Bears
<1>5. Local(p)'
  BY <1>1, <1>3, <1>4 DEF Local, Poised, Opens, Watched
<1> QED BY <1>1, <1>2, <1>5, StillFlags

\* What is not the service's does nothing to names and flags.
LEMMA FlagsOutside ==
  ASSUME FlagInv, UNCHANGED <<prog, job, passdb, nextUser, issued>>,
         \A w \in users' : \E u \in users :
           u.id = w.id /\ u.name = w.name /\ u.enabled = w.enabled,
         \A u \in users : \E w \in users' : w.name = u.name
  PROVE  FlagInv'
<1>1. NotOff' /\ \A q \in Proc : Local(q)'
  <2>1. \A n : Bears(n) => \E w \in users' : w.name = n
    BY DEF Bears
  <2>2. NotOff'
    BY <2>1 DEF FlagInv, NotOff, Bears
  <2>3. ASSUME NEW q \in Proc PROVE Local(q)'
    <3>1. Local(q)
      BY DEF FlagInv
    <3>2. Found(q)' /\ Rowed(q)'
      BY <2>1, <3>1 DEF Local, Found, Rowed, Bears
    <3>3. Cleared(q)' /\ Awaited(q)'
      BY <2>1, <3>1 DEF Local, Cleared, Awaited, Bears
    <3> QED BY <3>1, <3>2, <3>3 DEF Local
  <2> QED BY <2>2, <2>3
<1>2. ASSUME NEW w \in users' PROVE Agrees(w)'
  <2>1. PICK u \in users : u.id = w.id /\ u.name = w.name /\ u.enabled = w.enabled
    OBVIOUS
  <2>2. Agrees(u)
    BY DEF FlagInv
  <2>3. \A q \in Proc : (Due(q, w)' <=> Due(q, u)) /\ (Dooms(q, w)' <=> Dooms(q, u))
    BY <2>1 DEF Due, Dooms
  <2> HIDE DEF Due, Dooms
  <2> QED BY <2>1, <2>2, <2>3 DEF Agrees, Doomed
<1> QED BY <1>1, <1>2 DEF FlagInv


-----------------------------------------------------------------------------
(* Every step that does not fail is one of these. *)
LEMMA GivesUp ==
  ASSUME ProcInv, NEW p \in Proc, Abort(p) \/ ApplyFailed(p)
  PROVE  /\ Neutral(prog'[p]) /\ \A x \in Watched : ~Has(prog'[p], x)
         /\ UNCHANGED <<users, nextUser, passdb, issued>>
<1>1. PICK s : Goto(p, s, job[p]) /\ Neutral(s) /\ Idle(s)
  <2>1. /\ Neutral(<<>>) /\ Neutral(<<"unlock">>) /\ Neutral(<<"nextGrant">>)
        /\ Idle(<<>>) /\ Idle(<<"unlock">>) /\ Idle(<<"nextGrant">>)
    BY NeutralPieces, IdlePieces
  <2>2. Neutral(Unwind(p)) /\ Idle(Unwind(p))
    BY <2>1 DEF Unwind
  <2>3. /\ Neutral(Unwind(p) \o <<"nextGrant">>) /\ Neutral(Unwind(p) \o <<>>)
        /\ Idle(Unwind(p) \o <<"nextGrant">>) /\ Idle(Unwind(p) \o <<>>)
    BY <2>1, <2>2, NeutralOrdered, IdleStaged
  <2> QED BY <2>2, <2>3 DEF Abort, ApplyFailed
<1>2. prog'[p] = s
  BY <1>1 DEF Goto, ProcInv
<1>3. UNCHANGED <<users, nextUser, passdb, issued>>
  BY DEF Abort, ApplyFailed, tableVars, osVars, envVars
<1> QED BY <1>1, <1>2, <1>3 DEF Idle

\* The steps after which a handler has neither looked at a user nor touched it.
Aside == Step \ (Watched \cup {"getUser", "selectExpired"})

LEMMA RestsAt ==
  ASSUME NEW p \in Proc, NEW h \in Aside, At(p, h),
         UNCHANGED <<users, nextUser, passdb>>, h = "password" => Neutral(prog'[p]),
         h \in {"reread", "userdel"} => Done(p)
  PROVE  Rests(p)
<1>1. At(p, "password") => h = "password"
  BY DEF At
<1> QED BY <1>1 DEF Rests, Aside

LEMMA GiveUpRests ==
  ASSUME ProcInv, NEW p \in Proc, Abort(p) \/ ApplyFailed(p),
         NEW h \in Aside \ {"reread", "userdel"}, At(p, h)
  PROVE  Rests(p) /\ issued' = issued
BY GivesUp, RestsAt

LEMMA CheckRests ==
  ASSUME ProcInv, NEW p \in Proc,
         \/ Lock(p) \/ Unlock(p) \/ GetVolume(p) \/ Walk(p) \/ Lookup(p) \/ UserAdd(p)
         \/ AddToGroup(p) \/ UserDel(p) \/ PermUser(p) \/ PermVolume(p) \/ BulkCheck(p)
         \/ NextGrant(p)
  PROVE  Rests(p) /\ issued' = issued
<1> USE DEF tableVars, osVars, envVars, Moves, OnSystem
<1>1. ASSUME NEW h \in Aside \ {"reread", "userdel"}, At(p, h),
             \/ Abort(p)
             \/ h # "password" /\ UNCHANGED <<users, nextUser, passdb, issued>>
      PROVE  Rests(p) /\ issued' = issued
  BY <1>1, GiveUpRests, RestsAt
<1>2. ASSUME NEW h \in {"reread", "userdel"}, At(p, h), Done(p),
             UNCHANGED <<users, nextUser, passdb, issued>>
      PROVE  Rests(p) /\ issued' = issued
  <2>1. h \in Aside
    BY DEF Aside, Watched, Step, DbSteps, CmdSteps
  <2> QED BY <1>2, <2>1, RestsAt
<1>3. {"lock", "unlock", "getVolume", "walk", "walkAll", "lookup", "useradd", "group",
       "permUser", "permVolume", "bulkCheck", "nextGrant"} \subseteq Aside \ {"reread", "userdel"}
  BY DEF Aside, Watched, Step, DbSteps, CmdSteps
<1> HIDE DEF Aside
<1>4. CASE Lock(p) \/ Unlock(p) \/ GetVolume(p) \/ AddToGroup(p)
  BY <1>1, <1>3, <1>4 DEF Lock, Unlock, GetVolume, AddToGroup
<1>5. CASE Walk(p)
  BY <1>1, <1>2, <1>3, <1>5 DEF Walk
<1>6. CASE Lookup(p) \/ UserAdd(p) \/ NextGrant(p)
  BY <1>1, <1>3, <1>6 DEF Lookup, UserAdd, NextGrant
<1>7. CASE UserDel(p)
  BY <1>2, <1>7 DEF UserDel
<1>8. CASE PermUser(p) \/ PermVolume(p) \/ BulkCheck(p)
  BY <1>1, <1>3, <1>8 DEF PermUser, PermVolume, BulkCheck
<1> QED BY <1>4, <1>5, <1>6, <1>7, <1>8

LEMMA ChangeRests ==
  ASSUME ProcInv, NEW p \in Proc, Faults = {},
         \/ InsertVolumeStep(p) \/ UpdateVolumeStep(p) \/ DeleteVolumeStep(p) \/ PermRow(p)
         \/ BulkPair(p) \/ SetSettings(p) \/ ReadTables(p) \/ EnsureShares(p) \/ WriteConf(p)
         \/ ReloadSmbd(p) \/ RestartSmbd(p)
  PROVE  Rests(p) /\ issued' = issued
<1> USE DEF tableVars, osVars, envVars, Moves, OnTables
<1>1. ASSUME NEW h \in Aside \ {"reread", "userdel", "password"}, At(p, h),
             \/ Abort(p) \/ ApplyFailed(p)
             \/ UNCHANGED <<users, nextUser, passdb, issued>>
      PROVE  Rests(p) /\ issued' = issued
  BY <1>1, GiveUpRests, RestsAt
<1>2. {"insertVolume", "updateVolume", "deleteVolume", "permRow", "bulkPair", "setSettings",
       "readSettings", "readVolumes", "readGrants", "ensureShares", "writeConf", "reload",
       "restart"} \subseteq Aside \ {"reread", "userdel", "password"}
  BY DEF Aside, Watched, Step, DbSteps, CmdSteps
<1>3. CASE InsertVolumeStep(p) \/ UpdateVolumeStep(p) \/ DeleteVolumeStep(p) \/ SetSettings(p)
  BY <1>1, <1>2, <1>3 DEF InsertVolumeStep, UpdateVolumeStep, DeleteVolumeStep, SetSettings,
     InsertVolume, UpdateVolumeRow, DeleteVolumeRow, UpdateSettingsRows
<1>4. CASE PermRow(p) \/ BulkPair(p)
  BY <1>1, <1>2, <1>4 DEF PermRow, BulkPair, DeletePerm, Upsert
<1>5. CASE ReadTables(p) \/ EnsureShares(p) \/ WriteConf(p)
  BY <1>1, <1>2, <1>5 DEF ReadTables, EnsureShares, WriteConf
<1>6. CASE ReloadSmbd(p) \/ RestartSmbd(p)
  BY <1>1, <1>2, <1>6 DEF ReloadSmbd, RestartSmbd
<1> QED BY <1>3, <1>4, <1>5, <1>6


\* An account that has no password gets one, and its flag is on.
LEMMA PasswordRests ==
  ASSUME ProcInv, SystemInv, NEW p \in Proc, SetPassword(p)
  PROVE  Rests(p) /\ issued' = issued
<1>1. At(p, "password") /\ "password" \in Aside \ {"reread", "userdel"}
  BY DEF SetPassword, Aside, Watched, Step, DbSteps, CmdSteps
<1>2. CASE Abort(p)
  BY <1>1, <1>2, GiveUpRests
<1>3. CASE ~Abort(p)
  <2>1. /\ passdb' = [passdb EXCEPT ![job[p].name] = IF @ = "none" THEN "on" ELSE @]
        /\ UNCHANGED <<users, nextUser, issued>>
    BY <1>3 DEF SetPassword, OnSystem, tableVars, envVars
  <2>2. passdb \in [Name -> {"none", "on", "off"}]
    BY DEF SystemInv
  <2>3. \A n \in Name : \/ passdb'[n] = passdb[n]
                        \/ passdb[n] = "none" /\ passdb'[n] = "on"
    BY <2>1, <2>2
  <2>4. job[p].name \in Name => passdb'[job[p].name] # "none"
    BY <2>1, <2>2
  <2> QED BY <1>1, <2>1, <2>3, <2>4 DEF Rests, Aside
<1> QED BY <1>2, <1>3

LEMMA LooksUp ==
  ASSUME ProcInv, SystemInv, NEW p \in Proc
  PROVE  /\ GetUser(p) => FlagGets(p)
         /\ SelectExpired(p) => FlagSelects(p)
         /\ NextExpired(p) => FlagTakes(p)
<1> USE DEF tableVars, osVars, envVars, Moves
<1>0. job[p] \in Job
  BY DEF ProcInv, SafeJob
<1>g. ASSUME NEW s, NEW j, Goto(p, s, j)
      PROVE  prog'[p] = s /\ (prog'[p] = <<>> \/ job'[p] = j)
  BY <1>g DEF Goto, ProcInv
<1>1. ASSUME GetUser(p), ~HasUser(job[p].uid) PROVE FlagGets(p)
  <2>1. At(p, "getUser") /\ Abort(p) /\ \A u \in users : u.id # job[p].uid
    BY <1>1 DEF GetUser, HasUser
  <2> QED BY <2>1, GivesUp DEF FlagGets
<1>2. ASSUME GetUser(p), HasUser(job[p].uid) PROVE FlagGets(p)
  <2> DEFINE j(u) == [job[p] EXCEPT !.name = u.name, !.created = u.created]
  <2>1. \A u : /\ j(u).uid = job[p].uid /\ j(u).on = job[p].on /\ j(u).rows = job[p].rows
               /\ j(u).name = u.name
    BY <1>0 DEF Job
  <2>2. /\ At(p, "getUser") /\ UNCHANGED <<users, nextUser, passdb, issued>>
        /\ \E u \in users : u.id = job[p].uid /\ Goto(p, Tail(prog[p]), j(u))
    BY <1>2 DEF GetUser, Continue
  <2> HIDE DEF j
  <2>3. PICK u \in users : u.id = job[p].uid /\ Goto(p, Tail(prog[p]), j(u))
    BY <2>2
  <2>4. prog'[p] = Tail(prog[p]) /\ (prog'[p] = <<>> \/ job'[p] = j(u))
    BY <1>g, <2>3
  <2> QED BY <2>1, <2>2, <2>3, <2>4 DEF FlagGets
<1>3. ASSUME SelectExpired(p) PROVE FlagSelects(p)
  <2> DEFINE j == [job[p] EXCEPT !.rows = ExpiredTemporary]
  <2>1. j.rows = ExpiredTemporary
    BY <1>0 DEF Job
  <2>2. /\ At(p, "selectExpired") /\ UNCHANGED <<users, nextUser, passdb, issued>>
        /\ \E s : Goto(p, s, j)
    BY <1>3 DEF SelectExpired
  <2> HIDE DEF j
  <2>3. prog'[p] = <<>> \/ job'[p] = j
    BY <1>g, <2>2
  <2> QED BY <2>1, <2>2, <2>3 DEF FlagSelects, ExpiredTemporary
<1>4. ASSUME NextExpired(p) PROVE FlagTakes(p)
  <2> DEFINE j(u) == [job[p] EXCEPT !.rows = @ \ {u}, !.uid = u.id, !.name = u.name,
                                    !.created = u.created]
  <2>1. \A u : j(u).name = u.name /\ j(u).uid = u.id /\ j(u).rows = job[p].rows \ {u}
    BY <1>0 DEF Job
  <2>2. /\ At(p, "nextExpired") /\ UNCHANGED <<users, nextUser, passdb, issued>>
        /\ \/ job[p].rows = {} /\ Goto(p, Tail(prog[p]), job[p])
           \/ \E u \in job[p].rows : Goto(p, ExpiredSteps \o prog[p], j(u))
    BY <1>4 DEF NextExpired, Done, Continue
  <2> HIDE DEF j
  <2>3. CASE job[p].rows = {} /\ Goto(p, Tail(prog[p]), job[p])
    BY <1>g, <2>2, <2>3 DEF FlagTakes
  <2>4. CASE \E u \in job[p].rows : Goto(p, ExpiredSteps \o prog[p], j(u))
    <3>1. PICK u \in job[p].rows : Goto(p, ExpiredSteps \o prog[p], j(u))
      BY <2>4
    <3>2. ExpiredSteps \o prog[p] # <<>>
      <4>1. ExpiredSteps \in Seq(Step) /\ Has(ExpiredSteps, "pdbDelete")
        BY DEF ExpiredSteps, Step, DbSteps, CmdSteps, Has
      <4>2. Has(ExpiredSteps \o prog[p], "pdbDelete")
        BY <4>1, ConcatHas DEF ProcInv
      <4> QED BY <4>2 DEF Has
    <3>3. prog'[p] = ExpiredSteps \o prog[p] /\ job'[p] = j(u)
      BY <1>g, <3>1, <3>2
    <3> QED BY <2>1, <2>2, <3>1, <3>3 DEF FlagTakes
  <2> QED BY <2>2, <2>3, <2>4
<1> QED BY <1>1, <1>2, <1>3, <1>4

LEMMA ChangesUser ==
  ASSUME ProcInv, StoreInv, NEW p \in Proc, Faults = {}
  PROVE  /\ SetFlag(p) => FlagSets(p)
         /\ SetEnabledStep(p) => FlagEnables(p)
         /\ PdbDelete(p) => FlagDrops(p)
         /\ DeleteUserStep(p) => FlagDeletes(p)
<1> USE DEF tableVars, osVars, envVars, OnSystem, OnTables
<1>0. job[p] \in Job /\ users \subseteq UserRow
  BY DEF ProcInv, SafeJob, StoreInv, StoreTypeOK
<1>1. Done(p) \/ Changed(p) => Advance(p)
  <2> DEFINE j == [job[p] EXCEPT !.changed = TRUE]
  <2>1. /\ j.uid = job[p].uid /\ j.name = job[p].name /\ j.on = job[p].on
        /\ j.rows = job[p].rows
    BY <1>0 DEF Job
  <2>2. Done(p) \/ Changed(p) => Goto(p, Tail(prog[p]), job[p]) \/ Goto(p, Tail(prog[p]), j)
    BY DEF Done, Changed, Continue
  <2> HIDE DEF j
  <2>3. ASSUME NEW k, Goto(p, Tail(prog[p]), k)
        PROVE  prog'[p] = Tail(prog[p]) /\ (prog'[p] = <<>> \/ job'[p] = k)
    BY <2>3 DEF Goto, ProcInv
  <2> QED BY <2>1, <2>2, <2>3 DEF Advance
<1>2. ASSUME SetFlag(p) PROVE FlagSets(p)
  <2>1. CASE passdb[job[p].name] = "none"
    <3>1. At(p, "flag") /\ Abort(p)
      BY <1>2, <2>1 DEF SetFlag
    <3> QED BY <2>1, <3>1, GivesUp DEF FlagSets
  <2>2. CASE passdb[job[p].name] # "none"
    <3>1. /\ At(p, "flag") /\ Done(p) /\ UNCHANGED <<users, nextUser, issued>>
          /\ passdb' = [passdb EXCEPT ![job[p].name] = IF job[p].on THEN "on" ELSE "off"]
      BY <1>2, <2>2 DEF SetFlag
    <3> QED BY <1>1, <2>2, <3>1 DEF FlagSets, Flag
  <2> QED BY <2>1, <2>2
<1>3. ASSUME SetEnabledStep(p) PROVE FlagEnables(p)
  <2> DEFINE k == job[p].uid
             w(u) == IF u.id = k THEN [u EXCEPT !.enabled = job[p].on] ELSE u
  <2>1. ASSUME NEW u \in users
        PROVE  /\ w(u).id = u.id /\ w(u).name = u.name
               /\ w(u).enabled = IF u.id = k THEN job[p].on ELSE u.enabled
    <3>1. u \in UserRow
      BY <1>0
    <3> QED BY <3>1 DEF UserRow
  <2>2. /\ At(p, "setEnabled") /\ UNCHANGED <<passdb, nextUser, issued>> /\ Changed(p)
        /\ users' = {w(u) : u \in users}
    BY <1>3 DEF SetEnabledStep, SetEnabled
  <2> HIDE DEF w
  <2> QED BY <1>1, <2>1, <2>2 DEF FlagEnables
<1>4. ASSUME PdbDelete(p) PROVE FlagDrops(p)
  BY <1>1, <1>4 DEF PdbDelete, FlagDrops
<1>5. ASSUME DeleteUserStep(p) PROVE FlagDeletes(p)
  BY <1>1, <1>5 DEF DeleteUserStep, DeleteUserRow, FlagDeletes
<1> QED BY <1>2, <1>3, <1>4, <1>5

\* A creation inserts its row, or finds its name taken and gives up.
LEMMA InsertsOrRests ==
  ASSUME ProcInv, NEW p \in Proc, InsertUserStep(p)
  PROVE  FlagInserts(p) \/ (Rests(p) /\ issued' = issued)
<1>1. At(p, "insertUser") /\ "insertUser" \in Aside \ {"reread", "userdel"}
  BY DEF InsertUserStep, Aside, Watched, Step, DbSteps, CmdSteps
<1>2. CASE Abort(p)
  BY <1>1, <1>2, GiveUpRests
<1>3. CASE ~Abort(p)
  <2> DEFINE lease == IF job[p].temp THEN "running" ELSE "permanent"
             w == [id |-> nextUser, name |-> job[p].name, enabled |-> TRUE,
                   lease |-> lease, created |-> job[p].created]
  <2>1. /\ users' = users \cup {w} /\ nextUser' = nextUser + 1 /\ UNCHANGED <<passdb, issued>>
        /\ \A u \in users : u.name # job[p].name
    BY <1>3 DEF InsertUserStep, InsertUser, CanInsertUser, OnTables, osVars, envVars
  <2>2. w.id = nextUser /\ w.name = job[p].name /\ w.enabled = TRUE
    OBVIOUS
  <2> HIDE DEF w
  <2> QED BY <1>1, <2>1, <2>2 DEF FlagInserts, Bears
<1> QED BY <1>2, <1>3

LEMMA RunFlags ==
  ASSUME ProcInv, StoreInv, SystemInv, NEW p \in Proc, Faults = {}, Run(p)
  PROVE  \/ Rests(p) /\ issued' = issued
         \/ FlagGets(p) \/ FlagSelects(p) \/ FlagTakes(p) \/ FlagSets(p)
         \/ FlagEnables(p) \/ FlagDrops(p) \/ FlagDeletes(p) \/ FlagInserts(p)
<1>1. ~Fail(p)
  BY DEF Fail
<1> QED BY <1>1, CheckRests, ChangeRests, PasswordRests, LooksUp, ChangesUser, InsertsOrRests
        DEF Run


-----------------------------------------------------------------------------
(* The flags agree. *)
LEMMA InitFlags == Init => FlagInv
<1> SUFFICES ASSUME Init PROVE FlagInv
  OBVIOUS
<1>1. ASSUME NEW q \in Proc
      PROVE  /\ Idle(prog[q]) /\ Neutral(prog[q])
             /\ \A x \in Watched \cup {"getUser", "insertUser"} : ~Has(prog[q], x)
  <2>1. Idle(prog[q])
    BY IdlePieces DEF Init, AtStart
  <2>2. Neutral(prog[q])
    BY AtStartNeutral DEF Init
  <2> QED BY <2>1, <2>2 DEF Idle, Neutral
<1>2. ASSUME NEW q \in Proc PROVE Local(q)
  <2>1. Staged(prog[q])
    BY <1>1, IdleStaged
  <2> QED BY <1>1, <2>1 DEF Local, Found, Cleared, Rowed, Awaited, Watched
<1>3. /\ users = Users0
      /\ \A n \in Name : /\ passdb[n] = "off" => \E u \in users : u.name = n
                         /\ (\E u \in users : u.name = n /\ u.enabled) => passdb[n] = "on"
                         /\ (\E u \in users : u.name = n)
                              /\ (~\E u \in users : u.name = n /\ u.enabled)
                              => passdb[n] = "off"
  BY DEF Init
<1>4. /\ \A u \in users : u.name \in Name
      /\ \A u, w \in users : u.name = w.name => u = w
  BY <1>3, DatabaseAssumption DEF UserRow
<1>5. ASSUME NEW u \in users PROVE Agrees(u)
  <2>1. \A q \in Proc : ~Due(q, u)
    BY <1>1 DEF Due, Watched
  <2>2. passdb[u.name] = Flag(u.enabled)
    BY <1>3, <1>4 DEF Flag
  <2> HIDE DEF Due
  <2> QED BY <2>1, <2>2 DEF Agrees, Flag
<1>6. NotOff
  BY <1>3 DEF NotOff, Bears
<1> QED BY <1>2, <1>5, <1>6 DEF FlagInv

\* A lease that runs out leaves the name and the flag of its row.
LEMMA LeaseFlags == ASSUME StoreInv, FlagInv, LeaseExpires PROVE FlagInv'
<1>1. PICK u \in users : /\ u.lease = "running"
                         /\ users' = (users \ {u}) \cup {[u EXCEPT !.lease = "expired"]}
  BY DEF LeaseExpires
<1>2. u \in UserRow
  BY DEF StoreInv, StoreTypeOK
<1> DEFINE w == [u EXCEPT !.lease = "expired"]
<1>3. w.id = u.id /\ w.name = u.name /\ w.enabled = u.enabled
  BY <1>2 DEF UserRow
<1>4. users' = (users \ {u}) \cup {w}
  BY <1>1
<1> HIDE DEF w
<1>5. UNCHANGED <<prog, job, passdb, nextUser, issued>>
  BY DEF LeaseExpires, osVars, envVars
<1> QED BY <1>1, <1>3, <1>4, <1>5, FlagsOutside

LEMMA RunKeepsFlags ==
  ASSUME OneAdministrator, Faults = {}, IInv, AccountInv, FlagInv, NEW p \in Proc,
         Lock(p) \/ Run(p)
  PROVE  FlagInv'
<1>0. ProcInv /\ StoreInv /\ SystemInv /\ Local(p) /\ Ordered(p)
  BY DEF IInv, DataInv, FlagInv, AccountInv
<1>1. Advances(p)
  <2>1. CASE Lock(p) \/ Unlock(p)
    BY <2>1 DEF Lock, Unlock, Done, Continue, Goto, Advances, At
  <2>2. CASE Run(p) /\ ~Unlock(p)
    BY <1>0, <2>2, RunControl, FailControl DEF Ordinary, Applying
  <2> QED BY <2>1, <2>2
<1>2. Others(p)
  <2>1. CASE Lock(p)
    BY <1>0, <2>1 DEF Lock, Done, Continue, Goto, ProcInv, Others
  <2>2. CASE Run(p)
    <3>1. PICK s, j : Goto(p, s, j)
      BY <2>2, RunGoes
    <3> QED BY <1>0, <3>1 DEF Goto, ProcInv, Others
  <2> QED BY <2>1, <2>2
<1>3. Turn(p)
  <2>1. Ahead(p)
    BY <1>0, <1>1, AdvancesOrdered
  <2>2. /\ Staged(prog'[p]) /\ ~Has(prog'[p], "getUser")
        /\ \A x \in Watched : Has(prog'[p], x) =>
             \/ Has(prog[p], x)
             \/ At(p, "selectExpired") /\ x = "nextExpired"
             \/ At(p, "nextExpired") /\ x \in {"pdbDelete", "deleteUser"}
    BY <1>0, <1>1, AdvancesStaged DEF Local
  <2> QED BY <1>2, <2>1, <2>2 DEF Turn
<1>4. Rests(p) => Calm(p) \/ At(p, "insertUser")
  <2>1. CASE Lock(p)
    <3>1. /\ At(p, "lock") /\ Done(p) /\ users' = users /\ accounts' = accounts
          /\ issued' = issued
      BY <2>1 DEF Lock, tableVars, osVars, envVars
    <3> QED BY <1>0, <3>1, DoneCalm, SameRows
  <2>2. CASE Run(p)
    <3>1. Calm(p) \/ Gets(p) \/ Selects(p) \/ Takes(p) \/ Inserts(p)
      BY <1>0, <2>2, RunKinds
    <3>2. Calm(p) \/ \E h \in {"getUser", "selectExpired", "nextExpired", "insertUser"} : At(p, h)
      BY <3>1 DEF Gets, Selects, Takes, Inserts
    <3> QED BY <3>2 DEF Rests, At, Watched
  <2> QED BY <2>1, <2>2
<1>5. \/ Rests(p) /\ issued' = issued
      \/ FlagGets(p) \/ FlagSelects(p) \/ FlagTakes(p) \/ FlagSets(p)
      \/ FlagEnables(p) \/ FlagDrops(p) \/ FlagDeletes(p) \/ FlagInserts(p)
  BY <1>0, CheckRests, RunFlags
<1> QED BY <1>3, <1>4, <1>5, RestsKeeps, FlagGetsKeeps, FlagSelectsKeeps, FlagTakesKeeps,
        FlagSetsKeeps, FlagEnablesKeeps, FlagDropsKeeps, FlagDeletesKeeps, FlagInsertsKeeps

LEMMA NextFlags ==
  ASSUME OneAdministrator, Faults = {}, IInv, AccountInv, FlagInv, [Next]_vars
  PROVE  FlagInv'
<1>0. ProcInv /\ StoreInv
  BY DEF IInv, DataInv
<1>1. ASSUME NEW p \in Worker, Request(p) PROVE FlagInv'
  <2>1. PICK op, s, j : /\ Begin(p, op, s, j) /\ Opens(p, s, j)
                        /\ issued \subseteq issued'
    BY <1>1, RequestOpens
  <2>2. /\ p \in Proc /\ prog[p] = <<>> /\ Goto(p, s, j)
        /\ UNCHANGED <<users, nextUser, passdb>>
    BY <2>1 DEF Begin, Proc, tableVars, osVars
  <2>3. Poised(s)
    <3>1. PICK op2, t, k : Begin(p, op2, t, k) /\ Handler(op2, t)
      BY <1>1, RequestHandles
    <3>2. s = prog'[p] /\ t = prog'[p]
      BY <1>0, <2>1, <2>2, <3>1 DEF Begin, Goto, ProcInv
    <3> QED BY <3>1, <3>2, HandlerPoised
  <2> QED BY <2>1, <2>2, <2>3, FlagOpens
<1>2. ASSUME NEW p \in Janitor, Tick(p) PROVE FlagInv'
  <2>1. /\ p \in Proc /\ prog[p] = <<>> /\ Goto(p, CleanupSteps, NoJob)
        /\ UNCHANGED <<users, nextUser, passdb>> /\ issued \subseteq issued'
    BY <1>2 DEF Tick, Proc, Moves, tableVars, osVars, envVars
  <2>2. Opens(p, CleanupSteps, NoJob)
    <3>1. ~Has(CleanupSteps, "getUser")
      BY DEF CleanupSteps, Has
    <3> QED BY <3>1, NeutralOpens, NeutralPieces, NamesSafe
  <2>3. Poised(CleanupSteps)
    BY IdlePieces, PoisedIdle
  <2> QED BY <2>1, <2>2, <2>3, FlagOpens
<1>3. ASSUME NEW p \in Proc, Lock(p) \/ Run(p) PROVE FlagInv'
  BY <1>3, RunKeepsFlags
<1>4. CASE LeaseExpires
  BY <1>0, <1>4, LeaseFlags
<1>5. CASE UNCHANGED vars
  <2>1. /\ users' = users /\ UNCHANGED <<prog, job, passdb, nextUser, issued>>
    BY <1>5 DEF vars, tableVars, osVars, envVars
  <2> QED BY <2>1, FlagsOutside
<1>6. ~Crash
  BY DEF Crash
<1> QED BY <1>1, <1>2, <1>3, <1>4, <1>5, <1>6 DEF Next

\* With no handler under way nothing is owed: a row and its flag agree.
LEMMA NothingOwed == FlagInv => FlagsAgree
<1> SUFFICES ASSUME FlagInv, Quiet, NEW u \in users
             PROVE  passdb[u.name] = IF u.enabled THEN "on" ELSE "off"
  BY DEF FlagsAgree
<1>1. \A q \in Proc : \A x : ~Has(prog[q], x)
  BY DEF Quiet, Has
<1>2. ~Doomed(u) /\ \A q \in Proc : ~Due(q, u)
  BY <1>1 DEF Doomed, Dooms, Due
<1>3. Agrees(u)
  BY DEF FlagInv
<1> HIDE DEF Due
<1> QED BY <1>2, <1>3 DEF Agrees, Flag

\* One administrator at a time, any number of cleanups and of repairs at start,
\* and no statement, command or process that fails: whenever no handler is under
\* way, Samba's database knows every SMB user, and has it enabled exactly when
\* the users table does.  UpdateUser changes the row and then the flag,
\* SetUserEnabled the flag and then the row, and meanwhile the cleanup may be
\* deleting the user.
THEOREM ServiceFlagsAgree ==
  ASSUME OneAdministrator, Faults = {}
  PROVE  Spec => []FlagsAgree
<1>1. IInv /\ AccountInv /\ [Next]_vars => AccountInv'
  BY NextAccounts
<1>2. IInv /\ AccountInv /\ FlagInv /\ [Next]_vars => FlagInv'
  BY NextFlags
<1> QED BY <1>1, <1>2, InitAccounts, InitFlags, NothingOwed, ServiceInvariant, PTL DEF Spec
=============================================================================
