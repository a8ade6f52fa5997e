----------------------------- MODULE MCSmbService -----------------------------
(* Small instances of SmbService for TLC. *)
EXTENDS SmbService, TLC

CONSTANTS w1, w2, jan, st, ann, bob, tmp1

\* ann, enabled, may write volume 1; bob, when present, is disabled.
AnnRow == [id |-> 1, name |-> ann, enabled |-> TRUE, lease |-> "permanent",
           created |-> TRUE]
Tmp1Row == [id |-> 2, name |-> tmp1, enabled |-> TRUE, lease |-> "running",
            created |-> TRUE]
Vol1 == [id |-> 1, guest |-> FALSE, enabled |-> TRUE]
AnnWrites == [user |-> 1, volume |-> 1, access |-> "readwrite"]
Tmp1Reads == [user |-> 2, volume |-> 1, access |-> "read"]

OneUser == {AnnRow}
OneVolume == {Vol1}
OnePerm == {AnnWrites}
TwoUsers == {AnnRow, Tmp1Row}
TwoPerms == {AnnWrites, Tmp1Reads}

AllOps == {"createVolume", "updateVolume", "deleteVolume", "repair",
           "createUser", "createTemporary", "updateUser", "setUserEnabled",
           "password", "deleteUser", "setPermission", "bulk",
           "reload", "restart", "settings"}
LockedOps == {"setPermission", "repair"}

\* The workers run the same code.
Symmetric == Permutations(Worker)
=============================================================================
