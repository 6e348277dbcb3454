------------------------------- MODULE MCFat32 -------------------------------
(***************************************************************************)
(* Small instances of Fat32 for TLC.  Four clusters after the root's: a    *)
(* directory, a file of two clusters and one more.  Two bytes to a         *)
(* cluster: a file of two bytes fills one, a file of three spills into a   *)
(* second.  Three names and two slots in a table, so that a table fills.   *)
(* Where the power fails every file has two clusters, which is where a     *)
(* half-made chain can be left behind; the two plain names are symmetric.  *)
(***************************************************************************)
EXTENDS Fat32, TLC

CONSTANTS a, b, root

MCNames == {a, b, root}
MCSizes == {2, 3}
LongFiles == {3}
Symmetric == Permutations({a, b})
AnyParent == {"any_parent"}
PowerLoss == {"power_loss"}
DiskFull == {"disk_full"}
MakeRoot == {"make_root"}
=============================================================================
