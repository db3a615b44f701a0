--------------------------- MODULE MCLustreGauges ---------------------------
(* LustreGauges with a symmetric set of filesystems.                        *)
EXTENDS LustreGauges, TLC

FilesystemSymmetry == Permutations(Filesystems)
=============================================================================
