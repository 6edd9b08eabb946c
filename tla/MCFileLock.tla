----------------------------- MODULE MCFileLock -----------------------------
(* The lock with a few processes, and enough inodes that every process may *)
(* have one open while the name LOCK refers to yet another.                *)
EXTENDS FileLock

CONSTANTS p1, p2, i1, i2, i3

=============================================================================
