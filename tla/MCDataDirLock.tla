---------------------------- MODULE MCDataDirLock ----------------------------
(***************************************************************************)
(* A finite instance of DataDirLock: two servers that race for the lock,   *)
(* and a third that holds it or is dead.                                   *)
(***************************************************************************)
EXTENDS DataDirLock

CONSTANTS s1, s2, s3

ThreeServers == {s1, s2, s3}
=============================================================================
