------------------------ MODULE MCPersistenceWriter ------------------------
(***************************************************************************)
(* TLC instance of PersistenceWriter: three events, more than a batch      *)
(* holds, and a rollup whose bucket is never full.                         *)
(***************************************************************************)
EXTENDS PersistenceWriter

CONSTANT b1

MCBucketOf == [r \in Rollups |-> b1]
=============================================================================
