----------------------------- MODULE MCChunkStore -----------------------------
(***************************************************************************)
(* ChunkStore for TLC: a chunk of each of two resources, which earlier     *)
(* visits have left in the database or not.                                *)
(***************************************************************************)
EXTENDS ChunkStore

CONSTANTS r1, r2

TwoChunks == [resource : {r1, r2}, index : {0}]
=============================================================================
