--------------------------- MODULE MCDownloadSession ---------------------------
(***************************************************************************)
(* Instances of DownloadSession for TLC.                                   *)
(***************************************************************************)
EXTENDS DownloadSession, TLC

CONSTANTS handout, slides   \* two resources, of one and two chunks

MCChunksOf == handout :> {0} @@ slides :> {0, 1}
=============================================================================
