---------------------------- MODULE MCChunkScan ----------------------------
(***************************************************************************)
(* One scan of a log of five entries in blocks 2..13, with chunks of 2 to 8 *)
(* blocks: entries sit on chunk boundaries, two share a block, and one is  *)
(* in the end block, which the last query may or may not reach.            *)
(***************************************************************************)
EXTENDS ChunkScan

MCBlockOf == <<2, 5, 9, 9, 13>>
=============================================================================
