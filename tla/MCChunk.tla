------------------------------ MODULE MCChunk ------------------------------
(* Chunk with texts on both sides of the one byte boundary.                 *)
EXTENDS Chunk

AllTexts == 1 .. 300
=============================================================================
