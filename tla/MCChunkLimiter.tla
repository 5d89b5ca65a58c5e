--------------------------- MODULE MCChunkLimiter ---------------------------
(***************************************************************************)
(* Small instances of ChunkLimiter for TLC.                                *)
(***************************************************************************)
EXTENDS ChunkLimiter, TLC

\* The requests of sessions with chunks twice as large as those of the others.
CONSTANT Heavy

Weights == [r \in Requests |-> IF r \in Heavy THEN 2 ELSE 1]

\* Requests of one weight are interchangeable.
Symmetric == Permutations(Heavy) \union Permutations(Requests \ Heavy)
=============================================================================
