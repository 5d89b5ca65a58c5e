--------------------------- MODULE MCContentStore ---------------------------
(***************************************************************************)
(* Small instances of ContentStore for TLC.                                *)
(***************************************************************************)
EXTENDS ContentStore, TLC

\* File identifiers, contents and sessions are interchangeable model values,
\* and no property names one of them.
Symmetric == Permutations(FileIDs) \union Permutations(Contents)
               \union Permutations(Sessions)
=============================================================================
