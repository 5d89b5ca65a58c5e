-------------------------- MODULE MCNamespaceQuota --------------------------
(***************************************************************************)
(* Small instances of NamespaceQuota for TLC.                              *)
(***************************************************************************)
EXTENDS NamespaceQuota, TLC

\* Uploads of one kind, and the identifiers of rows, are interchangeable.
Symmetric ==
  Permutations(Sessions) \union Permutations(Instants) \union Permutations(FileIDs)
=============================================================================
